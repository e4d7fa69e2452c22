------------------------------ MODULE HeadStream ------------------------------
(***************************************************************************)
(* The HTML stream boost: a document that arrives in chunks is held back   *)
(* until its head is closed, preload hints for the scripts and styles of   *)
(* the head are inserted, and the rest passes                              *)
(* (background/network/html-head-scanner.js, stream-injector.js).          *)
(*                                                                         *)
(* A document is a sequence of lexemes: the beginning of a tag with what   *)
(* names its asset, a quoted attribute that contains "</head>", the ">"    *)
(* of a tag, the two ends of a comment, text. A chunk may end after any of *)
(* them, so in the middle of a tag or a comment. What is written is a      *)
(* sequence of positions in the document, with 0 for the hints.            *)
(***************************************************************************)
EXTENDS Naturals, Sequences, FiniteSetsExt

CONSTANTS
    Documents,     \* the documents that may arrive
    MaxScan,       \* MAX_HEAD_SCAN_CHARS
    HoldBack,      \* MAX_HOLD_BACK_CHARS
    MinBeforeHead  \* MIN_BUFFER_BEFORE_HEAD

Assets == {"a", "b"}
Scripts == [t \in {"<a", "<b"} |-> IF t = "<a" THEN "a" ELSE "b"]  \* names a script or style
Preloads == [t \in {"<preload a"} |-> "a"]  \* the page preloads it itself
Tags == DOMAIN Scripts \cup DOMAIN Preloads \cup {"<head", "</head", "<other"}
Opens == Tags \cup {"<!--"}
Ends == {">", "-->"}                       \* "-->" also ends with a ">"
Lexemes == Opens \cup Ends \cup {"'</head>'", "text"}

(* In a comment, or in a tag, at position i of a document, as a browser reads it. *)
InComment(d, i) == \E j \in 1 .. i - 1 :
    d[j] = "<!--" /\ \A c \in j + 1 .. i - 1 : d[c] # "-->"
InTag(d, i) == \E j \in 1 .. i - 1 :
    d[j] \in Tags /\ ~InComment(d, j) /\ \A c \in j + 1 .. i - 1 : d[c] # ">"

(* A tag ends, before anything else opens or ends; the first head is not in a comment,
   and no head is closed before it. *)
TagsEnd(d) == \A i \in DOMAIN d : d[i] \in Tags /\ ~InComment(d, i) =>
    \E c \in DOMAIN d : /\ c > i /\ d[c] = ">"
                        /\ \A k \in i + 1 .. c - 1 : d[k] \notin Opens \cup Ends
HeadIsFirst(d) == \A i \in DOMAIN d :
    /\ d[i] = "<head" => \E h \in 1 .. i : d[h] = "<head" /\ ~InComment(d, h)
    /\ d[i] = "</head" /\ ~InComment(d, i) => \E h \in 1 .. i : d[h] = "<head"

ASSUME DocumentAssumption ==
    /\ MaxScan \in Nat /\ HoldBack \in Nat /\ MinBeforeHead \in Nat
    /\ \A d \in Documents : d \in Seq(Lexemes) /\ TagsEnd(d) /\ HeadIsFirst(d)

VARIABLES
    doc,        \* the document
    arrived,    \* how much of it has arrived
    finalized,  \* the scanner has decided
    buffer,     \* the scanner's buffer: positions, or 0 for the hints
    out,        \* what filter.write was given
    hinted,     \* the assets the hints name
    stopped     \* filter.onstop ran

headVars == <<doc, arrived, finalized, buffer, out, hinted, stopped>>

-----------------------------------------------------------------------------
(* The scanner on the first n lexemes of a document d. *)

First(S) == IF S = {} THEN 0 ELSE Min(S)
TagClose(d, n, i) == First({j \in i + 1 .. n : d[j] \in Ends})
CommentClose(d, n, i) == First({j \in i + 1 .. n : d[j] = "-->"})
CloseOf(d, n, i) == IF d[i] = "<!--" THEN CommentClose(d, n, i) ELSE TagClose(d, n, i)

(* walkTagsFrom: the tags met from position k on, up to an incomplete one. *)
Walk(d, n, from) ==
    LET walk[k \in 1 .. n + 1] ==
            LET i == First({j \in k .. n : d[j] \in Opens})
                c == CloseOf(d, n, i)
            IN  IF i = 0 THEN {}
                ELSE IF c = 0 THEN {}
                ELSE walk[c + 1] \cup ({i} \ {j \in {i} : d[j] = "<!--"})
    IN  walk[from]

HeadOpen(d, n) == First({i \in 1 .. n : d[i] = "<head"})
HeadOpenEnd(d, n) == IF HeadOpen(d, n) = 0 THEN 0 ELSE TagClose(d, n, HeadOpen(d, n))
HeadClose(d, n) ==
    IF HeadOpenEnd(d, n) = 0 THEN 0
    ELSE First({i \in Walk(d, n, HeadOpenEnd(d, n) + 1) : d[i] = "</head"})

(* findIncompleteTagStart: the last opening, if nothing closes it. *)
Incomplete(d, n) ==
    LET opens == {i \in 1 .. n : i + HoldBack > n /\ d[i] \in Opens}
    IN  IF opens = {} THEN 0
        ELSE IF TagClose(d, n, Max(opens)) = 0 THEN Max(opens) ELSE 0

ParseLimit(d, n) ==
    IF HeadClose(d, n) = 0 /\ Incomplete(d, n) # 0 THEN Incomplete(d, n) - 1 ELSE n

(* A faulty Continues: it does not wait for the end of the head. *)
ContinuesHeadless(d, n) == n < MaxScan /\ HeadOpen(d, n) = 0 /\ n < MinBeforeHead

(* shouldContinueBuffering *)
Continues(d, n) ==
    /\ n < MaxScan
    /\ HeadClose(d, n) = 0
    /\ Incomplete(d, n) # 0 \/ HeadOpen(d, n) # 0 \/ n < MinBeforeHead

(* collectCandidatesFromBuffer: the assets of the head's tags that no tag of it
   preloads already. *)
Named(d, S) == {Scripts[d[i]] : i \in {j \in S : d[j] \in DOMAIN Scripts}}
                 \ {Preloads[d[i]] : i \in {j \in S : d[j] \in DOMAIN Preloads}}
Candidates(d, n) ==
    LET limit == ParseLimit(d, n)
    IN  Named(d, {i \in Walk(d, limit, HeadOpenEnd(d, limit) + 1) :
                     HeadClose(d, n) # 0 => i < HeadClose(d, n)})

Span(i, j) == [k \in 1 .. (j + 1) - i |-> i + k - 1]
WithHints(p, n) == Span(1, p) \o <<0>> \o Span(p + 1, n)

(* injectPreloadMarkup: before </head>, or after <head> while it is not closed. *)
Place(d, n) == IF HeadClose(d, n) # 0 THEN HeadClose(d, n) - 1 ELSE HeadOpenEnd(d, n)
Hinted(d, n) == IF HeadOpen(d, n) = 0 THEN {} ELSE Candidates(d, n)
Patched(d, n) ==
    IF Hinted(d, n) = {} \/ Place(d, n) = 0 THEN Span(1, n) ELSE WithHints(Place(d, n), n)

-----------------------------------------------------------------------------
Finalizes(n) ==
    /\ finalized' = TRUE
    /\ buffer' = Patched(doc, n)
    /\ hinted' = Hinted(doc, n)
    /\ out' = out \o Patched(doc, n)

(* filter.ondata: pending, finalized, or passed on as it is. *)
DataArrives(k) ==
    /\ ~stopped /\ arrived + k <= Len(doc)
    /\ arrived' = arrived + k
    /\ \/ /\ finalized
          /\ out' = out \o Span(arrived + 1, arrived + k)
          /\ UNCHANGED <<finalized, buffer, hinted>>
       \/ /\ ~finalized /\ Continues(doc, arrived + k)
          /\ buffer' = Span(1, arrived + k)
          /\ UNCHANGED <<finalized, out, hinted>>
       \/ /\ ~finalized /\ ~Continues(doc, arrived + k)
          /\ Finalizes(arrived + k)
    /\ UNCHANGED <<doc, stopped>>

(* filter.onstop, after the whole document or before: finalizeRemainder hands
   over what is buffered, and once more what it had handed over before. *)
Stops ==
    /\ ~stopped /\ stopped' = TRUE
    /\ \/ /\ ~finalized /\ arrived > 0
          /\ Finalizes(arrived)
       \/ /\ finalized \/ arrived = 0
          /\ out' = out \o buffer
          /\ UNCHANGED <<finalized, buffer, hinted>>
    /\ UNCHANGED <<doc, arrived>>

HeadInit ==
    /\ doc \in Documents
    /\ arrived = 0 /\ finalized = FALSE /\ buffer = <<>> /\ out = <<>>
    /\ hinted = {} /\ stopped = FALSE

HeadNext == Stops \/ \E k \in 1 .. Len(doc) : DataArrives(k)

HeadSpec == HeadInit /\ [][HeadNext]_headVars

-----------------------------------------------------------------------------
(* The document as a browser reads it: what is in a comment, what is in a tag,
   where the head begins and ends. *)
Real(d, t) == {i \in DOMAIN d : d[i] = t /\ ~InComment(d, i) /\ ~InTag(d, i)}
EndOfTag(d, i) == Min({j \in DOMAIN d : j > i /\ d[j] = ">"})
HasHead(d) == Real(d, "<head") # {} /\ Real(d, "</head") # {}
Opening(d) == Min(Real(d, "<head"))
Closing(d) == Min(Real(d, "</head"))
InHead(d) == {i \in DOMAIN d : /\ i > EndOfTag(d, Opening(d)) /\ i <= Closing(d)
                               /\ ~InComment(d, i) /\ ~InTag(d, i)}
InTime(d) == Opening(d) <= MinBeforeHead /\ EndOfTag(d, Closing(d)) <= MaxScan

(* html-head-scanner.js:377-407, stream-injector.js:33-60: while the document
   arrives, what has been written is all of it that has arrived, but for hints that
   stand in one place, or nothing yet; that place is in the head and between two
   tags, and when the head is closed within the limits the hints are the head's
   own, however the document was cut into chunks. *)
HintsFitTheHead ==
    /\ ~stopped => IF finalized
                    THEN out \in {Span(1, arrived)} \cup {WithHints(p, arrived) : p \in 0 .. arrived}
                    ELSE out = <<>>
    /\ HasHead(doc) =>
         /\ \A m \in 1 .. Len(out) - 1 : out[m] = 0 => out[m + 1] \in InHead(doc)
         /\ finalized /\ InTime(doc) /\ arrived >= EndOfTag(doc, Closing(doc))
              => hinted = Named(doc, InHead(doc))

Document(s) == SelectSeq(s, LAMBDA i : i # 0)

(* test/background/network/html-head-scanner.test.js:88, "buffer should remain
   unchanged": but for the hints, the page gets the document that was sent. *)
DocumentIsKept == stopped => Document(out) = Span(1, arrived)
===============================================================================
