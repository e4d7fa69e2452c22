----------------------------- MODULE MCHeadStream -----------------------------
(* Documents for HeadStream: up to two tags or comments in the head, what may
   stand before it and after it, a head that is never closed, and no head. *)
EXTENDS HeadStream

HeadItems == {<<"<a", ">">>, <<"<b", "'</head>'", ">">>, <<"<other", ">">>, <<"<preload a", ">">>,
              <<"<!--", "<b", ">", "-->">>, <<"<a", ">", "text", "<!--", "</head", ">", "-->">>}
Heads == {<<>>} \cup HeadItems \cup {x \o y : x, y \in HeadItems}
Before == {<<>>, <<"<other", ">">>, <<"text", "text", "text">>}
After == {<<>>, <<"</head", ">">>, <<"</head", ">", "<b", ">", "text">>}
MCDocuments == {x \o <<"<head", ">">> \o y \o z : x \in Before, y \in Heads, z \in After}
                 \cup {x \o <<"<a", ">", "text">> : x \in Before}
===============================================================================
