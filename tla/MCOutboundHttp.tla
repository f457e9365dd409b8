--------------------------- MODULE MCOutboundHttp ---------------------------
(* Small lists and pages; every day of seven years, at three hours in turn: *)
(* before and at the hour Product Hunt's days begin, and at Korea's midnight. *)
EXTENDS OutboundHttp

MCSource ==
  {"wanted", "hellogithub", "producthunt", "hackernews", "starhistory", "trendshift",
   "saramin", "linkareer", "rss", "anthropic-news", "indiehackers", "jumpit", "devto"}
MCItem == 1..5
MCFirstListings == {[p \in 1..n |-> p] : n \in 0..5}
\* Besides those: the five without one of them, and with one of them at any rank.
MCListings ==
  MCFirstListings
    \cup {list \in [1..4 -> MCItem] : \A p, q \in 1..4 : p < q => list[p] < list[q]}
    \cup {list \in [1..5 -> MCItem] :
            /\ IsInjective(list)
            /\ \E n \in 1..5 : \A p, q \in 1..5 \ {n} : p < q => list[p] < list[q]}
MCRowOf == [i \in MCItem |-> [id |-> i # 4, title |-> i # 2, topic |-> i # 3]]
MCInstants == {24 * day + <<6, 7, 15>>[(day % 3) + 1] : day \in 20454..23010}
MCAhead == {-30, -29, -1, 0, 1} \cup {15 * n : n \in 1..22}
\* Every text of up to four characters, the longer ones without braces.
OpenedBy(chars, n) == {<<"[">> \o text : text \in [1..n -> chars]}
MCText ==
  {<<>>} \cup UNION {OpenedBy(Character, n) : n \in 0..3}
    \cup UNION {OpenedBy({"[", "]", "quote", "backslash"}, n) : n \in 4..5}
=============================================================================
