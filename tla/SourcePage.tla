----------------------------- MODULE SourcePage -----------------------------
(***************************************************************************)
(* How the handlers read an answer (collector/handlers): which rows become *)
(* drafts, when a page is refused as a whole, and how Trendshift's array   *)
(* is cut out of the text around it.                                       *)
(*                                                                         *)
(* A row says what a source gave of an item: whether there is an id or an  *)
(* address, a title, and the category the feed is about.                   *)
(***************************************************************************)
EXTENDS Integers, Sequences

Row == [id: BOOLEAN, title: BOOLEAN, topic: BOOLEAN]

\* ------------------------------------------------------------------ rows and drafts
KeptOfSaramin(row) == row.id /\ row.title /\ row.topic
KeptOfLinkareer(row) == row.title /\ row.topic
KeptOfRss(row) == row.id /\ row.title
KeptOfHackerNews(row) == row.title
KeptOfWanted(row) == row.title
KeptOfJumpit(row) == row.title
KeptOfAnthropic(row) == row.title
KeptOfIndieHackers(row) == row.id

\* One row that cannot be read fails the whole page.
ReadableStarHistory(rows) == rows # <<>> /\ \A i \in DOMAIN rows : rows[i].id
ReadableTrendshift(rows) == rows # <<>> /\ \A i \in DOMAIN rows : rows[i].id

\* The others take every row.
Kept(source, row) ==
  CASE source = "saramin" -> KeptOfSaramin(row)
    [] source = "linkareer" -> KeptOfLinkareer(row)
    [] source = "rss" -> KeptOfRss(row)
    [] source = "hackernews" -> KeptOfHackerNews(row)
    [] source = "wanted" -> KeptOfWanted(row)
    [] source = "jumpit" -> KeptOfJumpit(row)
    [] source = "anthropic-news" -> KeptOfAnthropic(row)
    [] source = "indiehackers" -> KeptOfIndieHackers(row)
    [] OTHER -> TRUE

\* -------------------------------------------------------------- Trendshift's array
\* The text after the key, in characters that matter.
Opening == {"[", "{"}
Closing == {"]", "}"}
Character == Opening \cup Closing \cup {"quote", "backslash"}

NoArray == <<>>

\* The loop's variables: the depth, whether a string is open, where to go on, and the end.
At(depth, from) == [depth |-> depth, inString |-> FALSE, from |-> from, end |-> 0]
In(depth, from) == [depth |-> depth, inString |-> TRUE, from |-> from, end |-> 0]
Closed(end) == [depth |-> 0, inString |-> FALSE, from |-> end + 1, end |-> end]

\* One turn of the loop, with the character at `index`; a closed array ends the loop.
Turn(s, index, character) ==
  IF s.end # 0 \/ index < s.from THEN s
  ELSE IF s.inString
  THEN IF character = "quote" THEN At(s.depth, index + 1)
       ELSE In(s.depth, index + (IF character = "backslash" THEN 2 ELSE 1))
  ELSE IF character = "quote" THEN In(s.depth, index + 1)
  ELSE IF character \in Opening THEN At(s.depth + 1, index + 1)
  ELSE IF character \in Closing
  THEN IF s.depth = 1 THEN Closed(index) ELSE At(s.depth - 1, index + 1)
  ELSE At(s.depth, index + 1)

Turns(text) ==
  LET turns[i \in 0..Len(text)] == IF i = 0 THEN At(0, 1) ELSE Turn(turns[i - 1], i, text[i])
  IN turns

\* What is cut out, or nothing where the array does not begin or is not closed.
readJsonArrayAfter(text) ==
  IF text = <<>> \/ text[1] # "[" THEN NoArray ELSE SubSeq(text, 1, Turns(text)[Len(text)].end)

\* ------------------------------------------------------------- reference definitions
\* An odd number of backslashes stands before a character.
IsEscaped(text, i) ==
  \E j \in 1..(i - 1) :
    /\ text[j] # "backslash" /\ \A l \in (j + 1)..(i - 1) : text[l] = "backslash"
    /\ (i - 1 - j) % 2 = 1

IsString(text) ==
  /\ Len(text) >= 2 /\ text[1] = "quote"
  /\ \A i \in 2..Len(text) : (text[i] = "quote" /\ ~IsEscaped(text, i)) <=> i = Len(text)

\* Where lists of k characters stand: a value, a string or a bracketed list, and the rest.
ListsOf(text, lists, k) ==
  {a \in 1..(Len(text) + 1) :
     \/ k = 0
     \/ /\ a + k - 1 <= Len(text)
        /\ \E m \in 1..k :
             /\ a + m \in lists[k - m]
             /\ \/ IsString(SubSeq(text, a, a + m - 1))
                \/ /\ m >= 2 /\ a + 1 \in lists[m - 2]
                   /\ <<text[a], text[a + m - 1]>> \in {<<"[", "]">>, <<"{", "}">>}}

\* By their length, the shorter ones first; commas and colons are left out, so that a
\* list may be empty.
Lists(text) == LET lists[k \in 0..Len(text)] == ListsOf(text, lists, k) IN lists

IsArray(text) ==
  LET n == Len(text)
  IN n >= 2 /\ <<text[1], text[n]>> = <<"[", "]">> /\ 2 \in Lists(text)[n - 2]
=============================================================================
