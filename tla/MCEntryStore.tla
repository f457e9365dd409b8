---------------------------- MODULE MCEntryStore ----------------------------
(* Two feeds, three dedup keys.  The batches list a key twice, list later    *)
(* before earlier, leave dates out, and fall below the lower bound of s.     *)
EXTENDS EntryStore

CONSTANTS r, s, k1, k2, k3

D(key, publishedAt) == [key |-> key, publishedAt |-> publishedAt]
MCBatch ==
  {<<>>,
   <<D(k1, 1)>>,
   <<D(k2, 2), D(k1, 1)>>,
   <<D(k3, 0), D(k3, 0), D(k2, 2)>>,
   <<D(k2, 3), D(k3, 2), D(k1, 0)>>}
MCPublishedSince == [f \in Feed |-> IF f = s THEN 2 ELSE 0]
MCDeclaredLimit == [f \in Feed |-> 3]
=============================================================================
