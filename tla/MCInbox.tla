------------------------------- MODULE MCInbox -------------------------------
(* Small instances of Inbox: one phone between two accounts, or one list of *)
(* three entries, read page by page.                                        *)
EXTENDS Inbox, TLC

CONSTANTS ann, bob, phone

Part(users, paged, ids, some) ==
  [users |-> users, paged |-> paged, ids |-> ids, phones |-> some]

Parts == {Part({ann, bob}, {}, {1}, {phone}), Part({ann}, {ann}, {2, 3, 4}, {})}
           \cup {Part({}, {l}, {2, 3, 4}, {}) : l \in Lists \ Users}

Interchangeable == Permutations(Workers)
=============================================================================
