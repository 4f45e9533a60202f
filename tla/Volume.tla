------------------------------- MODULE Volume -------------------------------
(***************************************************************************)
(* What DiskFilter3 owes to the file system above it while a volume is     *)
(* protected: requests are served one at a time in the order they were     *)
(* queued, a read answers with the contents its turn finds, a write that   *)
(* completes has replaced exactly the parts it names, and nothing but a    *)
(* write changes a block - in particular no caching, eviction or flush     *)
(* does.  The specification knows neither cache nor disk nor threads.      *)
(*                                                                         *)
(* A block is divided into parts, the pieces of it a request may start or  *)
(* end at; a request names the parts it covers of every block.             *)
(***************************************************************************)
EXTENDS Sequences

CONSTANTS
  Block,    \* the block indices of the volume
  Part,     \* the parts of one block
  Data,     \* what a part may hold
  Request,  \* the requests the file system may issue
  None      \* no answer yet

Content == [Part -> Data]

\* Every request has a direction, its parts of each block, and (for a write) what it stores there.
RequestType ==
  [op : {"read", "write"}, parts : [Block -> SUBSET Part], val : [Block -> Content]]

\* The blocks a request touches.
Blocks(r) == {b \in Block : r.parts[b] # {}}

\* Contents new in the parts ps, contents old in the rest.
Merge(old, new, ps) == [p \in Part |-> IF p \in ps THEN new[p] ELSE old[p]]

VARIABLES
  vol,      \* the contents of the volume
  pending,  \* the queued requests, the one being served first, and whether each is cancelled
  ans       \* the answer of the read at the head, once it is determined

volVars == <<vol, pending, ans>>

VolTypeOK ==
  /\ vol \in [Block -> Content]
  /\ pending \in Seq([req : Request, void : BOOLEAN])
  /\ ans = None \/ ans \in UNION {[S -> Content] : S \in SUBSET Block}

VolInit ==
  /\ vol \in [Block -> Content]
  /\ pending = <<>>
  /\ ans = None

Submit(r) ==
  /\ pending' = Append(pending, [req |-> r, void |-> FALSE])
  /\ UNCHANGED <<vol, ans>>

\* The issuer cancels a request that still waits.
Void(k) ==
  /\ pending' = [pending EXCEPT ![k].void = TRUE]
  /\ UNCHANGED <<vol, ans>>

\* The request whose turn it is.
Turn == Head(pending).req
Serving(op) == pending # <<>> /\ ~Head(pending).void /\ Turn.op = op

\* The write at the head reaches one of its blocks.
WriteBlock(b) ==
  /\ Serving("write")
  /\ vol' = [vol EXCEPT ![b] = Merge(@, Turn.val[b], Turn.parts[b])]
  /\ UNCHANGED <<pending, ans>>

\* The read at the head is answered: the parts it asked for are those of the volume.
Answer ==
  /\ Serving("read")
  /\ ans = None
  /\ ans' \in [Blocks(Turn) -> Content]
  /\ \A b \in Blocks(Turn) : \A p \in Turn.parts[b] : ans'[b][p] = vol[b][p]
  /\ UNCHANGED <<vol, pending>>

\* The write at the head completes: all of it is in the volume.
CompleteWrite ==
  /\ Serving("write")
  /\ \A b \in Block : \A p \in Turn.parts[b] : vol[b][p] = Turn.val[b][p]
  /\ pending' = Tail(pending)
  /\ UNCHANGED <<vol, ans>>

\* The read at the head completes, with its answer or with an error.
CompleteRead ==
  /\ Serving("read")
  /\ pending' = Tail(pending)
  /\ ans' = None
  /\ UNCHANGED vol

\* A cancelled request is dropped at its turn, nothing of it done.
Drop ==
  /\ pending # <<>>
  /\ Head(pending).void
  /\ pending' = Tail(pending)
  /\ UNCHANGED <<vol, ans>>

VolNext ==
  \/ \E r \in Request : Submit(r)
  \/ \E k \in DOMAIN pending : Void(k)
  \/ \E b \in Block : WriteBlock(b)
  \/ Answer
  \/ CompleteWrite
  \/ CompleteRead
  \/ Drop

VolSpec == VolInit /\ [][VolNext]_volVars
=============================================================================
