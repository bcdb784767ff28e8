-------------------------------- MODULE Arena --------------------------------
(***************************************************************************)
(* BasicArena and BasicPool of core/include/join/allocator.hpp: pools of   *)
(* equal chunks, one per size class, each with a lock-free free list whose *)
(* head carries a generation counter.  The index of the next free chunk is *)
(* stored in the chunk itself, where the owner of the chunk writes its     *)
(* data: a thread may read it while another one owns the chunk.            *)
(***************************************************************************)
EXTENDS Naturals

CONSTANTS
    Users,       \* the threads
    Classes,     \* the size classes 1..Classes, a pool each, in ascending order
    Count,       \* chunks per pool
    NullIdx,     \* NULL_IDX
    Garbage,     \* an index made of the owner's data
    MaxGen       \* bound: generations per pool, below 2^32

ASSUME ArenaAssumption ==
    /\ Classes \in Nat \ {0} /\ Count \in Nat \ {0} /\ MaxGen \in Nat
    /\ NullIdx \notin 0..Count - 1 /\ Garbage \notin 0..Count - 1 /\ NullIdx # Garbage

VARIABLES
    next,     \* next[p][i]: _next of chunk i of pool p
    top,      \* top[p]: the tagged head, [idx, gen]
    frame,    \* a call's locals: [pc, pool, promote, chunk, cur, nxt]
    owned     \* the chunks each thread has been given, as <<pool, index>>

arenaVars == <<next, top, frame, owned>>

Pools == 1..Classes
Chunks == Pools \X (0..Count - 1)

NoCall == [pc |-> "idle", pool |-> 1, promote |-> FALSE, chunk |-> 0, cur |-> [idx |-> NullIdx, gen |-> 0], nxt |-> NullIdx]

\* The constructor: all chunks are free.
ArenaInit ==
    /\ next = [p \in Pools |-> [i \in 0..Count - 1 |-> IF i = Count - 1 THEN NullIdx ELSE i + 1]]
    /\ top = [p \in Pools |-> [idx |-> 0, gen |-> 0]]
    /\ frame = [t \in Users |-> NoCall]
    /\ owned = [t \in Users |-> {}]

Frame(t, f) == frame' = [frame EXCEPT ![t] = f]

-----------------------------------------------------------------------------
(* allocate and tryAllocate: BasicPool::pop.                                *)

\* The pool of the size class, and the load of its head.
Allocate(t, class, promote) ==
    /\ frame[t].pc = "idle"
    /\ \A p \in Pools : top[p].gen < MaxGen
    /\ Frame(t, [NoCall EXCEPT !.pc = "pop", !.pool = class, !.promote = promote, !.cur = top[class]])
    /\ UNCHANGED <<next, top, owned>>

\* Beyond the chunks there is only other data.
NextOf(p, i) == IF i \in 0..Count - 1 THEN next[p][i] ELSE Garbage

\* An empty list: the next pool if the call promotes, else nullptr.  Otherwise the chunk's _next is read.
PopRead(t) ==
    LET f == frame[t]
        promoted == f.promote /\ f.pool < Classes IN
    /\ f.pc = "pop"
    /\ \/ f.cur.idx # NullIdx /\ Frame(t, [f EXCEPT !.pc = "take", !.nxt = NextOf(f.pool, f.cur.idx)])
       \/ f.cur.idx = NullIdx /\ promoted /\ Frame(t, [f EXCEPT !.pool = @ + 1, !.cur = top[f.pool + 1]])
       \/ f.cur.idx = NullIdx /\ ~promoted /\ Frame(t, NoCall)
    /\ UNCHANGED <<next, top, owned>>

\* Mutant: only the index is compared.
PopTakeIndexOnly(t) ==
    LET f == frame[t] IN
    /\ f.pc = "take"
    /\ \/ /\ top[f.pool].idx = f.cur.idx
          /\ top' = [top EXCEPT ![f.pool] = [idx |-> f.nxt, gen |-> f.cur.gen + 1]]
          /\ owned' = [owned EXCEPT ![t] = @ \cup {<<f.pool, f.cur.idx>>}]
          /\ Frame(t, NoCall)
       \/ /\ Frame(t, [f EXCEPT !.pc = "pop", !.cur = top[f.pool]])
          /\ UNCHANGED <<top, owned>>
    /\ UNCHANGED next

\* compare_exchange_weak of the head, which may fail for no reason: the loop goes on with the head it finds.
PopTake(t) ==
    LET f == frame[t] IN
    /\ f.pc = "take"
    /\ \/ /\ top[f.pool] = f.cur
          /\ top' = [top EXCEPT ![f.pool] = [idx |-> f.nxt, gen |-> f.cur.gen + 1]]
          /\ owned' = [owned EXCEPT ![t] = @ \cup {<<f.pool, f.cur.idx>>}]
          /\ Frame(t, NoCall)
       \/ /\ Frame(t, [f EXCEPT !.pc = "pop", !.cur = top[f.pool]])
          /\ UNCHANGED <<top, owned>>
    /\ UNCHANGED next

-----------------------------------------------------------------------------
(* deallocate: the pool that owns the chunk, BasicPool::push.               *)

Deallocate(t, c) ==
    /\ frame[t].pc = "idle"
    /\ c \in owned[t]
    /\ top[c[1]].gen < MaxGen
    /\ owned' = [owned EXCEPT ![t] = @ \ {c}]
    /\ Frame(t, [NoCall EXCEPT !.pc = "link", !.pool = c[1], !.chunk = c[2], !.cur = top[c[1]]])
    /\ UNCHANGED <<next, top>>

PushLink(t) ==
    LET f == frame[t] IN
    /\ f.pc = "link"
    /\ next' = [next EXCEPT ![f.pool][f.chunk] = f.cur.idx]
    /\ Frame(t, [f EXCEPT !.pc = "give"])
    /\ UNCHANGED <<top, owned>>

\* compare_exchange_weak, as in PopTake.
PushGive(t) ==
    LET f == frame[t] IN
    /\ f.pc = "give"
    /\ \/ /\ top[f.pool] = f.cur
          /\ top' = [top EXCEPT ![f.pool] = [idx |-> f.chunk, gen |-> f.cur.gen + 1]]
          /\ Frame(t, NoCall)
       \/ /\ Frame(t, [f EXCEPT !.pc = "link", !.cur = top[f.pool]])
          /\ UNCHANGED top
    /\ UNCHANGED <<next, owned>>

-----------------------------------------------------------------------------

\* The owner of a chunk writes its data over _next.
UseChunk(t, c) ==
    /\ c \in owned[t]
    /\ next' = [next EXCEPT ![c[1]][c[2]] = Garbage]
    /\ UNCHANGED <<top, frame, owned>>

ArenaNext == \E t \in Users :
    \/ \E class \in Pools, promote \in BOOLEAN : Allocate(t, class, promote)
    \/ PopRead(t)
    \/ PopTake(t)
    \/ \E c \in Chunks : Deallocate(t, c) \/ UseChunk(t, c)
    \/ PushLink(t)
    \/ PushGive(t)

ArenaSpec == ArenaInit /\ [][ArenaNext]_arenaVars

-----------------------------------------------------------------------------

\* s lists n chunks of pool p, each once, in the order of its free list, to the end.
IsFreeList(p, n, s) ==
    /\ \A i, j \in 1..n : s[i] = s[j] => i = j
    /\ top[p].idx = IF n = 0 THEN NullIdx ELSE s[1]
    /\ \A i \in 1..n : next[p][s[i]] = IF i = n THEN NullIdx ELSE s[i + 1]

\* The chunks that are on their way back.
Returning(p) == {frame[t].chunk : t \in {u \in Users : frame[u].pc \in {"link", "give"} /\ frame[u].pool = p}}

Taken(p) == {i \in 0..Count - 1 : \E t \in Users : <<p, i>> \in owned[t]}

(* BasicPool::pop gives a chunk to one thread at a time: the generation counter keeps a
   late compare-exchange from putting a chunk in use at the head of the list.  *)
NoDoubleAllocation == \A t, u \in Users : t # u => owned[t] \cap owned[u] = {}

(* pop and push neither lose nor invent chunks: each is on the free list, which holds it once
   and ends where it should, or owned, or on its way back.                    *)
ChunksConserved ==
    \A p \in Pools : \E n \in 0..Count : \E s \in [1..n -> 0..Count - 1] :
        LET free == {s[i] : i \in 1..n} IN
        /\ IsFreeList(p, n, s)
        /\ free \cup Returning(p) \cup Taken(p) = 0..Count - 1
        /\ free \cap (Returning(p) \cup Taken(p)) = {}
        /\ Returning(p) \cap Taken(p) = {}
=============================================================================
