------------------------------- MODULE Objects -------------------------------
(***************************************************************************)
(* The kernel objects user programs hold handles to, their reference       *)
(* counts (mem/rc.h, user/object.h) and the cookies that say who may do    *)
(* what (user/cookie.c).  Universes, Shm and Entry build on this module.   *)
(*                                                                         *)
(* An object is an index of the sequence heap, in the order of creation.   *)
(* Objects are never reused, so the index also stands for the universe id  *)
(* and, through Key, for the cookie key: both come from counters that are  *)
(* only incremented.                                                       *)
(***************************************************************************)
EXTENDS Naturals, Sequences, FiniteSets, SequencesExt

CONSTANTS
  Threads,     \* threads, each with its own user_api_entry
  Nobody,      \* no thread
  MaxObjects,  \* bound on the objects created
  MaxCells,    \* bound on the cells of a universe
  GrowthDelta  \* DYNARRAY_GROWTH_DELTA

ASSUME ObjectsAssumption ==
  /\ IsFiniteSet(Threads) /\ Nobody \notin Threads
  /\ MaxObjects \in Nat /\ MaxCells \in Nat /\ GrowthDelta \in Nat \ {0}

VARIABLES
  heap,    \* the objects, a record each
  th,      \* the threads: the system call each one is in, and its references
  astray   \* the kernel used memory that nobody wrote: anything may follow

\* Keys: 0 and 1 are reserved, the counter starts at 2.
OnlyKernel == 0
Universal == 1
Key(o) == o + 1

Types == {"CALLER", "CALLEE", "TOKEN", "MAILBOX", "UNIVERSE", "GROUP_COOKIE",
          "ENTRY_COOKIE", "SHM_OWNER", "SHM_RW_REF", "SHM_RO_REF"}
Kinds == (Types \ {"SHM_RW_REF", "SHM_RO_REF"}) \cup {"SHM_REF"}

\* A reference as a cell stores it, and a cell that is not in use.
Ref(o, type, pin) == [obj |-> o, type |-> type, pin |-> pin]
Unused == [obj |-> 0, type |-> "NONE", pin |-> OnlyKernel]

\* Memory that was given back.
Freed == [kind |-> "freed", rc |-> 0]

\* A reference count that no number of drops in the model brings to 0.
Garbage == 100

(***************************************************************************)
(* New objects                                                             *)
(***************************************************************************)
\* Mailboxes, callers, callees and tokens: the count is the one their handles
\* hold, and an object whose count is 0 is shut down.  What follows (raisers,
\* containers, the memory itself) is in Notifications and Rpc.
Opaque(kind) == [kind |-> kind, rc |-> 1]

NewUniverse == [kind |-> "UNIVERSE", rc |-> 1, cells |-> <<>>, free |-> <<>>,
                lock |-> Nobody]

NewEntryCookie == [kind |-> "ENTRY_COOKIE", rc |-> 1, keys |-> <<>>, locked |-> FALSE]

\* user_group_cookie_create initialises the reference count at the address
\* that the key makes, not in the object: the count is what the block held
\* before.  The heap links its free blocks through that word, so it is 0 for
\* the last block of a list and an address otherwise.
NewGroupCookies == {[kind |-> "GROUP_COOKIE", rc |-> n] : n \in {0, Garbage}}

(***************************************************************************)
(* Reference counts                                                        *)
(***************************************************************************)
mem_rc_borrow(hp, o) == [hp EXCEPT ![o].rc = @ + 1]

\* What dropping a reference leaves to be done: drop an object, or take a
\* shared memory object out of the table of ids.
DropOf(o) == [do |-> "drop", obj |-> o]
Shutdown(o) == [do |-> "shutdown", obj |-> o]
DropsOf(seq) == [i \in 1..Len(seq) |-> DropOf(seq[i])]

\* user_universe_destroy: the references of the cells in use are dropped in turn.
InUse(cells) == SelectSeq(cells, LAMBDA c : c # Unused)
user_universe_destroy(u) == LET used == InUse(u.cells)
                            IN  [i \in 1..Len(used) |-> DropOf(used[i].obj)]

\* The drop callback of an object: the memory afterwards, and what is to be
\* done next.  A shared memory object and its reference are one block, which
\* is freed with the reference.
Dispose(o) ==
  LET free == [heap EXCEPT ![o] = Freed]
  IN  CASE heap[o].kind = "UNIVERSE" ->
             [heap |-> free, todo |-> user_universe_destroy(heap[o])]
        [] heap[o].kind = "SHM_OWNER" ->
             [heap |-> [heap EXCEPT ![o].rc = 0], todo |-> <<Shutdown(o)>>]
        [] heap[o].kind = "SHM_REF" ->
             [heap |-> [free EXCEPT ![o - 1] = Freed], todo |-> <<>>]
        [] OTHER -> [heap |-> free, todo |-> <<>>]

\* A thread that has nothing left to do is out of the system call.
Settled(r) ==
  IF r.at # "end" \/ r.drops # <<>> \/ r.new # <<>> THEN r
  ELSE [r EXCEPT !.sys = "none", !.at = CASE r.sys = "deinit" -> "gone"
                                          [] r.sys = "init" -> "new"
                                          [] OTHER -> "idle"]

\* The next of the references a thread has to drop.  A group cookie, whose
\* count and callback were never set, may reach 0 with a callback that is not
\* NULL.
mem_rc_drop(t, o) ==
  /\ \/ /\ heap[o].rc > 1 \/ heap[o].kind = "GROUP_COOKIE"
        /\ heap' = [heap EXCEPT ![o].rc = IF @ = 0 THEN Garbage ELSE @ - 1]
        /\ th' = [th EXCEPT ![t] = Settled([@ EXCEPT !.drops = Tail(@)])]
     \/ /\ heap[o].rc = 1 /\ heap[o].kind # "GROUP_COOKIE"
        /\ heap' = Dispose(o).heap
        /\ th' = [th EXCEPT ![t] = Settled([@ EXCEPT !.drops = Dispose(o).todo \o Tail(@)])]
  /\ astray' \in IF heap[o].kind = "GROUP_COOKIE" /\ heap[o].rc = 1 THEN BOOLEAN ELSE {FALSE}

(***************************************************************************)
(* Cookies.  The lock of an entry cookie is free between two steps, unless *)
(* user_entry_cookie_remove_from_grp has left it taken.                    *)
(***************************************************************************)
user_entry_cookie_grp_key_present(c, key) == \E i \in DOMAIN heap[c].keys : heap[c].keys[i] = key

\* The key has to be looked up under the lock of the cookie.
AuthLocks(c, key) == key \notin {Universal, Key(c), OnlyKernel}

\* The thread waits for ever for the lock of its cookie.
AuthBlocks(c, key) == AuthLocks(c, key) /\ heap[c].locked

user_entry_cookie_auth(c, key) ==
  \/ key \in {Universal, Key(c)}
  \/ key # OnlyKernel /\ user_entry_cookie_grp_key_present(c, key)

\* The first slot that was cleared takes the key, else it is pushed.
Joined(keys, key) ==
  LET cleared == {i \in DOMAIN keys : keys[i] = 0}
  IN  IF cleared = {} THEN Append(keys, key)
      ELSE [keys EXCEPT ![CHOOSE i \in cleared : \A j \in cleared : i <= j] = key]

\* Faulty variant: whether the key is there already is not looked at.
AddAgain(c, key) == IF heap[c].locked THEN {} ELSE {[heap EXCEPT ![c].keys = Joined(@, key)]}

\* The possible memories after a key is added: it was there, it is added, or
\* it cannot be added for want of memory.  None while the lock is taken.
user_entry_cookie_add_to_grp(c, key) ==
  IF heap[c].locked THEN {}
  ELSE IF user_entry_cookie_grp_key_present(c, key) THEN {heap}
  ELSE {[heap EXCEPT ![c].keys = Joined(@, key)]}
         \cup IF 0 \notin Range(heap[c].keys) /\ Len(heap[c].keys) % GrowthDelta = 0
              THEN {heap} ELSE {}

\* The first slot with the key is cleared.  When there is none the function
\* returns without unlocking.
user_entry_cookie_remove_from_grp(c, key) ==
  LET slots == {i \in DOMAIN heap[c].keys : heap[c].keys[i] = key}
  IN  IF heap[c].locked THEN {}
      ELSE IF slots = {} THEN {[heap EXCEPT ![c].locked = TRUE]}
      ELSE {[heap EXCEPT ![c].keys[CHOOSE i \in slots : \A j \in slots : i <= j] = 0]}
=============================================================================
