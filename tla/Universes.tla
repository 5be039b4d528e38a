------------------------------ MODULE Universes ------------------------------
(***************************************************************************)
(* Universes (user/universe.c): growing tables of references, with a free  *)
(* list of cells, a mutex each, and operations that move or copy a         *)
(* reference from one universe to another.                                 *)
(*                                                                         *)
(* A critical section of one universe lock that does not wait inside is    *)
(* one step.  The lock is a field of the universe because two kinds of     *)
(* step hold it for longer: the operations on a pair of universes take two *)
(* locks one after the other, and a thread that waits for its cookie's     *)
(* lock keeps the universe it has locked.                                  *)
(***************************************************************************)
EXTENDS Objects

Universe(t) == th[t].universe
Cookie(t) == th[t].cookie

Unlocked(u) == heap[u].lock = Nobody

\* The handles user programs pass.  Handles above MaxCells + 1 behave as
\* MaxCells + 1 does: they are refused, or one past the end.
Handles == 1..(MaxCells + 1)

\* The possible answers for a handle.  The comparison lets the index one past
\* the end through, whose in_use is whatever that memory holds.
user_universe_check_ref_nolock(u, h) ==
  IF h <= Len(heap[u].cells) THEN {heap[u].cells[h] # Unused}
  ELSE IF h = Len(heap[u].cells) + 1 THEN BOOLEAN
  ELSE {FALSE}

\* The check has accepted a cell that is not one.
Beyond(u, h) == h > Len(heap[u].cells)

\* Faulty variant: the cell does not go back to the free list.
ReleaseForgets(hp, u, h) == [hp EXCEPT ![u].cells[h] = Unused]

\* A cell is given back to the free list.
Release(hp, u, h) == [hp EXCEPT ![u].cells[h] = Unused, ![u].free = Append(@, h)]

\* The outcomes of storing a reference: refused when it is to an older
\* universe; in the head of the free list; in a new cell at the end, for
\* which there may be no memory when the array has to grow.
user_universe_move_in_nolock(hp, u, ref) ==
  LET pushed == [hp EXCEPT ![u].cells = Append(@, ref)]
      failed == [ok |-> FALSE, heap |-> hp]
  IN  IF ref.type = "UNIVERSE" /\ ref.obj < u THEN {failed}
      ELSE IF hp[u].free # <<>>
      THEN {[ok |-> TRUE, heap |-> [hp EXCEPT ![u].cells[Head(hp[u].free)] = ref,
                                              ![u].free = Tail(@)]]}
      ELSE IF Len(hp[u].cells) = MaxCells THEN {failed}
      ELSE IF Len(hp[u].cells) % GrowthDelta # 0 THEN {[ok |-> TRUE, heap |-> pushed]}
      ELSE {failed, [ok |-> TRUE, heap |-> pushed]}

\* Two references or none: when the second one cannot be stored the first
\* cell is given back.
user_universe_move_in_pair(hp, u, refs) ==
  UNION {IF ~first.ok THEN {first}
         ELSE {IF second.ok THEN second
               ELSE [ok |-> FALSE,
                     heap |-> Release(second.heap, u,
                                CHOOSE h \in DOMAIN second.heap[u].cells :
                                  /\ second.heap[u].cells[h] = refs[1]
                                  /\ h > Len(hp[u].cells) \/ hp[u].cells[h] = Unused)] :
                 second \in user_universe_move_in_nolock(first.heap, u, refs[2])} :
            first \in user_universe_move_in_nolock(hp, u, refs[1])}

user_universe_move_in(hp, u, refs) ==
  IF Len(refs) = 2 THEN user_universe_move_in_pair(hp, u, refs)
  ELSE user_universe_move_in_nolock(hp, u, refs[1])

(***************************************************************************)
(* A thread's way through a system call: it borrows what its handles refer *)
(* to (th[t].refs), does its work, drops what it has borrowed and what the *)
(* work left to be dropped (drops), and stores the references it has made  *)
(* (new) in its universe.                                                  *)
(***************************************************************************)
Objs(refs) == [i \in 1..Len(refs) |-> refs[i].obj]

\* user_sys_rpc_call drops what it has borrowed in the opposite order.
DropOrder(sys, refs) == IF sys = "rpc_call" THEN Reverse(Objs(refs)) ELSE Objs(refs)

\* The call ends with the memory hp, references to drop first, and new ones to store.
Finish(t, hp, todrop, new) ==
  /\ heap' = hp /\ UNCHANGED astray
  /\ th' = [th EXCEPT ![t] = Settled([@ EXCEPT !.at = "end", !.refs = <<>>, !.new = new,
              !.drops = DropsOf(todrop \o DropOrder(th[t].sys, th[t].refs))])]

Return(t, hp) == Finish(t, hp, <<>>, <<>>)

\* The thread sleeps on a lock that nobody will release, with the locks it has.
Stuck(t, hp, refs, new) ==
  /\ heap' = hp /\ UNCHANGED astray
  /\ th' = [th EXCEPT ![t].at = "stuck", ![t].refs = @ \o refs, ![t].new = new]

Stray == astray' = TRUE /\ UNCHANGED <<heap, th>>

LockedBy(hp, u, t) == [hp EXCEPT ![u].lock = t]

\* Use happens if there is a reference at the handle.
AtRef(t, hp, u, h, Use) ==
  \E valid \in user_universe_check_ref_nolock(u, h) :
    \/ ~valid /\ Return(t, hp)
    \/ valid /\ Beyond(u, h) /\ Stray
    \/ valid /\ ~Beyond(u, h) /\ Use

\* user_unpinned_for: Do when the thread's cookie opens the pin of the
\* reference, Otherwise when it does not.
IfUnpinned(t, r, Do, Otherwise, Blocked) ==
  \/ AuthBlocks(Cookie(t), r.pin) /\ Blocked
  \/ ~AuthBlocks(Cookie(t), r.pin) /\ user_entry_cookie_auth(Cookie(t), r.pin) /\ Do
  \/ ~AuthBlocks(Cookie(t), r.pin) /\ ~user_entry_cookie_auth(Cookie(t), r.pin) /\ Otherwise

\* The thread borrows what its next handle refers to, and goes on to the step
\* next if that has one of the types the call wants.
user_universe_borrow_out(t, h, sys, types, next) ==
  LET u == Universe(t)
      r == heap[u].cells[h]
      use ==
        /\ heap' = mem_rc_borrow(heap, r.obj) /\ UNCHANGED astray
        /\ th' = [th EXCEPT ![t] =
             IF r.type \in types
             THEN [@ EXCEPT !.sys = sys, !.at = next,
                            !.refs = Append(@, Ref(r.obj, r.type, OnlyKernel))]
             ELSE [@ EXCEPT !.sys = sys, !.at = "end", !.refs = <<>>,
                            !.drops = DropsOf(DropOrder(sys, Append(th[t].refs, r)))]]
  IN  Unlocked(u) /\ AtRef(t, heap, u, h, use)

\* Faulty variant: the pin is not looked at.
DropCellUnchecked(t, u, h) ==
  LET use == Finish(t, Release(heap, u, h), <<heap[u].cells[h].obj>>, <<>>)
  IN  Unlocked(u) /\ AtRef(t, heap, u, h, use)

user_universe_drop_cell(t, u, h) ==
  LET r == heap[u].cells[h]
      use == IfUnpinned(t, r, Finish(t, Release(heap, u, h), <<r.obj>>, <<>>),
                        Return(t, heap), Stuck(t, LockedBy(heap, u, t), <<>>, <<>>))
  IN  Unlocked(u) /\ AtRef(t, heap, u, h, use)

\* The references a thread has made are stored in the universe dst, or
\* dropped if there is no place for them.
user_universe_move_in_new(t, dst) ==
  /\ Unlocked(dst)
  /\ \E m \in user_universe_move_in(heap, dst, th[t].new) :
       /\ heap' = m.heap /\ UNCHANGED astray
       /\ th' = [th EXCEPT ![t] = Settled([@ EXCEPT !.new = <<>>,
                   !.drops = IF m.ok THEN <<>> ELSE DropsOf(Objs(th[t].new))])]

(***************************************************************************)
(* Operations on a pair of universes                                       *)
(***************************************************************************)
\* Faulty variant: the source is the first, whatever its age.
SourceFirst(p) == p.src

\* The universe of a pair that is locked first.
Older(p) == IF p.src < p.dst THEN p.src ELSE p.dst

\* user_universe_lock_pair: the universe with the smaller id is locked first.
\* A pair of one universe is locked once and then once more.
user_universe_lock_pair(t, p) ==
  /\ Unlocked(Older(p))
  /\ heap' = LockedBy(heap, Older(p), t)
  /\ th' = [th EXCEPT ![t].at = "pair"] /\ UNCHANGED astray

user_universe_unlock_pair(hp, p) == [hp EXCEPT ![p.src].lock = Nobody, ![p.dst].lock = Nobody]

\* The lock the thread waits for after it has the first one.
SecondLock(t, p) == CHOOSE u \in {p.src, p.dst} : heap[u].lock # t \/ p.src = p.dst

user_universe_move_across(t, p, h) ==
  LET hp == user_universe_unlock_pair(heap, p)
      r == heap[p.src].cells[h]
      use ==
        IfUnpinned(t, r,
          \E m \in user_universe_move_in_nolock(hp, p.dst, r) :
            Return(t, IF m.ok THEN Release(m.heap, p.src, h) ELSE m.heap),
          Return(t, hp),
          Stuck(t, LockedBy(heap, SecondLock(t, p), t), <<>>, <<>>))
  IN  Unlocked(SecondLock(t, p)) /\ AtRef(t, hp, p.src, h, use)

user_universe_borrow_across(t, p, h) ==
  LET hp == user_universe_unlock_pair(heap, p)
      r == heap[p.src].cells[h]
      use ==
        LET borrowed == mem_rc_borrow(hp, r.obj)
        IN  IfUnpinned(t, r,
              \E m \in user_universe_move_in_nolock(borrowed, p.dst, r) :
                Finish(t, m.heap, IF m.ok THEN <<>> ELSE <<r.obj>>, <<>>),
              Finish(t, borrowed, <<r.obj>>, <<>>),
              Stuck(t, LockedBy(mem_rc_borrow(heap, r.obj), SecondLock(t, p), t), <<r>>, <<>>))
  IN  Unlocked(SecondLock(t, p)) /\ AtRef(t, hp, p.src, h, use)

(***************************************************************************)
(* Pins                                                                    *)
(***************************************************************************)
\* The pin of a cell becomes pin, if it is now one of mine.
Repin(t, h, mine, pin) ==
  LET u == Universe(t)
      r == heap[u].cells[h]
      use == Return(t, IF r.pin \in mine THEN [heap EXCEPT ![u].cells[h].pin = pin] ELSE heap)
  IN  Unlocked(u) /\ AtRef(t, heap, u, h, use)

user_universe_unpin(t, h) == Repin(t, h, {Key(Cookie(t)), Universal}, Universal)

user_universe_pin(t, h) == Repin(t, h, {Key(Cookie(t)), Universal}, Key(Cookie(t)))

user_universe_unpin_from_group(t, h, group) ==
  Repin(t, h, {Key(group), Key(Cookie(t)), Universal}, Universal)

user_universe_pin_to_group(t, h, group) ==
  Repin(t, h, {Key(group), Key(Cookie(t)), Universal}, Key(group))

(***************************************************************************)
(* Fork                                                                    *)
(***************************************************************************)
\* The first n cells of cells, without those that the cookie c does not open.
Copied(cells, n, c) ==
  [i \in 1..n |-> IF cells[i] # Unused /\ user_entry_cookie_auth(c, cells[i].pin)
                  THEN cells[i] ELSE Unused]

\* A reference more for every cell in use.
BorrowAll(hp, cells) ==
  [o \in DOMAIN hp |->
     LET more == Cardinality({i \in DOMAIN cells : cells[i] # Unused /\ cells[i].obj = o})
     IN  IF more = 0 THEN hp[o] ELSE [hp[o] EXCEPT !.rc = @ + more]]

\* A younger universe with the cells of u that the thread's cookie opens.
\* There may be no memory for it.  The thread stops at the first cell whose
\* pin makes it wait for its cookie.  When the array cannot be resized the
\* new universe is dropped with cells it does not have yet.
user_universe_fork(t, u) ==
  LET cells == heap[u].cells
      blocked == {i \in DOMAIN cells : cells[i] # Unused /\ AuthBlocks(Cookie(t), cells[i].pin)}
      n == IF blocked = {} THEN Len(cells)
           ELSE (CHOOSE i \in blocked : \A j \in blocked : i <= j) - 1
      copy == Copied(cells, n, Cookie(t))
      hp == Append(BorrowAll(heap, copy),
                   [NewUniverse EXCEPT !.cells = copy,
                                       !.free = SelectSeq([i \in 1..n |-> i],
                                                  LAMBDA i : copy[i] = Unused)])
      new == <<Ref(Len(hp), "UNIVERSE", Key(Cookie(t)))>>
  IN  \/ Return(t, heap)
      \/ /\ Unlocked(u) /\ Len(heap) < MaxObjects
         /\ \/ blocked = {} /\ Finish(t, hp, <<>>, new)
            \/ blocked # {} /\ Stuck(t, LockedBy(hp, u, t), <<>>, new)
            \/ cells # <<>> /\ Stray
=============================================================================
