-------------------------------- MODULE Entry --------------------------------
(***************************************************************************)
(* The system calls (user/entry.c): threads, each with its universe and    *)
(* its entry cookie, that create, share, pin, move and drop objects.       *)
(***************************************************************************)
EXTENDS Shm

CONSTANT Menus  \* programs: the calls that set it up, one thread at a time, and
                \* after that the calls its threads make, and how many

VARIABLE prog   \* the program, with the calls it still makes

vars == <<heap, th, astray, prog>>

\* The types a system call takes its first handle to have, and its second one.
FirstTypes ==
  [get_notification |-> {"MAILBOX"}, create_caller |-> {"MAILBOX"},
   create_callee |-> {"MAILBOX"}, rpc_call |-> {"CALLER"}, rpc_accept |-> {"CALLEE"},
   rpc_return |-> {"CALLEE"}, rpc_recv_reply |-> {"CALLER"},
   join_group |-> {"GROUP_COOKIE"}, leave_group |-> {"GROUP_COOKIE"},
   add_entry_to_group |-> {"ENTRY_COOKIE"}, remove_entry_from_group |-> {"ENTRY_COOKIE"},
   unpin_from_group |-> {"GROUP_COOKIE"}, pin_to_group |-> {"GROUP_COOKIE"},
   move_across_universes |-> {"UNIVERSE"}, borrow_across_universes |-> {"UNIVERSE"},
   move_in |-> {"UNIVERSE"}, move_out |-> {"UNIVERSE"}, borrow_in |-> {"UNIVERSE"},
   borrow_out |-> {"UNIVERSE"}, fork_universe |-> {"UNIVERSE"}, drop_in |-> {"UNIVERSE"},
   borrow_shm_rw |-> {"SHM_OWNER"}, borrow_shm_ro |-> {"SHM_OWNER"},
   read_from_shm_ref |-> {"SHM_RO_REF", "SHM_RW_REF"}, write_to_shm_ref |-> {"SHM_RW_REF"},
   unrestrict_shm |-> {"SHM_OWNER"}, restrict_shm |-> {"SHM_OWNER"},
   restrict_shm_to_group |-> {"SHM_OWNER"}]
SecondTypes ==
  [rpc_call |-> {"TOKEN"}, add_entry_to_group |-> {"GROUP_COOKIE"},
   remove_entry_from_group |-> {"GROUP_COOKIE"}, restrict_shm_to_group |-> {"GROUP_COOKIE"},
   move_across_universes |-> {"UNIVERSE"}, borrow_across_universes |-> {"UNIVERSE"}]

NewThread == [sys |-> "none", at |-> "new", refs |-> <<>>, new |-> <<>>, drops |-> <<>>,
              universe |-> 0, cookie |-> 0]

Init ==
  /\ heap = <<>> /\ astray = FALSE
  /\ th = [t \in Threads |-> NewThread]
  /\ prog \in Menus

-----------------------------------------------------------------------------
\* A thread outside makes a call, of which A is the first step.  A call that
\* did nothing at all is not counted.
MayCall(t, sys) ==
  /\ th[t].at = "idle"
  /\ IF prog.setup = <<>> THEN sys \in prog.sys /\ prog.calls > 0
     ELSE Head(prog.setup) = <<t, sys>> /\ \A s \in Threads : th[s].at = "idle"
Call(t, sys, A) ==
  /\ ~astray /\ MayCall(t, sys) /\ A
  /\ prog' = IF <<heap, th>>' = <<heap, th>> THEN prog
             ELSE IF prog.setup = <<>> THEN [prog EXCEPT !.calls = @ - 1]
             ELSE [prog EXCEPT !.setup = Tail(@)]

\* A thread inside goes on with A.
At(t, at, A) == ~astray /\ th[t].at = at /\ A /\ UNCHANGED prog
Body(t, sys, A) == th[t].sys = sys /\ At(t, "body", A)
Arg(t, i) == th[t].refs[i].obj

\* Objects are created and references to them, pinned for the thread, are to
\* be stored; or there is no memory.
Make(t, objs, types) ==
  \/ Return(t, heap)
  \/ /\ Len(heap) + Len(objs) <= MaxObjects
     /\ Finish(t, heap \o objs, <<>>,
               [i \in 1..Len(types) |-> Ref(Len(heap) + i, types[i], Key(Cookie(t)))])

\* A bound: the creation of an entry fails in the programs that say so.
InitMayFail == "init_failure" \in prog.sys

\* A universe and a cookie are created; when memory runs out after the first
\* or after both of them, what there is is dropped again.
user_api_entry_init(t) ==
  LET u == Len(heap) + 1
  IN  At(t, "new",
        /\ Len(heap) + 2 <= MaxObjects /\ UNCHANGED astray
        /\ \/ /\ heap' = heap \o <<NewUniverse, NewEntryCookie>>
              /\ th' = [th EXCEPT ![t].at = "idle", ![t].universe = u, ![t].cookie = u + 1]
           \/ /\ InitMayFail
              /\ heap' = heap \o <<NewUniverse>>
              /\ th' = [th EXCEPT ![t].at = "end", ![t].sys = "init", ![t].drops = DropsOf(<<u>>)]
           \/ /\ InitMayFail
              /\ heap' = heap \o <<NewUniverse, NewEntryCookie>>
              /\ th' = [th EXCEPT ![t].at = "end", ![t].sys = "init",
                                  ![t].drops = DropsOf(<<u + 1, u>>)])

\* The references of a thread that will make no more calls are dropped.
user_api_entry_deinit(t) ==
  Call(t, "deinit",
    /\ th' = [th EXCEPT ![t].at = "end", ![t].sys = "deinit",
                        ![t].drops = DropsOf(<<th[t].universe, th[t].cookie>>)]
    /\ UNCHANGED <<heap, astray>>)

user_api_entry_move_handle_out(hp, t, h) == Release(hp, Universe(t), h)

user_api_entry_move_handle_in(hp, t, ref) == user_universe_move_in(hp, Universe(t), <<ref>>)

\* The code that sets up two programs moves a handle from one entry to the
\* other, while neither of them makes a call.
PassHandle(t, s) ==
  Call(t, "pass",
    /\ th[s].at = "idle" /\ s # t
    /\ Unlocked(Universe(t)) /\ Unlocked(Universe(s))
    /\ \E h \in DOMAIN heap[Universe(t)].cells :
         /\ heap[Universe(t)].cells[h] # Unused
         /\ \E m \in user_api_entry_move_handle_in(user_api_entry_move_handle_out(heap, t, h), s,
                       heap[Universe(t)].cells[h]) : m.ok /\ heap' = m.heap
    /\ UNCHANGED <<th, astray>>)

-----------------------------------------------------------------------------
(***************************************************************************)
(* The handles are borrowed at the start of a call, and what was borrowed  *)
(* is dropped at its end.                                                  *)
(***************************************************************************)
BorrowFirst(t) == \E sys \in DOMAIN FirstTypes, h \in Handles :
  Call(t, sys, user_universe_borrow_out(t, h, sys, FirstTypes[sys],
                 IF sys \in DOMAIN SecondTypes THEN "second" ELSE "body"))

BorrowSecond(t) == \E h \in Handles :
  At(t, "second", user_universe_borrow_out(t, h, th[t].sys, SecondTypes[th[t].sys], "body"))

Drop(t) ==
  /\ th[t].drops # <<>>
  /\ LET d == Head(th[t].drops)
     IN  At(t, "end", \/ d.do = "drop" /\ mem_rc_drop(t, d.obj)
                      \/ d.do = "shutdown" /\ user_shm_shutdown(t, d.obj))

StoreNew(t) ==
  At(t, "end", /\ th[t].drops = <<>> /\ th[t].new # <<>>
               /\ user_universe_move_in_new(t, Universe(t)))

-----------------------------------------------------------------------------
(***************************************************************************)
(* Mailboxes and remote procedure calls, as far as handles are concerned.  *)
(***************************************************************************)
user_sys_create_mailbox(t) ==
  Call(t, "create_mailbox", Make(t, <<Opaque("MAILBOX")>>, <<"MAILBOX">>))

user_sys_create_caller(t) ==
  Body(t, "create_caller", Make(t, <<Opaque("CALLER")>>, <<"CALLER">>))

user_sys_create_callee(t) ==
  Body(t, "create_callee", Make(t, <<Opaque("CALLEE"), Opaque("TOKEN")>>, <<"CALLEE", "TOKEN">>))

\* The calls that hold their references while they work in other modules
\* (Notifications, Rpc).
user_sys_get_notification(t) == Body(t, "get_notification", Return(t, heap))
user_sys_rpc_call(t) == Body(t, "rpc_call", Return(t, heap))
user_sys_rpc_accept(t) == Body(t, "rpc_accept", Return(t, heap))
user_sys_rpc_return(t) == Body(t, "rpc_return", Return(t, heap))
user_sys_rpc_recv_reply(t) == Body(t, "rpc_recv_reply", Return(t, heap))

(***************************************************************************)
(* Cookies                                                                 *)
(***************************************************************************)
user_sys_create_group_cookie(t) ==
  Call(t, "create_group_cookie", \E g \in NewGroupCookies : Make(t, <<g>>, <<"GROUP_COOKIE">>))

user_sys_create_entry_cookie(t) ==
  Call(t, "create_entry_cookie", Make(t, <<NewEntryCookie>>, <<"ENTRY_COOKIE">>))

user_sys_join_group(t) ==
  Body(t, "join_group",
    \E hp \in user_entry_cookie_add_to_grp(Cookie(t), Key(Arg(t, 1))) : Return(t, hp))

user_sys_leave_group(t) ==
  Body(t, "leave_group",
    \E hp \in user_entry_cookie_remove_from_grp(Cookie(t), Key(Arg(t, 1))) : Return(t, hp))

user_sys_add_entry_to_group(t) ==
  Body(t, "add_entry_to_group",
    \E hp \in user_entry_cookie_add_to_grp(Arg(t, 1), Key(Arg(t, 2))) : Return(t, hp))

user_sys_remove_entry_from_group(t) ==
  Body(t, "remove_entry_from_group",
    \E hp \in user_entry_cookie_remove_from_grp(Arg(t, 1), Key(Arg(t, 2))) : Return(t, hp))

user_sys_unpin(t) == Call(t, "unpin", \E h \in Handles : user_universe_unpin(t, h))

user_sys_pin(t) == Call(t, "pin", \E h \in Handles : user_universe_pin(t, h))

user_sys_unpin_from_group(t) ==
  Body(t, "unpin_from_group", \E h \in Handles : user_universe_unpin_from_group(t, h, Arg(t, 1)))

user_sys_pin_to_group(t) ==
  Body(t, "pin_to_group", \E h \in Handles : user_universe_pin_to_group(t, h, Arg(t, 1)))

(***************************************************************************)
(* Universes                                                               *)
(***************************************************************************)
user_sys_create_universe(t) ==
  Call(t, "create_universe", Make(t, <<NewUniverse>>, <<"UNIVERSE">>))

\* The universes that a call moves or copies a handle from and to.
Pair(t) ==
  CASE th[t].sys \in {"move_in", "borrow_in"} -> [src |-> Universe(t), dst |-> Arg(t, 1)]
    [] th[t].sys \in {"move_out", "borrow_out"} -> [src |-> Arg(t, 1), dst |-> Universe(t)]
    [] OTHER -> [src |-> Arg(t, 1), dst |-> Arg(t, 2)]

LockPair(t) ==
  /\ th[t].sys \in {"move_in", "borrow_in", "move_out", "borrow_out", "move_across_universes",
                    "borrow_across_universes"}
  /\ At(t, "body", user_universe_lock_pair(t, Pair(t)))

MoveAcross(t, sys) ==
  /\ th[t].sys = sys
  /\ At(t, "pair", \E h \in Handles : user_universe_move_across(t, Pair(t), h))
BorrowAcross(t, sys) ==
  /\ th[t].sys = sys
  /\ At(t, "pair", \E h \in Handles : user_universe_borrow_across(t, Pair(t), h))

user_sys_move_across_universes(t) == MoveAcross(t, "move_across_universes")
user_sys_borrow_across_universes(t) == BorrowAcross(t, "borrow_across_universes")
user_sys_move_in(t) == MoveAcross(t, "move_in")
user_sys_move_out(t) == MoveAcross(t, "move_out")
user_sys_borrow_in(t) == BorrowAcross(t, "borrow_in")
user_sys_borrow_out(t) == BorrowAcross(t, "borrow_out")

\* The universe that is forked is the thread's own, whatever the handle says.
user_sys_fork_universe(t) ==
  Body(t, "fork_universe", user_universe_fork(t, Universe(t)))

user_sys_drop_in(t) ==
  Body(t, "drop_in", \E h \in Handles : user_universe_drop_cell(t, Arg(t, 1), h))

user_sys_drop(t) ==
  Call(t, "drop", \E h \in Handles : user_universe_drop_cell(t, Universe(t), h))

(***************************************************************************)
(* Shared memory                                                           *)
(***************************************************************************)
user_sys_create_shm_owned(t) ==
  Call(t, "create_shm_owned", Make(t, NewShm(Cookie(t)), <<"SHM_OWNER">>))

\* user_shm_create_ref
ShmRef(t, type) ==
  Finish(t, mem_rc_borrow(heap, Arg(t, 1) + 1), <<>>,
         <<Ref(Arg(t, 1) + 1, type, Key(Cookie(t)))>>)

user_sys_borrow_shm_rw(t) == Body(t, "borrow_shm_rw", ShmRef(t, "SHM_RW_REF"))

user_sys_borrow_shm_ro(t) == Body(t, "borrow_shm_ro", ShmRef(t, "SHM_RO_REF"))

user_sys_read_from_shm_ref(t) == Body(t, "read_from_shm_ref", user_shm_access_by_ref(t))

user_sys_write_to_shm_ref(t) == Body(t, "write_to_shm_ref", user_shm_access_by_ref(t))

ById(t, sys, rw) ==
  \/ Call(t, sys, \E o \in DOMAIN heap : user_shm_find_by_id(t, o, sys))
  \/ th[t].sys = sys /\ At(t, "auth", user_shm_by_id(t, Arg(t, 1) - 1, rw))
  \/ th[t].sys = sys /\ At(t, "access", user_shm_access_by_ref(t))

user_sys_read_from_shm_id(t) == ById(t, "read_from_shm_id", FALSE)

user_sys_write_to_shm_id(t) == ById(t, "write_to_shm_id", TRUE)

user_sys_unrestrict_shm(t) ==
  Body(t, "unrestrict_shm", \E rw \in BOOLEAN : user_shm_drop_ownership(t, Arg(t, 1), rw))

user_sys_restrict_shm(t) ==
  Body(t, "restrict_shm", \E rw \in BOOLEAN : user_shm_acquire_ownership(t, Arg(t, 1), rw))

user_sys_restrict_shm_to_group(t) ==
  Body(t, "restrict_shm_to_group",
    \E rw \in BOOLEAN : user_shm_give_ownership_to_grp(t, Arg(t, 1), Arg(t, 2), rw))

-----------------------------------------------------------------------------
Next == \E t \in Threads :
  \/ user_api_entry_init(t) \/ user_api_entry_deinit(t)
  \/ BorrowFirst(t) \/ BorrowSecond(t) \/ Drop(t) \/ StoreNew(t)
  \/ user_sys_create_mailbox(t) \/ user_sys_create_caller(t) \/ user_sys_create_callee(t)
  \/ user_sys_get_notification(t) \/ user_sys_rpc_call(t) \/ user_sys_rpc_accept(t)
  \/ user_sys_rpc_return(t) \/ user_sys_rpc_recv_reply(t)
  \/ user_sys_create_group_cookie(t) \/ user_sys_create_entry_cookie(t)
  \/ user_sys_join_group(t) \/ user_sys_leave_group(t)
  \/ user_sys_add_entry_to_group(t) \/ user_sys_remove_entry_from_group(t)
  \/ user_sys_unpin(t) \/ user_sys_pin(t)
  \/ user_sys_unpin_from_group(t) \/ user_sys_pin_to_group(t)
  \/ user_sys_create_universe(t) \/ LockPair(t)
  \/ user_sys_move_across_universes(t) \/ user_sys_borrow_across_universes(t)
  \/ user_sys_move_in(t) \/ user_sys_move_out(t)
  \/ user_sys_borrow_in(t) \/ user_sys_borrow_out(t)
  \/ user_sys_fork_universe(t) \/ user_sys_drop_in(t) \/ user_sys_drop(t)
  \/ user_sys_create_shm_owned(t) \/ user_sys_borrow_shm_rw(t) \/ user_sys_borrow_shm_ro(t)
  \/ user_sys_read_from_shm_ref(t) \/ user_sys_write_to_shm_ref(t)
  \/ user_sys_read_from_shm_id(t) \/ user_sys_write_to_shm_id(t)
  \/ user_sys_unrestrict_shm(t) \/ user_sys_restrict_shm(t) \/ user_sys_restrict_shm_to_group(t)
  \/ \E s \in Threads : PassHandle(t, s)

Spec == Init /\ [][Next]_vars

-----------------------------------------------------------------------------
(***************************************************************************)
(* Properties                                                              *)
(***************************************************************************)
Objects == DOMAIN heap
OfKind(k) == {o \in Objects : heap[o].kind = k}

TypeOK ==
  /\ astray \in BOOLEAN
  /\ \A o \in Objects : heap[o].kind \in Kinds \cup {"freed"} /\ heap[o].rc \in Nat
  /\ \A u \in OfKind("UNIVERSE") :
       /\ heap[u].lock \in Threads \cup {Nobody}
       /\ \A h \in DOMAIN heap[u].cells : heap[u].cells[h].obj \in Objects \cup {0}
  /\ \A t \in Threads : th[t].universe \in Objects \cup {0} /\ th[t].cookie \in Objects \cup {0}

\* The references to an object that a sequence of references holds.
Holds(refs, o) == Cardinality({i \in DOMAIN refs : refs[i].obj = o})

HasEntry(t) == th[t].at \notin {"new", "gone"} /\ th[t].sys \notin {"init", "deinit"}

\* The references to an object: in cells, borrowed by a thread, made and not
\* stored, taken and not dropped, of a thread's entry, and of a shared memory
\* object whose id is in the table.
References(o) ==
  LET cells == MapThenSumSet(LAMBDA u : Holds(heap[u].cells, o), OfKind("UNIVERSE"))
      threads == MapThenSumSet(LAMBDA t :
        Holds(th[t].refs, o) + Holds(th[t].new, o)
          + Cardinality({i \in DOMAIN th[t].drops : th[t].drops[i] = DropOf(o)})
          + (IF HasEntry(t) /\ o \in {th[t].universe, th[t].cookie} THEN 1 ELSE 0),
        Threads)
      owner == IF heap[o].kind = "SHM_REF" /\ heap[o - 1].mapped THEN 1 ELSE 0
  IN  cells + threads + owner

\* Every count is exact: an object lives exactly as long as something refers
\* to it, through failed calls, full universes, moves, copies, forks and the
\* drops that follow one another, whatever other threads do in between.
\* (mem/rc.h, universe.c, shm.c; group cookies, whose count is never set, are
\* left out.)
RefsExact == ~astray => \A o \in Objects \ OfKind("GROUP_COOKIE") :
  IF heap[o].kind = "freed" \/ heap[o].rc = 0 THEN References(o) = 0
  ELSE References(o) = heap[o].rc

\* The free list has every cell that is not in use once, and no other: no
\* cell is lost and none is given out twice (the assertion at universe.c:90).
FreeListExact == \A u \in OfKind("UNIVERSE") :
  LET free == heap[u].free cells == heap[u].cells
  IN  /\ \A i, j \in DOMAIN free : i # j => free[i] # free[j]
      /\ Range(free) = {h \in DOMAIN cells : cells[h] = Unused}

\* The handle tables are sound, with all that lies in them of its kind.
TablesExact == TypeOK /\ FreeListExact

\* No two threads wait for each other's universe locks (universe.c:227).
NoCircularWait == \A t, s \in Threads :
  t # s /\ th[t].at = "pair" /\ th[s].at = "pair"
    => ~(heap[SecondLock(t, Pair(t))].lock = s /\ heap[SecondLock(s, Pair(s))].lock = t)

CellOf(hp, u, h) ==
  IF u \in DOMAIN hp /\ hp[u].kind = "UNIVERSE" /\ h \in DOMAIN hp[u].cells
  THEN hp[u].cells[h] ELSE Unused

\* A thread that takes a reference out of a cell or puts one into a cell has
\* a cookie that opens its pin, at the moment it does so: neither a system
\* call that copies, moves or drops nor a fork gets round a pin.
PinsRespected == [][\A t \in Threads, u \in DOMAIN heap', h \in Handles :
  LET old == CellOf(heap, u, h) new == CellOf(heap', u, h)
  IN  heap'[u].kind = "UNIVERSE" /\ th'[t] # th[t] /\ old.obj # new.obj
        => /\ old = Unused \/ user_entry_cookie_auth(Cookie(t), old.pin)
           /\ new = Unused \/ user_entry_cookie_auth(Cookie(t), new.pin)]_vars

\* There is no cycle of universes with handles to one another, which is what
\* the test "Check for cyclical deps" is there for (universe.c:83): a universe
\* on a cycle always has a reference and is never destroyed.  (There is a
\* cycle when each universe of some set has a handle to one of the set.)
NoCyclicalDeps == \A us \in SUBSET OfKind("UNIVERSE") \ {{}} :
  \E u \in us : \A h \in DOMAIN heap[u].cells : heap[u].cells[h].obj \notin us

\* After a thread has left a group its cookie does not open what is pinned to
\* the group, however often it had joined.
LeaveRevokes == [][\A t \in Threads :
  Body(t, "leave_group", th'[t].at # "body")
    => Key(Arg(t, 1)) \notin Range(heap'[Cookie(t)].keys)]_vars

\* No transfer goes past the end of the shared memory, for any offset and
\* length a word can hold (shm.c:123-129).
ShmInBounds == \A o \in OfKind("SHM_REF") : ~heap[o].outside
=============================================================================
