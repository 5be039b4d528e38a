------------------------------- MODULE MCEntry -------------------------------
(***************************************************************************)
(* Six programs of two threads.  Each is set up by some calls, made one    *)
(* after the other as the kernel's own tests do, and then has its threads  *)
(* make a few calls concurrently, from the part of the interface that the  *)
(* program is about.                                                       *)
(***************************************************************************)
EXTENDS Entry

CONSTANTS t1, t2

Program(setup, sys, calls) == [setup |-> setup, sys |-> sys, calls |-> calls]

\* Handles move between a universe that two threads share and their own ones.
Sharing == Program(
  <<<<t1, "create_universe">>, <<t1, "create_universe">>, <<t1, "unpin">>, <<t1, "unpin">>,
    <<t1, "borrow_in">>, <<t1, "pass">>>>,
  {"move_in", "move_out", "borrow_out", "drop_in", "deinit"}, 3)

\* Two threads with handles to the same two universes move handles both ways.
Across == Program(
  <<<<t1, "create_universe">>, <<t1, "create_universe">>, <<t1, "unpin">>, <<t1, "unpin">>,
    <<t1, "fork_universe">>, <<t1, "pass">>, <<t2, "borrow_out">>, <<t2, "borrow_out">>>>,
  {"move_across_universes", "borrow_across_universes"}, 2)

\* A group, what is pinned to it, and threads that join and leave.
Groups == Program(
  <<<<t1, "create_group_cookie">>, <<t1, "create_universe">>, <<t1, "join_group">>,
    <<t1, "pin_to_group">>, <<t1, "borrow_in">>, <<t1, "pass">>>>,
  {"join_group", "leave_group", "unpin_from_group", "borrow_out", "fork_universe", "drop_in"}, 2)

\* Entry cookies as objects.
Members == Program(
  <<<<t1, "create_group_cookie">>, <<t1, "create_entry_cookie">>, <<t1, "add_entry_to_group">>>>,
  {"add_entry_to_group", "remove_entry_from_group", "drop", "deinit",
   "init_failure"}, 2)

\* Shared memory that is used, opened, closed and dropped.
Memory == Program(
  <<<<t1, "create_shm_owned">>, <<t1, "borrow_shm_rw">>, <<t1, "pass">>,
    <<t1, "create_group_cookie">>, <<t1, "restrict_shm_to_group">>>>,
  {"read_from_shm_ref", "write_to_shm_ref", "read_from_shm_id", "write_to_shm_id",
   "unrestrict_shm", "restrict_shm", "restrict_shm_to_group", "borrow_shm_ro", "leave_group",
   "drop", "deinit"}, 2)

\* Mailboxes, callers, callees and tokens.
Calling == Program(
  <<<<t1, "create_mailbox">>, <<t1, "create_caller">>, <<t1, "pass">>>>,
  {"create_caller", "create_callee", "get_notification", "rpc_call", "rpc_accept", "rpc_return",
   "rpc_recv_reply", "drop", "pass", "pin"}, 3)

MCMenus == {Sharing, Across, Groups, Members, Memory, Calling}
PairMenu == {Across}
=============================================================================
