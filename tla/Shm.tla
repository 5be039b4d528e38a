--------------------------------- MODULE Shm ---------------------------------
(***************************************************************************)
(* Shared memory (user/shm.c): an owner object, which says who may use the *)
(* memory, and inside it the reference object that keeps the memory alive. *)
(* The two have a count each.  While the owner is alive the memory can be  *)
(* found by its id in a table, whose buckets have a spinlock each.         *)
(*                                                                         *)
(* The owner is the object o and its reference the object o + 1; o is also *)
(* the id.  A bucket lock, and the lock of an object, are held for one     *)
(* step, unless the thread has to wait for its cookie with the lock held.  *)
(***************************************************************************)
EXTENDS Universes

CONSTANTS ShmSize,  \* size of the shared memory
          WordMax   \* the largest size_t

ASSUME ShmAssumption == ShmSize \in Nat /\ WordMax \in Nat /\ ShmSize <= WordMax

Words == 0..WordMax

\* user_shm_create: both keys are the creator's.
NewShm(cookie) ==
  <<[kind |-> "SHM_OWNER", rc |-> 1, ro_key |-> Key(cookie), rw_key |-> Key(cookie),
     mapped |-> TRUE, lock |-> Nobody],
    [kind |-> "SHM_REF", rc |-> 1, outside |-> FALSE]>>

\* The owner is dropped: the id leaves the table, then the reference is dropped.
user_shm_shutdown(t, o) ==
  /\ heap' = [heap EXCEPT ![o].mapped = FALSE] /\ UNCHANGED astray
  /\ th' = [th EXCEPT ![t].drops = <<DropOf(o + 1)>> \o Tail(@)]

\* Faulty variant: the sum may wrap.
BoundsWrap(offset, len) == (offset + len) % (WordMax + 1) <= ShmSize

\* __builtin_add_overflow refuses a sum that does not fit a word.
user_shm_check_bounds(offset, len) ==
  /\ offset + len <= WordMax
  /\ (offset + len) % (WordMax + 1) <= ShmSize

\* user_shm_read_by_ref and user_shm_write_by_ref.  A transfer uses the memory
\* when its bounds are accepted: memory that is still there, or the kernel
\* goes astray.  Whether it went past the end is recorded.
user_shm_access_by_ref(t) ==
  LET ref == th[t].refs[1].obj
  IN  \E offset, len \in Words :
        IF ~user_shm_check_bounds(offset, len) THEN Return(t, heap)
        ELSE IF heap[ref].kind # "SHM_REF" THEN Stray
        ELSE Return(t, [heap EXCEPT ![ref].outside = @ \/ offset + len > ShmSize])

\* The keys that open the memory, in the order in which they are tried.
AuthKeys(o, rw) == IF rw THEN <<heap[o].rw_key>> ELSE <<heap[o].rw_key, heap[o].ro_key>>

\* user_shm_auth_read and user_shm_auth_write
user_shm_auth(t, o, rw) == \E i \in DOMAIN AuthKeys(o, rw) :
                             user_entry_cookie_auth(Cookie(t), AuthKeys(o, rw)[i])

AuthWaits(t, o, rw) == \E i \in DOMAIN AuthKeys(o, rw) :
  /\ AuthBlocks(Cookie(t), AuthKeys(o, rw)[i])
  /\ \A j \in 1..(i - 1) : ~user_entry_cookie_auth(Cookie(t), AuthKeys(o, rw)[j])

\* There is a shared memory object with the id in the table.
Mapped(o) == IF heap[o].kind = "SHM_OWNER" THEN heap[o].mapped ELSE FALSE

\* Faulty variant: the object found is not borrowed.
FindUncounted(t, o, sys) ==
  \/ ~Mapped(o) /\ Return(t, heap)
  \/ /\ Mapped(o) /\ UNCHANGED <<heap, astray>>
     /\ th' = [th EXCEPT ![t].sys = sys, ![t].at = "auth",
                         ![t].refs = <<Ref(o + 1, "SHM_RO_REF", OnlyKernel)>>]

\* The id is looked up and the memory borrowed under the lock of its bucket.
user_shm_find_by_id(t, o, sys) ==
  \/ ~Mapped(o) /\ Return(t, heap)
  \/ /\ Mapped(o)
     /\ heap' = mem_rc_borrow(heap, o + 1) /\ UNCHANGED astray
     /\ th' = [th EXCEPT ![t].sys = sys, ![t].at = "auth",
                         ![t].refs = <<Ref(o + 1, "SHM_RO_REF", OnlyKernel)>>]

\* user_shm_read_by_id and user_shm_write_by_id after the id was found: the
\* keys are looked at under the lock, the memory is used after it.
user_shm_by_id(t, o, rw) ==
  /\ heap[o].lock = Nobody
  /\ \/ AuthWaits(t, o, rw) /\ Stuck(t, LockedBy(heap, o, t), <<>>, <<>>)
     \/ ~AuthWaits(t, o, rw) /\ ~user_shm_auth(t, o, rw) /\ Return(t, heap)
     \/ /\ ~AuthWaits(t, o, rw) /\ user_shm_auth(t, o, rw)
        /\ th' = [th EXCEPT ![t].at = "access"] /\ UNCHANGED <<heap, astray>>

\* The flag for write rights changes the key for reading, and the other way round.
user_shm_modify_perms(t, o, key, rw) ==
  /\ heap[o].lock = Nobody
  /\ Return(t, IF rw THEN [heap EXCEPT ![o].ro_key = key] ELSE [heap EXCEPT ![o].rw_key = key])

user_shm_drop_ownership(t, o, rw) == user_shm_modify_perms(t, o, Universal, rw)

user_shm_acquire_ownership(t, o, rw) == user_shm_modify_perms(t, o, Key(Cookie(t)), rw)

user_shm_give_ownership_to_grp(t, o, group, rw) == user_shm_modify_perms(t, o, Key(group), rw)
=============================================================================
