--------------------------------- MODULE Paging ---------------------------------
(***************************************************************************)
(* Tasks map and unmap pages of one paging hierarchy at the same time      *)
(* (mem/virt/paging.c), with the zeroed pages that each task's mapper      *)
(* keeps ready, and tasks are created and disposed (thread/tasking/        *)
(* task.c).  A page is a table when an entry of a table above points to    *)
(* it.  The allocator may run out of pages; it gives the first it has, as  *)
(* nothing here depends on which one it is.                                *)
(***************************************************************************)
EXTENDS Integers, FiniteSetsExt, Sequences

CONSTANTS
  Mappers,      \* tasks
  Lvls,         \* levels of the hierarchy, 4 or 5 in the code
  Vaddrs,       \* virtual pages: sequences of Lvls indices, the highest level first
  Frames,       \* numbers of the physical pages there are for tables
  Paddrs,       \* numbers of pages that are mapped; the callers own them
  MaxTasks      \* bound on the creations of tasks

PNULL == 0
Slots == 1..(Lvls - 1)      \* zeroed_pages; slot i - 1 serves level i

ASSUME PagingAssumption ==
  /\ Lvls \in Nat /\ Lvls > 1
  /\ \A v \in Vaddrs : DOMAIN v = 1..Lvls
  /\ Frames \cap Paddrs = {} /\ PNULL \notin Frames \cup Paddrs

VARIABLES
  free,         \* pages the allocator still has
  cr3,          \* the root table
  table,        \* <<page, index>> -> page, where an entry is present
  zeroed_pages, \* task -> mapper: slot -> page or PNULL
  mpc,          \* task -> its call in progress
  created,      \* number of tasks created
  mapped,       \* virtual page -> page, as the calls promise (not in the code)
  lost,         \* pages nobody refers to any more (not in the code)
  astray        \* a walk has gone through a table that is not there
pagingVars == <<free, cr3, table, zeroed_pages, mpc, created, mapped, lost, astray>>

None == [op |-> "none"]
Empty == [i \in Slots |-> PNULL]

PagingInit ==
  /\ cr3 = Min(Frames) /\ free = Frames \ {cr3}
  /\ table = <<>> /\ mapped = <<>> /\ lost = {} /\ created = 0 /\ astray = FALSE
  /\ zeroed_pages = [t \in Mappers |-> Empty]
  /\ mpc = [t \in Mappers |-> [op |-> "dead"]]

Entry(page, index) == IF <<page, index>> \in DOMAIN table THEN table[page, index] ELSE PNULL
Set(f, k, v) == [x \in DOMAIN f \cup {k} |-> IF x = k THEN v ELSE f[x]]
Clear(f, k) == [x \in DOMAIN f \ {k} |-> f[x]]

-----------------------------------------------------------------------------
(***************************************************************************)
(* thread_task_create_call: the mapper is filled, all or nothing, and then *)
(* memset clears the task with the mapper in it.  A creation that fails    *)
(* gives back what it took.                                                *)
(***************************************************************************)
thread_task_create_call(t) ==
  LET pages == {p \in free : Cardinality({q \in free : q < p}) < Lvls - 1}
  IN  /\ mpc[t].op = "dead" /\ created < MaxTasks
      /\ Cardinality(free) >= Lvls - 1
      /\ free' = free \ pages /\ lost' = lost \cup pages
      /\ created' = created + 1
      /\ mpc' = [mpc EXCEPT ![t] = None]
      /\ UNCHANGED <<cr3, table, zeroed_pages, mapped, astray>>

(* mem_paging_deinit_mapper gives back what the mapper still has. *)
thread_task_dispose(t) ==
  /\ mpc[t] = None
  /\ free' = free \cup ({zeroed_pages[t][i] : i \in Slots} \ {PNULL})
  /\ zeroed_pages' = [zeroed_pages EXCEPT ![t] = Empty]
  /\ mpc' = [mpc EXCEPT ![t] = [op |-> "dead"]]
  /\ UNCHANGED <<cr3, table, created, mapped, lost, astray>>

CallMap(t) ==
  \E v \in Vaddrs, p \in Paddrs :
    /\ mpc[t] = None
    /\ mpc' = [mpc EXCEPT ![t] = [op |-> "regen", v |-> v, p |-> p]]
    /\ UNCHANGED <<free, cr3, table, zeroed_pages, created, mapped, lost, astray>>

(* mem_paging_regen_cache, one page at a time, before the lock is taken. *)
mem_paging_regen_cache(t) ==
  LET missing == {i \in Slots : zeroed_pages[t][i] = PNULL}
  IN  /\ mpc[t].op = "regen"
      /\ \/ /\ missing = {} /\ mpc' = [mpc EXCEPT ![t].op = "map"]
            /\ UNCHANGED <<free, zeroed_pages>>
         \/ /\ missing # {} /\ free # {}
            /\ zeroed_pages' = [zeroed_pages EXCEPT ![t][Min(missing)] = Min(free)]
            /\ free' = free \ {Min(free)}
            /\ UNCHANGED mpc
         \/ /\ missing # {} /\ free = {} /\ mpc' = [mpc EXCEPT ![t] = None]
            /\ UNCHANGED <<free, zeroed_pages>>
      /\ UNCHANGED <<cr3, table, created, mapped, lost, astray>>

(***************************************************************************)
(* The walk from the root down to level 1.  w.at is the table of the level *)
(* the walk has reached.  mem_paging_get_lvl_index is v[Lvls + 1 - level]. *)
(***************************************************************************)
mem_paging_get_lvl_index(v, lvl) == v[Lvls + 1 - lvl]

(* Faulty variant: the page goes into the entry whatever it holds. *)
DescendAfresh(w, v, lvl) ==
  LET index == mem_paging_get_lvl_index(v, lvl)
      page  == w.cache[lvl - 1]
  IN  [at |-> page, table |-> Set(w.table, <<w.at, index>>, page),
       cache |-> [w.cache EXCEPT ![lvl - 1] = PNULL]]

Descend(w, v, lvl) ==
  LET index == mem_paging_get_lvl_index(v, lvl)
      page  == w.cache[lvl - 1]
  IN  IF <<w.at, index>> \in DOMAIN w.table THEN [w EXCEPT !.at = w.table[w.at, index]]
      ELSE [at |-> page, table |-> Set(w.table, <<w.at, index>>, page),
            cache |-> [w.cache EXCEPT ![lvl - 1] = PNULL]]

Walk(w, v) ==
  LET step[lvl \in 2..Lvls] == Descend(IF lvl = Lvls THEN w ELSE step[lvl + 1], v, lvl)
  IN  step[2]

(* The part of mem_paging_map_at under the lock of the root. *)
mem_paging_map_at(t) ==
  LET v == mpc[t].v
      w == Walk([at |-> cr3, table |-> table, cache |-> zeroed_pages[t]], v)
  IN  /\ mpc[t].op = "map"
      /\ table' = Set(w.table, <<w.at, mem_paging_get_lvl_index(v, 1)>>, mpc[t].p)
      /\ zeroed_pages' = [zeroed_pages EXCEPT ![t] = w.cache]
      /\ mapped' = Set(mapped, v, mpc[t].p)
      /\ mpc' = [mpc EXCEPT ![t] = None]
      /\ UNCHANGED <<free, cr3, created, lost, astray>>

(* The page that the tables give for v, as the processor walks them. *)
Translate(v) ==
  LET at[lvl \in 1..(Lvls + 1)] == IF lvl = Lvls + 1 THEN cr3
                                   ELSE Entry(at[lvl + 1], mem_paging_get_lvl_index(v, lvl))
  IN  at[1]

(***************************************************************************)
(* mem_paging_unmap_at answers the entry of level 1, which Translate gives *)
(* too, and clears it.  Nothing is checked on the way down: without one of *)
(* the tables of v the walk goes on through the page with the address 0    *)
(* and clears a word of some page, and the model stops.                    *)
(***************************************************************************)
mem_paging_unmap_at(t) ==
  \E v \in Vaddrs :
    LET at[lvl \in 2..(Lvls + 1)] == IF lvl = Lvls + 1 THEN cr3
                                     ELSE Entry(at[lvl + 1], mem_paging_get_lvl_index(v, lvl))
    IN  /\ mpc[t] = None
        /\ \/ /\ at[2] # PNULL
              /\ table' = Clear(table, <<at[2], mem_paging_get_lvl_index(v, 1)>>)
              /\ mapped' = Clear(mapped, v)
              /\ UNCHANGED astray
           \/ /\ at[2] = PNULL /\ astray' = TRUE
              /\ UNCHANGED <<table, mapped>>
        /\ UNCHANGED <<free, cr3, zeroed_pages, mpc, created, lost>>

PagingNext ==
  /\ ~astray
  /\ \E t \in Mappers :
       \/ thread_task_create_call(t) \/ thread_task_dispose(t) \/ CallMap(t)
       \/ mem_paging_regen_cache(t) \/ mem_paging_map_at(t) \/ mem_paging_unmap_at(t)

PagingSpec == PagingInit /\ [][PagingNext]_pagingVars

-----------------------------------------------------------------------------
TablePages == {cr3} \cup ({table[k] : k \in DOMAIN table} \cap Frames)
Cached(t) == {zeroed_pages[t][i] : i \in Slots} \ {PNULL}

(***************************************************************************)
(* A page serves one purpose: it is free, or one slot of one mapper has    *)
(* it, or exactly one entry of one table points to it, also when two tasks *)
(* that filled their caches need the same missing table (mem_paging_map_at *)
(* takes a page from the cache only if the entry is still empty).  The     *)
(* pages that nobody has any more are those that thread_task_create_call   *)
(* forgets, one for each slot of each task it has created (task.c:28).     *)
(***************************************************************************)
PagesExact ==
  /\ Frames = free \cup lost \cup TablePages \cup UNION {Cached(t) : t \in Mappers}
  /\ free \cap (lost \cup TablePages) = {} /\ lost \cap TablePages = {}
  /\ \A t \in Mappers : /\ Cached(t) \cap (free \cup lost \cup TablePages) = {}
                        /\ \A u \in Mappers \ {t} : Cached(t) \cap Cached(u) = {}
                        /\ \A i, j \in Slots : i # j /\ zeroed_pages[t][i] = zeroed_pages[t][j]
                                                 => zeroed_pages[t][i] = PNULL
  /\ \A k, l \in DOMAIN table : k # l /\ table[k] = table[l] => table[k] \notin Frames
  /\ cr3 \notin {table[k] : k \in DOMAIN table}
  /\ Cardinality(lost) = (Lvls - 1) * created

(***************************************************************************)
(* The tables translate every address to what the last mem_paging_map_at   *)
(* or mem_paging_unmap_at for it said, and no other address changes with   *)
(* it, although both walk and change shared tables.                        *)
(***************************************************************************)
TranslationExact ==
  \A v \in Vaddrs : Translate(v) = IF v \in DOMAIN mapped THEN mapped[v] ELSE PNULL

(***************************************************************************)
(* Paging is exact: no page is used twice, none is lost but the pages that *)
(* the creation of a task forgets, and every address translates to what    *)
(* was asked for (so that mem_paging_unmap_at answers the page that was    *)
(* mapped, or 0), while two tasks map, unmap and fill their caches.        *)
(***************************************************************************)
PagingExact == PagesExact /\ TranslationExact
=============================================================================
