----------------------------- MODULE RegionRefs -----------------------------
(***************************************************************************)
(* The classic stack of libo2cb on one node: heartbeat regions in configfs *)
(* and the System V semaphore set that counts who uses a region.           *)
(*                                                                         *)
(* Semaphore 0 of a set is a mutex, semaphore 1 the number of references.  *)
(* A reference of a mount outlives its process; that of a tool is undone   *)
(* by the kernel when the tool exits (SEM_UNDO), as the mutex always is.   *)
(* The last one to leave removes the region, and then the set.  One action *)
(* is one system call.                                                     *)
(***************************************************************************)
EXTENDS Integers

CONSTANTS
  Procs,        \* processes that may run at a time
  Regions,
  Keys, key,    \* o2cb_crc32(): the key of each region's set
  MaxSets,      \* the kernel's semaphore sets; an id somebody knows is not reused
  MaxMounts,    \* bound: how often a filesystem is mounted at a time
  MaxStarts,    \* bound: programs that are started
  MaxDeaths,    \* bound: processes that are killed
  Einval        \* may semop() of an id removed since semget() say EINVAL

ASSUME RegionAssumption ==
  /\ Regions # {} /\ key \in [Regions -> Keys]
  /\ MaxSets \in Nat /\ MaxMounts \in Nat /\ MaxStarts \in Nat /\ MaxDeaths \in Nat
  /\ Einval \in BOOLEAN

Ids == 1..MaxSets
NoSem == 0

VARIABLES
  set,       \* the semaphore sets: keys {k}, or {} when there is no such set
  undo,      \* what the kernel gives back when a process exits
  proc,      \* the processes
  region,    \* configfs: "none", "made" by mkdir(), "live" once it has a device,
             \* "left" without one when its maker was killed
  kmounts,   \* how often the kernel has each filesystem mounted
  starts, deaths

vars == <<set, undo, proc, region, kmounts, starts, deaths>>

NoSet == [keys |-> {}, mutex |-> 0, refs |-> 0]
NoUndo == [mutex |-> 0, refs |-> 0]
Off == [pc |-> "off", kind |-> "tool", r |-> CHOOSE r \in Regions : TRUE,
        call |-> "begin", sem |-> NoSem, hb_refs |-> 0, failed |-> FALSE]

Begin == {"mkdir", "attrs", "get_ref"}
Leave == {"getval", "drop", "rmdir", "rmid"}

-----------------------------------------------------------------------------
exists(i) == set[i].keys # {}
at(p, pc) == proc[p].pc = pc
goto(p, pc) == proc' = [proc EXCEPT ![p].pc = pc]
fail(p, pc) == proc' = [proc EXCEPT ![p].pc = pc, ![p].failed = TRUE]

(* A call into libo2cb starts by looking up the set. *)
call(p, c) == proc' = [proc EXCEPT ![p].pc = "lookup", ![p].call = c]

started(kind, r) ==
  [Off EXCEPT !.pc = "lookup", !.kind = kind, !.r = r,
     !.call = CASE kind \in {"mount", "tool"} -> "begin"
                [] kind = "umount" -> "leave"
                [] kind = "info" -> "info"]

(* mount.ocfs2 and ocfs2_hb_ctl keep their reference, a tool of libocfs2   *)
(* does not.  (Mutant: nobody does.)                                       *)
undone_always(p) == TRUE

undone(p) == proc[p].kind = "tool"
-----------------------------------------------------------------------------
(* The semaphore set. *)

(* o2cb_get_semid(): semget() finds the key's set, or makes one, or fails. *)
free_ids == {i \in Ids : ~exists(i) /\ \A p \in Procs : proc[p].sem # i}

o2cb_get_semid(p) ==
  LET k == key[proc[p].r]
      found == {i \in Ids : k \in set[i].keys}
      got(i) == proc' = [proc EXCEPT ![p].sem = i,
                           ![p].pc = IF proc[p].call = "info" THEN "info" ELSE "down"]
  IN /\ at(p, "lookup")
     /\ \/ found # {} /\ got(CHOOSE i \in found : TRUE) /\ UNCHANGED set
        \/ /\ found = {} /\ free_ids # {}
           /\ LET i == CHOOSE i \in free_ids : TRUE IN
              got(i) /\ set' = [set EXCEPT ![i] = [NoSet EXCEPT !.keys = {k}]]
        \/ found = {} /\ fail(p, "exit") /\ UNCHANGED set
     /\ UNCHANGED <<undo, region, kmounts, starts, deaths>>

first_step(p) == IF proc[p].call = "begin" THEN "mkdir" ELSE "getval"

(* The mutex is free: semaphore 0 is zero.  (Mutant: it is not waited for.) *)
mutex_free_always(i) == exists(i)

mutex_free(i) == exists(i) /\ set[i].mutex = 0

take(p, i) ==
  /\ set' = [set EXCEPT ![i].mutex = 1]
  /\ undo' = [undo EXCEPT ![p][i].mutex = 1]
  /\ goto(p, first_step(p))

(* o2cb_mutex_down(), called by o2cb_mutex_down_lookup(): semop() takes the *)
(* mutex, or sleeps; EIDRM makes it look up the set again, and any other    *)
(* error ends the call.                                                     *)
o2cb_mutex_down(p) ==
  LET i == proc[p].sem IN
  /\ at(p, "down")
  /\ \/ mutex_free(i) /\ take(p, i)
     \/ exists(i) /\ ~mutex_free(i) /\ goto(p, "wait") /\ UNCHANGED <<set, undo>>
     \/ ~exists(i) /\ goto(p, "lookup") /\ UNCHANGED <<set, undo>>
     \/ Einval /\ ~exists(i) /\ fail(p, "exit") /\ UNCHANGED <<set, undo>>
  /\ UNCHANGED <<region, kmounts, starts, deaths>>

(* The sleeper is woken by whoever gives the mutex back, or by EIDRM. *)
woken(p) ==
  LET i == proc[p].sem IN
  /\ at(p, "wait")
  /\ \/ mutex_free(i) /\ take(p, i)
     \/ ~exists(i) /\ goto(p, "lookup") /\ UNCHANGED <<set, undo>>
  /\ UNCHANGED <<region, kmounts, starts, deaths>>

(* o2cb_mutex_up(), and the return from the call. *)
after_up(p) ==
  IF proc[p].failed \/ proc[p].call = "leave" THEN "exit"
  ELSE IF proc[p].kind = "mount" THEN "syscall" ELSE "using"

o2cb_mutex_up(p) ==
  LET i == proc[p].sem IN
  /\ at(p, "up")
  /\ set' = [set EXCEPT ![i].mutex = 0]
  /\ undo' = [undo EXCEPT ![p][i].mutex = 0]
  /\ proc' = [proc EXCEPT ![p].pc = after_up(p), ![p].sem = NoSem]
  /\ UNCHANGED <<region, kmounts, starts, deaths>>

-----------------------------------------------------------------------------
(* classic_begin_group_join(), under the mutex. *)

(* o2cb_create_heartbeat_region() up to its mkdir(): a region that exists   *)
(* is taken as it is.                                                      *)
o2cb_create_heartbeat_region(p) ==
  LET r == proc[p].r IN
  /\ at(p, "mkdir")
  /\ \/ region[r] = "none" /\ region' = [region EXCEPT ![r] = "made"] /\ goto(p, "attrs")
     \/ region[r] # "none" /\ goto(p, "get_ref") /\ UNCHANGED region
     \/ region[r] = "none" /\ fail(p, "up") /\ UNCHANGED region
  /\ UNCHANGED <<set, undo, kmounts, starts, deaths>>

(* and its attributes, the device last; out_rmdir if one is refused.       *)
o2cb_set_region_attribute(p) ==
  LET r == proc[p].r IN
  /\ at(p, "attrs")
  /\ \/ region' = [region EXCEPT ![r] = "live"] /\ goto(p, "get_ref")
     \/ region' = [region EXCEPT ![r] = "none"] /\ fail(p, "up")
  /\ UNCHANGED <<set, undo, kmounts, starts, deaths>>

o2cb_get_ref(p) ==
  LET i == proc[p].sem IN
  /\ at(p, "get_ref")
  /\ set' = [set EXCEPT ![i].refs = @ + 1]
  /\ undo' = IF undone(p) THEN [undo EXCEPT ![p][i].refs = 1] ELSE undo
  /\ goto(p, "up")
  /\ UNCHANGED <<region, kmounts, starts, deaths>>
-----------------------------------------------------------------------------
(* classic_group_leave(), under the mutex. *)

(* "A previous process may have died and left us with no references on the *)
(* region."                                                                *)
o2cb_get_num_refs(p) ==
  LET n == set[proc[p].sem].refs IN
  /\ at(p, "getval")
  /\ proc' = [proc EXCEPT ![p].hb_refs = n, ![p].pc = IF n = 0 THEN "rmdir" ELSE "drop"]
  /\ UNCHANGED <<set, undo, region, kmounts, starts, deaths>>

(* The region goes with the last reference.  (Mutant: one too early.)     *)
last_early(hb_refs) == hb_refs <= 1

last(hb_refs) == hb_refs = 0

(* __o2cb_drop_ref(): semop() sleeps while the count is zero.              *)
o2cb_drop_ref(p) ==
  LET i == proc[p].sem
      n == proc[p].hb_refs - 1
  IN /\ at(p, "drop") /\ set[i].refs > 0
     /\ set' = [set EXCEPT ![i].refs = @ - 1]
     /\ undo' = IF undone(p) THEN [undo EXCEPT ![p][i].refs = 0] ELSE undo
     /\ proc' = [proc EXCEPT ![p].hb_refs = n,
                   ![p].pc = IF last(n) THEN "rmdir" ELSE "up"]
     /\ UNCHANGED <<region, kmounts, starts, deaths>>

o2cb_remove_heartbeat_region(p) ==
  LET r == proc[p].r IN
  /\ at(p, "rmdir")
  /\ IF region[r] = "none" THEN fail(p, "up") /\ UNCHANGED region
     ELSE goto(p, "rmid") /\ region' = [region EXCEPT ![r] = "none"]
  /\ UNCHANGED <<set, undo, kmounts, starts, deaths>>

(* o2cb_destroy_sem_set(): the mutex goes with the set. *)
o2cb_destroy_sem_set(p) ==
  LET i == proc[p].sem IN
  /\ at(p, "rmid")
  /\ set' = [set EXCEPT ![i] = NoSet]
  /\ undo' = [q \in Procs |-> [undo[q] EXCEPT ![i] = NoUndo]]
  /\ proc' = [proc EXCEPT ![p].pc = "exit", ![p].sem = NoSem]
  /\ UNCHANGED <<region, kmounts, starts, deaths>>
-----------------------------------------------------------------------------
(* The programs. *)

Start(p) ==
  /\ at(p, "off")
  /\ starts < MaxStarts /\ starts' = starts + 1
  /\ \E kind \in {"mount", "tool", "info"}, r \in Regions :
       proc' = [proc EXCEPT ![p] = started(kind, r)]
  /\ UNCHANGED <<set, undo, region, kmounts, deaths>>

(* main() of mount.ocfs2 after the join: mount(2), and                     *)
(* classic_complete_group_join() if it fails.  mount(2) waits for a        *)
(* dismount of the filesystem that is under way.                           *)
Syscall(p) ==
  LET r == proc[p].r IN
  /\ at(p, "syscall")
  /\ \/ /\ \A q \in Procs : ~at(q, "off") /\ proc[q].kind = "umount" => proc[q].r # r
        /\ kmounts[r] < MaxMounts
        /\ kmounts' = [kmounts EXCEPT ![r] = @ + 1]
        /\ goto(p, "exit")
     \/ call(p, "leave") /\ UNCHANGED kmounts
  /\ UNCHANGED <<set, undo, region, starts, deaths>>

(* ocfs2_shutdown_dlm(), or o2dlm_initialize() that failed. *)
Used(p) ==
  /\ at(p, "using")
  /\ call(p, "leave")
  /\ UNCHANGED <<set, undo, region, kmounts, starts, deaths>>

(* o2cb_num_region_refs() of ocfs2_hb_ctl -I. *)
Info(p) ==
  /\ at(p, "info")
  /\ proc' = [proc EXCEPT ![p].pc = "exit", ![p].sem = NoSem]
  /\ UNCHANGED <<set, undo, region, kmounts, starts, deaths>>

(* umount(2): the last one runs ocfs2_hb_ctl -K and waits for it. *)
Umount(r) ==
  /\ kmounts[r] > 0
  /\ kmounts' = [kmounts EXCEPT ![r] = @ - 1]
  /\ IF kmounts[r] > 1 THEN UNCHANGED proc
     ELSE \E p \in Procs : at(p, "off") /\ proc' = [proc EXCEPT ![p] = started("umount", r)]
  /\ UNCHANGED <<set, undo, region, starts, deaths>>

(* The process is gone, and the kernel undoes what it has to.  (Mutant: the *)
(* mutex is not undone.)                                                   *)
given_back_refs(p, i) ==
  [set[i] EXCEPT !.refs = @ - undo[p][i].refs]

given_back(p, i) ==
  [set[i] EXCEPT !.mutex = @ - undo[p][i].mutex, !.refs = @ - undo[p][i].refs]

(* A region that was being made stays as it is. *)
left(p) ==
  IF at(p, "attrs") THEN [region EXCEPT ![proc[p].r] = "left"] ELSE region

gone(p) ==
  /\ region' = left(p)
  /\ set' = [i \in Ids |-> given_back(p, i)]
  /\ undo' = [undo EXCEPT ![p] = [i \in Ids |-> NoUndo]]
  /\ proc' = [proc EXCEPT ![p] = Off]
  /\ UNCHANGED <<kmounts, starts>>

Exit(p) == at(p, "exit") /\ gone(p) /\ UNCHANGED deaths

Die(p) ==
  /\ deaths < MaxDeaths /\ ~at(p, "off")
  /\ gone(p)
  /\ deaths' = deaths + 1
-----------------------------------------------------------------------------
Init ==
  /\ set = [i \in Ids |-> NoSet]
  /\ undo = [p \in Procs |-> [i \in Ids |-> NoUndo]]
  /\ proc = [p \in Procs |-> Off]
  /\ region = [r \in Regions |-> "none"]
  /\ kmounts = [r \in Regions |-> 0]
  /\ starts = 0 /\ deaths = 0

Step(p) ==
  \/ o2cb_get_semid(p) \/ o2cb_mutex_down(p) \/ o2cb_mutex_up(p)
  \/ o2cb_create_heartbeat_region(p) \/ o2cb_set_region_attribute(p)
  \/ o2cb_get_ref(p)
  \/ o2cb_get_num_refs(p) \/ o2cb_drop_ref(p)
  \/ o2cb_remove_heartbeat_region(p) \/ o2cb_destroy_sem_set(p)
  \/ Syscall(p) \/ Used(p) \/ Info(p) \/ Exit(p)

Next ==
  \/ \E p \in Procs : Start(p) \/ Step(p) \/ woken(p) \/ Die(p)
  \/ \E r \in Regions : Umount(r)

Spec == Init /\ [][Next]_vars

(* A process goes on; sleepers on a semaphore are woken in turn.           *)
Fairness == \A p \in Procs : WF_vars(Step(p)) /\ SF_vars(woken(p))

FairSpec == Spec /\ Fairness
-----------------------------------------------------------------------------
Inside(p) == proc[p].pc \in Begin \cup Leave \cup {"up"}

(* Somebody relies on the heartbeat of r: the kernel has it mounted, or a  *)
(* program has joined and not yet started to leave.                        *)
Held(r) ==
  \/ kmounts[r] > 0
  \/ \E p \in Procs : proc[p].r = r /\ proc[p].pc \in {"syscall", "using"}

(* Whoever relies on the heartbeat of a region has it: no leave and no     *)
(* death of another process takes it away, even if two regions have the    *)
(* same semaphore key.  Only a process that was killed between mkdir() and *)
(* the device's attribute leaves a region that later joins take for live   *)
(* (classic_begin_group_join() goes on after O2CB_ET_REGION_EXISTS).       *)
HeldIsLive == \A r \in Regions : Held(r) => region[r] \in {"live", "left"}

(* The mutex excludes, although its set is removed and made anew: no two   *)
(* processes are between o2cb_mutex_down_lookup() and the mutex' end for   *)
(* one key.                                                                *)
OneInside ==
  \A p, q \in Procs :
    Inside(p) /\ Inside(q) /\ key[proc[p].r] = key[proc[q].r] => p = q

(* Every process ends, whoever is killed while it has the mutex, unless    *)
(* others are started for ever.                                            *)
ProcessEnds == \A p \in Procs : ~at(p, "off") ~> at(p, "off")
=============================================================================
