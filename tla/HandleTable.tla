---------------------------- MODULE HandleTable ----------------------------
(***************************************************************************)
(* The object handle manager, src/src/sys/krnl/hndl.c, with the system     *)
(* calls that use it (sys_dup, sys_dup2, sys_close and the olock ... orel  *)
(* bracket of every blocking system call).                                 *)
(*                                                                         *)
(* The kernel is not preemptive: a system call runs to its end unless it   *)
(* waits.  An action is therefore everything a call does between two       *)
(* waits.  A call waits while it holds an olock (InCall), and inside       *)
(* close_object of a file, whose close takes the file system lock and      *)
(* writes buffers (FileObjs); both may also fail.                          *)
(***************************************************************************)
EXTENDS Integers, FiniteSets

CONSTANTS
  Objects,      \* kernel objects that can be created
  FileObjs,     \* those of type OBJECT_FILE: close may wait and may fail
  ThreadObjs,   \* those of type OBJECT_THREAD
  Calls,        \* threads that issue system calls
  PerPage,      \* HANDLES_PER_PAGE
  MaxPages,     \* HTABSIZE in pages
  FileUsers,    \* the threads that use files
  CloseResults, \* what closing a file may return: "ok", "error"
  NULL

ASSUME HandleAssumption ==
  /\ FileObjs \subseteq Objects /\ ThreadObjs \subseteq Objects
  /\ FileObjs \cap ThreadObjs = {} /\ FileUsers \subseteq Calls
  /\ PerPage \in Nat \ {0} /\ MaxPages \in Nat \ {0}
  /\ CloseResults \subseteq {"ok", "error"}
  /\ NULL \notin Objects

MaxHandles == PerPage * MaxPages
Handles == 0 .. (MaxHandles - 1)

\* End of the free list.
HEND == -1

\* handle_count and lock_count are unsigned shorts.
CountMod == 65536

VARIABLES
  htab,          \* handle -> entry: an object with a protection bit, or a free link
  htabsize,      \* number of mapped entries
  hfreelist,     \* first free handle
  handle_count, lock_count,
  life,          \* "unborn", "live", "closed" (close_object ran) or "destroyed"
  destroys,      \* how often destroy_object ran on the object
  hndl,          \* the handle a thread object holds on itself (t->hndl)
  call           \* what each caller is doing inside the kernel

table == <<htab, htabsize, hfreelist>>
objs == <<handle_count, lock_count, life, destroys>>
vars == <<htab, htabsize, hfreelist, handle_count, lock_count, life, destroys, hndl, call>>

Entry == [obj : Objects \cup {NULL}, prot : BOOLEAN, next : Handles \cup {HEND}]
FreeEntry(n) == [obj |-> NULL, prot |-> FALSE, next |-> n]
UsedEntry(o) == [obj |-> o, prot |-> FALSE, next |-> HEND]

\* A caller in user mode, inside a blocking call with o locked, waiting in
\* close_object of o for hfree, or waiting there for hassign(new, h).  A
\* caller that spins in remove_from_freelist never leaves the kernel.
User == [at |-> "user", obj |-> NULL, new |-> NULL, h |-> HEND]
InCall(o) == [at |-> "call", obj |-> o, new |-> NULL, h |-> HEND]
InFree(o) == [at |-> "hfree", obj |-> o, new |-> NULL, h |-> HEND]
InAssign(o, n, h) == [at |-> "hassign", obj |-> o, new |-> n, h |-> h]
Hung == [at |-> "hung", obj |-> NULL, new |-> NULL, h |-> HEND]

CallState == {User, Hung} \cup {InCall(o) : o \in Objects} \cup {InFree(o) : o \in Objects}
             \cup {InAssign(o, n, h) : o \in Objects, n \in Objects, h \in Handles}

-----------------------------------------------------------------------------
HUSED(h) == htab[h].obj # NULL
hlookup(h) == IF h < htabsize THEN htab[h].obj ELSE NULL

\* olock refuses an object whose last handle is gone.
Lockable(h) == hlookup(h) # NULL /\ handle_count[hlookup(h)] > 0

\* A plausible slip in ExpandedTab: the old free list is not linked behind the new page.
ExpandedDrop(n) ==
  [h \in Handles |->
     IF h \notin htabsize .. (n - 1) THEN htab[h]
     ELSE IF h % PerPage # PerPage - 1 THEN FreeEntry(h + 1) ELSE FreeEntry(HEND)]

\* The table after expand_htab was called until it has n entries.  Each call
\* maps a page and puts its handles, in ascending order, before the free list.
ExpandedTab(n) ==
  [h \in Handles |->
     IF h \notin htabsize .. (n - 1) THEN htab[h]
     ELSE IF h % PerPage # PerPage - 1 THEN FreeEntry(h + 1)
     ELSE IF h - PerPage < htabsize THEN FreeEntry(hfreelist)
     ELSE FreeEntry(h - 2 * PerPage + 1)]
ExpandedFree(n) == IF n > htabsize THEN n - PerPage ELSE hfreelist
PagesFor(h) == ((h \div PerPage) + 1) * PerPage

\* halloc(o), with the protection bit hprotect sets; fails when the table is
\* full.
CanAlloc == hfreelist # HEND \/ htabsize < MaxHandles
AllocSize == IF hfreelist = HEND THEN htabsize + PerPage ELSE htabsize
AllocTab == ExpandedTab(AllocSize)
AllocHandle == ExpandedFree(AllocSize)
\* A plausible slip in halloc: the count is set, not incremented.
halloc_uncounted(o, prot) ==
  /\ htabsize' = AllocSize
  /\ htab' = [AllocTab EXCEPT ![AllocHandle] = [UsedEntry(o) EXCEPT !.prot = prot]]
  /\ hfreelist' = AllocTab[AllocHandle].next
  /\ handle_count' = [handle_count EXCEPT ![o] = 1]

halloc(o, prot) ==
  /\ htabsize' = AllocSize
  /\ htab' = [AllocTab EXCEPT ![AllocHandle] = [UsedEntry(o) EXCEPT !.prot = prot]]
  /\ hfreelist' = AllocTab[AllocHandle].next
  /\ handle_count' = [handle_count EXCEPT ![o] = (@ + 1) % CountMod]

Dec(n) == (n - 1) % CountMod

\* A plausible slip in Unlocked: locks are not looked at.
AlwaysUnlocked(o) == TRUE

\* hfree, hassign and orel destroy only what nobody has locked.
Unlocked(o) == lock_count[o] = 0
Destroyed(f, o) == [f EXCEPT ![o] = "destroyed"]
CountDestroy(o) == [destroys EXCEPT ![o] = IF @ < 2 THEN @ + 1 ELSE @]

-----------------------------------------------------------------------------
Init ==
  /\ htab = [h \in Handles |-> FreeEntry(HEND)]
  /\ htabsize = 0
  /\ hfreelist = HEND
  /\ handle_count = [o \in Objects |-> 0]
  /\ lock_count = [o \in Objects |-> 0]
  /\ life = [o \in Objects |-> "unborn"]
  /\ destroys = [o \in Objects |-> 0]
  /\ hndl = [o \in Objects |-> HEND]
  /\ call = [c \in Calls |-> User]

\* The kernel runs other callers unless one of them spins in it.
Running(c) == call[c] = User /\ \A d \in Calls : call[d] # Hung

\* The objects caller c works with.
Uses(c, o) == o \in FileObjs => c \in FileUsers

\* sys_mkevent and the like: a new object gets its first handle.
Create(c, o) ==
  /\ Running(c)
  /\ life[o] = "unborn" /\ o \notin ThreadObjs /\ Uses(c, o)
  /\ CanAlloc
  /\ halloc(o, FALSE)
  /\ life' = [life EXCEPT ![o] = "live"]
  /\ UNCHANGED <<lock_count, destroys, hndl, call>>

\* create_user_thread: the thread's own handle, protected from closing.
CreateThread(c, o) ==
  /\ Running(c)
  /\ life[o] = "unborn" /\ o \in ThreadObjs
  /\ CanAlloc
  /\ halloc(o, TRUE)
  /\ hndl' = [hndl EXCEPT ![o] = AllocHandle]
  /\ life' = [life EXCEPT ![o] = "live"]
  /\ UNCHANGED <<lock_count, destroys, call>>

\* sys_dup: olock, halloc and orel in one go.
Dup(c, h) ==
  /\ Running(c)
  /\ Lockable(h) /\ Uses(c, hlookup(h))
  /\ CanAlloc
  /\ halloc(hlookup(h), FALSE)
  /\ UNCHANGED <<lock_count, life, destroys, hndl, call>>

\* The olock with which a system call starts that then waits.
Lock(c, h) ==
  /\ Running(c)
  /\ Lockable(h) /\ Uses(c, hlookup(h))
  /\ lock_count' = [lock_count EXCEPT ![hlookup(h)] = (@ + 1) % CountMod]
  /\ call' = [call EXCEPT ![c] = InCall(hlookup(h))]
  /\ UNCHANGED <<table, handle_count, life, destroys, hndl>>

\* A plausible slip in OrelDestroys: the last lock never destroys.
OrelKeeps(o) == FALSE

\* orel(o): the last lock on an object without handles destroys it.
OrelDestroys(o) == Dec(lock_count[o]) = 0 /\ handle_count'[o] = 0
Orel(o) ==
  /\ lock_count' = [lock_count EXCEPT ![o] = Dec(@)]
  /\ IF OrelDestroys(o)
     THEN life' = Destroyed(life, o) /\ destroys' = CountDestroy(o)
     ELSE UNCHANGED <<life, destroys>>

\* The waiting system call ends with orel.
Unlock(c) ==
  /\ call[c].at = "call" /\ \A d \in Calls : call[d] # Hung
  /\ UNCHANGED <<table, handle_count, hndl>>
  /\ Orel(call[c].obj)
  /\ call' = [call EXCEPT ![c] = User]

-----------------------------------------------------------------------------
\* hfree(h) once it has been looked up and is not protected.  close_object of
\* a file waits; other objects are closed, and destroyed when not locked, at once.
hfree(c, h) ==
  LET o == htab[h].obj IN
  /\ htab' = [htab EXCEPT ![h] = FreeEntry(hfreelist)]
  /\ hfreelist' = h
  /\ handle_count' = [handle_count EXCEPT ![o] = Dec(@)]
  /\ \/ /\ Dec(handle_count[o]) > 0
        /\ UNCHANGED <<life, destroys, call>>
     \/ /\ Dec(handle_count[o]) = 0 /\ o \in FileObjs
        /\ life' = [life EXCEPT ![o] = "closed"]
        /\ call' = [call EXCEPT ![c] = InFree(o)]
        /\ UNCHANGED destroys
     \/ /\ Dec(handle_count[o]) = 0 /\ o \notin FileObjs
        /\ IF Unlocked(o)
           THEN life' = Destroyed(life, o) /\ destroys' = CountDestroy(o)
           ELSE life' = [life EXCEPT ![o] = "closed"] /\ UNCHANGED destroys
        /\ UNCHANGED call
  /\ UNCHANGED <<htabsize, lock_count, hndl>>

\* A plausible slip in Close: protection is not looked at.
CloseProtected(c, h) ==
  /\ Running(c)
  /\ hlookup(h) # NULL /\ Uses(c, hlookup(h))
  /\ hfree(c, h)

\* sys_close: hfree refuses a protected handle.
Close(c, h) ==
  /\ Running(c)
  /\ hlookup(h) # NULL /\ Uses(c, hlookup(h))
  /\ ~htab[h].prot
  /\ hfree(c, h)

\* terminate_thread: hunprotect(t->hndl), then hfree(t->hndl).
ExitThread(c, o) ==
  /\ Running(c)
  /\ o \in ThreadObjs /\ hndl[o] # HEND
  /\ LET h == hndl[o]
         p == Dec(handle_count[o])
     IN /\ htab' = [htab EXCEPT ![h] = FreeEntry(hfreelist)]
        /\ hfreelist' = h
        /\ handle_count' = [handle_count EXCEPT ![o] = p]
        /\ \/ p > 0 /\ UNCHANGED <<life, destroys>>
           \/ /\ p = 0 /\ Unlocked(o)
              /\ life' = Destroyed(life, o) /\ destroys' = CountDestroy(o)
           \/ /\ p = 0 /\ ~Unlocked(o)
              /\ life' = [life EXCEPT ![o] = "closed"] /\ UNCHANGED destroys
  /\ hndl' = [hndl EXCEPT ![o] = HEND]
  /\ UNCHANGED <<htabsize, lock_count, call>>

\* hfree after close_object returned: the lock count is read again.
CloseDone(c) ==
  /\ call[c].at = "hfree" /\ \A d \in Calls : call[d] # Hung
  /\ LET o == call[c].obj IN
     IF Unlocked(o)
     THEN life' = Destroyed(life, o) /\ destroys' = CountDestroy(o)
     ELSE UNCHANGED <<life, destroys>>
  /\ call' = [call EXCEPT ![c] = User]
  /\ UNCHANGED <<table, handle_count, lock_count, hndl>>

-----------------------------------------------------------------------------
\* A plausible slip in Dup2Full: the limit is not looked at.
Dup2Overgrown(c, h1, h2) ==
  /\ Running(c) /\ Lockable(h1) /\ h2 = MaxHandles /\ htabsize < MaxHandles
  /\ htabsize' = MaxHandles + PerPage
  /\ UNCHANGED <<htab, hfreelist, objs, hndl, call>>

\* sys_dup2(h1, h2) where h2 is beyond the table and it cannot grow: the
\* pages that could be mapped stay mapped.
Dup2Full(c, h1, h2) ==
  /\ Running(c)
  /\ Lockable(h1) /\ Uses(c, hlookup(h1))
  /\ h2 = MaxHandles
  /\ htabsize < MaxHandles
  /\ htab' = ExpandedTab(MaxHandles)
  /\ hfreelist' = ExpandedFree(MaxHandles)
  /\ htabsize' = MaxHandles
  /\ UNCHANGED <<objs, hndl, call>>

\* sys_dup2(h1, h2) where h2 is free: remove_from_freelist finds h2 when it is
\* the first or the second of the list.  Its loop does not advance, so for any
\* other free handle the call never returns.
Dup2Free(c, h1, h2) ==
  /\ Running(c)
  /\ Lockable(h1) /\ Uses(c, hlookup(h1))
  /\ h2 \in Handles
  /\ LET o == hlookup(h1)
         n == IF h2 < htabsize THEN htabsize ELSE PagesFor(h2)
         tab == ExpandedTab(n)
         free == ExpandedFree(n)
     IN /\ tab[h2].obj = NULL
        /\ htabsize' = n
        /\ \/ /\ h2 = free
              /\ hfreelist' = tab[h2].next
              /\ htab' = [tab EXCEPT ![h2] = UsedEntry(o)]
              /\ handle_count' = [handle_count EXCEPT ![o] = (@ + 1) % CountMod]
              /\ UNCHANGED <<lock_count, call>>
           \/ /\ h2 # free /\ free # HEND /\ tab[free].next = h2
              /\ hfreelist' = free
              /\ htab' = [tab EXCEPT ![free].next = tab[h2].next, ![h2] = UsedEntry(o)]
              /\ handle_count' = [handle_count EXCEPT ![o] = (@ + 1) % CountMod]
              /\ UNCHANGED <<lock_count, call>>
           \/ /\ h2 # free /\ free # HEND /\ tab[free].next # h2
              /\ hfreelist' = free
              /\ htab' = tab
              /\ lock_count' = [lock_count EXCEPT ![o] = (@ + 1) % CountMod]
              /\ call' = [call EXCEPT ![c] = Hung]
              /\ UNCHANGED handle_count
  /\ UNCHANGED <<life, destroys, hndl>>

\* sys_dup2(h1, h2) where h2 is in use and not protected: the old object
\* loses a handle and, with its last one, is closed and, if not locked,
\* destroyed, before the handle is reassigned.  The caller's olock on the new
\* object counts as a lock when both are the same object.
Dup2Used(c, h1, h2) ==
  /\ Running(c)
  /\ Lockable(h1) /\ Uses(c, hlookup(h1))
  /\ h2 \in Handles /\ h2 < htabsize /\ HUSED(h2) /\ ~htab[h2].prot
  /\ Uses(c, htab[h2].obj)
  /\ LET o == hlookup(h1)
         oo == htab[h2].obj
         left == Dec(handle_count[oo])
         hc == [handle_count EXCEPT ![oo] = left]
     IN \/ /\ left > 0 \/ oo \notin FileObjs
           /\ htab' = [htab EXCEPT ![h2] = UsedEntry(o)]
           /\ handle_count' = [hc EXCEPT ![o] = (@ + 1) % CountMod]
           /\ IF left > 0 THEN UNCHANGED <<life, destroys>>
              ELSE IF Unlocked(oo) /\ oo # o
              THEN life' = Destroyed(life, oo) /\ destroys' = CountDestroy(oo)
              ELSE life' = [life EXCEPT ![oo] = "closed"] /\ UNCHANGED destroys
           /\ UNCHANGED <<lock_count, call>>
        \/ /\ left = 0 /\ oo \in FileObjs
           /\ handle_count' = hc
           /\ life' = [life EXCEPT ![oo] = "closed"]
           /\ lock_count' = [lock_count EXCEPT ![o] = (@ + 1) % CountMod]
           /\ call' = [call EXCEPT ![c] = InAssign(oo, o, h2)]
           /\ UNCHANGED <<htab, destroys>>
  /\ UNCHANGED <<htabsize, hfreelist, hndl>>

\* hassign after close_object returned rc: the old object is destroyed if it
\* is not locked; an error leaves the handle as it was; sys_dup2 ends with orel.
AssignDone(c, rc) ==
  /\ call[c].at = "hassign" /\ \A d \in Calls : call[d] # Hung
  /\ LET oo == call[c].obj
         o == call[c].new
         h == call[c].h
         lc == Dec(lock_count[o])
         gone == {x \in {oo} : Unlocked(x)}
                 \cup {x \in {o} : lc = 0 /\ handle_count'[x] = 0}
     IN /\ IF rc = "ok"
           THEN /\ htab' = [htab EXCEPT ![h] = UsedEntry(o)]
                /\ handle_count' = [handle_count EXCEPT ![o] = (@ + 1) % CountMod]
           ELSE UNCHANGED <<htab, handle_count>>
        /\ lock_count' = [lock_count EXCEPT ![o] = lc]
        /\ life' = [x \in Objects |-> IF x \in gone THEN "destroyed" ELSE life[x]]
        /\ destroys' = [x \in Objects |-> IF x \in gone /\ destroys[x] < 2
                                          THEN destroys[x] + 1 ELSE destroys[x]]
  /\ call' = [call EXCEPT ![c] = User]
  /\ UNCHANGED <<htabsize, hfreelist, hndl>>

-----------------------------------------------------------------------------
Next ==
  \E c \in Calls :
    \/ \E o \in Objects : Create(c, o) \/ CreateThread(c, o) \/ ExitThread(c, o)
    \/ \E h \in Handles : Dup(c, h) \/ Lock(c, h) \/ Close(c, h)
    \/ Unlock(c) \/ CloseDone(c)
    \/ \E h1 \in Handles, h2 \in 0 .. MaxHandles :
         Dup2Full(c, h1, h2) \/ Dup2Free(c, h1, h2) \/ Dup2Used(c, h1, h2)
    \/ \E rc \in CloseResults : AssignDone(c, rc)

Spec == Init /\ [][Next]_vars

-----------------------------------------------------------------------------
TypeOK ==
  /\ htab \in [Handles -> Entry]
  /\ htabsize \in 0 .. MaxHandles
  /\ hfreelist \in Handles \cup {HEND}
  /\ handle_count \in [Objects -> 0 .. (CountMod - 1)]
  /\ lock_count \in [Objects -> 0 .. (CountMod - 1)]
  /\ life \in [Objects -> {"unborn", "live", "closed", "destroyed"}]
  /\ destroys \in [Objects -> 0 .. 2]
  /\ hndl \in [Objects -> Handles \cup {HEND}]
  /\ call \in [Calls -> CallState]

HandlesOf(o) == {h \in Handles : htab[h].obj = o}

\* Handles that hassign is about to overwrite still lead to the old object.
Reassigned == {call[c].h : c \in {d \in Calls : call[d].at = "hassign"}}

\* handle_count is the number of table entries that refer to the object, so
\* close_object runs exactly when the last of them goes (hndl.c:139).
HandleCountExact ==
  /\ TypeOK
  /\ \A o \in Objects : handle_count[o] = Cardinality(HandlesOf(o) \ Reassigned)

\* The free list threads exactly the unused entries of the mapped table: from
\* hfreelist, links lead to every free handle once and never to a used one.
FreeListSound ==
  LET f[n \in 0 .. MaxHandles] ==
        IF n = 0 THEN hfreelist
        ELSE IF f[n - 1] = HEND THEN HEND ELSE htab[f[n - 1]].next
      free == {h \in 0 .. (htabsize - 1) : htab[h].obj = NULL}
  IN /\ {f[n] : n \in 0 .. MaxHandles} \ {HEND} = free
     /\ f[Cardinality(free)] = HEND

\* "Destroy object after all handles have been closed and all locks have been
\* released" (object.c:513): a destroyed object has no handle and no call in
\* the kernel still uses it, and one that lost its last handle and its last
\* lock has been destroyed: neither hfree nor orel leaves it to the other.
DestroyedWhenUnused ==
  \A o \in Objects :
    LET used == \E c \in Calls : o \in {call[c].obj, call[c].new}
    IN /\ destroys[o] > 0 => HandlesOf(o) = {} /\ ~used
       /\ life[o] = "closed" /\ HandlesOf(o) = {} => used

\* destroy_object, which frees the object, runs at most once on an object.
DestroyedOnce == \A o \in Objects : destroys[o] <= 1

\* destroy_thread panics unless the thread has terminated: the protected
\* handle keeps the thread object alive until terminate_thread released it.
ThreadOutlivesItself ==
  \A o \in ThreadObjs : hndl[o] # HEND => life[o] = "live" /\ htab[hndl[o]].obj = o
=============================================================================
