---------------------------- MODULE BufferCache ----------------------------
(***************************************************************************)
(* The block buffer cache, src/src/sys/krnl/buf.c, with one buffer pool:   *)
(* threads of the disk file system get, update, invalidate and release     *)
(* buffers and call fsync, and the lazy writer flushes and syncs them.     *)
(*                                                                         *)
(* The kernel switches threads only where a thread waits: for a buffer     *)
(* that is being read or written, in dev_read and dev_write, in yield and  *)
(* in msleep.  An action is what a thread does between two such points;    *)
(* only the lazy writer has a stop more, "quiet", at the head of its loop. *)
(*                                                                         *)
(* The content of a buffer or of a block of the disk is reduced to whether *)
(* it is current: whether it has every update that was made to the block.  *)
(***************************************************************************)
EXTENDS Integers, Sequences, FiniteSets, SequencesExt

CONSTANTS
  Users,     \* threads of the file system
  Lazy,      \* the lazy writer
  Blocks,    \* block numbers
  NoBlock,
  poolsize,
  MaxHeld,   \* bound on the locks a user holds at a time
  MaxFaults  \* bound on the transfers that the device fails

ASSUME CacheAssumption ==
  /\ IsFiniteSet(Users) /\ Lazy \notin Users /\ NoBlock \notin Blocks
  /\ poolsize \in Nat \ {0} /\ MaxHeld \in Nat \ {0} /\ MaxFaults \in Nat

Threads == Users \cup {Lazy}
Bufs == 1 .. poolsize
NULL == 0   \* no buffer

States == {"free", "clean", "dirty", "read", "write", "lock", "upd", "inv", "err"}

VARIABLES
  pool,    \* the buffer pool, with the disk and the event dirty_buffers
  thr,     \* thread -> where it waits, in which call, for which block and buffer
  held,    \* user -> buffer -> locks that the user has been given
  leaked,  \* buffer -> locks that nobody will release
  faults   \* transfers that have failed

vars == <<pool, thr, held, leaked, faults>>

Init ==
  /\ pool = [state     |-> [b \in Bufs |-> "free"],
             locks     |-> [b \in Bufs |-> 0],
             waiters   |-> [b \in Bufs |-> {}],
             blkno     |-> [b \in Bufs |-> NoBlock],
             current   |-> [b \in Bufs |-> FALSE],
             hashtable |-> [k \in Blocks |-> <<>>],  \* newest first
             freelist  |-> [i \in Bufs |-> i],
             clean     |-> <<>>,
             dirty     |-> <<>>,
             ioactive  |-> FALSE,
             panic     |-> FALSE,
             event     |-> FALSE,                    \* dirty_buffers
             disk      |-> [k \in Blocks |-> TRUE],
             excused   |-> {}]   \* blocks with updates that may be lost, see Excuse
  /\ thr = [t \in Threads |-> [at |-> IF t = Lazy THEN "idle" ELSE "user",
                               op |-> "none", blk |-> NoBlock, buf |-> NULL]]
  /\ held = [u \in Users |-> [b \in Bufs |-> 0]]
  /\ leaked = [b \in Bufs |-> 0]
  /\ faults = 0

-----------------------------------------------------------------------------
(* The pool as a value: each operator maps a pool p to the pool after it.  *)

\* A list, or a hash chain, without its entry for buffer b.
Without(s, b) ==
  IF b \in ToSet(s) THEN RemoveAt(s, CHOOSE i \in DOMAIN s : s[i] = b) ELSE s

change_state(p, b, s) == [p EXCEPT !.state[b] = s]

\* A plausible slip in add_lock: buf->locks++ is left out.
add_no_lock(p, b) == p
add_lock(p, b) == [p EXCEPT !.locks[b] = @ + 1]

\* The content of a block that is new, or no longer in use, is not to be
\* kept: any content of it counts as current.
Forget(p, k) ==
  [p EXCEPT !.current = [b \in Bufs |-> @[b] \/ p.blkno[b] = k], !.disk[k] = TRUE]

\* Three flaws let an update be lost: the write of the block fails, the block
\* is cached twice, or it is updated while sync_buffers writes it.  From then
\* on the content of the block is not followed.
Excuse(p, k) == [Forget(p, k) EXCEPT !.excused = @ \cup {k}]

\* A plausible slip in release_buffer_waiters: the threads wake without locks.
wake_unlocked(p, b) == [p EXCEPT !.waiters[b] = {}]

\* Every thread that waits for b is given a lock and made ready.
release_buffer_waiters(p, b) ==
  [p EXCEPT !.locks[b] = @ + Cardinality(p.waiters[b]), !.waiters[b] = {}]

insert_into_hashtable(p, b, k) ==
  [p EXCEPT !.blkno[b] = k, !.hashtable[k] = <<b>> \o @]

remove_from_hashtable(p, b) ==
  [p EXCEPT !.hashtable[p.blkno[b]] = Without(@, b)]

\* A plausible slip in lookup_buffer: a dirty buffer is locked as a clean one.
lock_forgets_update(p, b) ==
  [add_lock(p, b) EXCEPT
     !.clean = Without(@, b), !.dirty = Without(@, b),
     !.state[b] = IF @ \in {"clean", "dirty", "inv"} THEN "lock" ELSE @]

\* lookup_buffer of a cached buffer that is not being transferred.
lock_buffer(p, b) ==
  [add_lock(p, b) EXCEPT
     !.clean = Without(@, b), !.dirty = Without(@, b),
     !.state[b] = CASE @ \in {"clean", "inv"} -> "lock"
                    [] @ = "dirty" -> "upd"
                    [] OTHER -> @,
     !.panic = @ \/ p.state[b] = "free"]

\* A plausible slip in release_buffer: an invalid buffer stays in the hash table.
release_keeps_hashed(p, b) ==
  LET q == [p EXCEPT !.locks[b] = @ - 1]
  IN IF q.locks[b] > 0 THEN q
     ELSE CASE p.state[b] = "lock" -> [q EXCEPT !.state[b] = "clean", !.clean = Append(@, b)]
            [] p.state[b] = "upd" ->
                 [q EXCEPT !.state[b] = "dirty", !.dirty = Append(@, b), !.event = TRUE]
            [] OTHER -> [q EXCEPT !.state[b] = "free", !.freelist = <<b>> \o @, !.blkno[b] = NoBlock]

\* The block number of a free buffer is never read again: it is cleared here.
release_buffer(p, b) ==
  LET q == [p EXCEPT !.locks[b] = @ - 1]
  IN IF q.locks[b] > 0 THEN q
     ELSE CASE p.state[b] = "lock" -> [q EXCEPT !.state[b] = "clean", !.clean = Append(@, b)]
            [] p.state[b] = "upd" ->
                 [q EXCEPT !.state[b] = "dirty", !.dirty = Append(@, b), !.event = TRUE]
            [] p.state[b] \in {"inv", "err"} ->
                 [remove_from_hashtable(q, b) EXCEPT !.state[b] = "free", !.freelist = <<b>> \o @,
                                                     !.blkno[b] = NoBlock]
            [] OTHER -> [q EXCEPT !.panic = TRUE]

mark_buffer_updated(p, b) ==
  [p EXCEPT !.state[b] = IF @ \in {"lock", "inv"} THEN "upd" ELSE @]
mark_buffer_invalid(p, b) ==
  [p EXCEPT !.state[b] = IF @ \in {"lock", "upd"} THEN "inv" ELSE @]

\* read_buffer up to dev_read, and write_buffer up to dev_write.
StartRead(p, b) == [change_state(p, b, "read") EXCEPT !.ioactive = TRUE]
StartWrite(p, b) == [change_state(p, b, "write") EXCEPT !.dirty = Without(@, b)]

\* A plausible slip in EndTransfer: a failed transfer wakes nobody.
EndTransferSilent(p, b, ok) ==
  IF ok THEN release_buffer_waiters(change_state(p, b, "lock"), b) ELSE change_state(p, b, "err")

\* The rest of both.
EndTransfer(p, b, ok) ==
  release_buffer_waiters(change_state(p, b, IF ok THEN "lock" ELSE "err"), b)
EndRead(p, b, ok) == EndTransfer([p EXCEPT !.current[b] = p.disk[p.blkno[b]]], b, ok)
EndWrite(p, b, ok) ==
  LET k == p.blkno[b]
  IN EndTransfer(IF ok THEN [p EXCEPT !.disk[k] = p.current[b]] ELSE Excuse(p, k), b, ok)

-----------------------------------------------------------------------------
(* Threads.                                                                *)

Go(t, at, op, k, b) == thr' = [thr EXCEPT ![t] = [at |-> at, op |-> op, blk |-> k, buf |-> b]]
Return(t) == Go(t, "user", "none", NoBlock, NULL)
Hold(t, b) == held' = [held EXCEPT ![t][b] = @ + 1]

\* The device completes or fails a transfer.
Fault(ok) == IF ok THEN UNCHANGED faults ELSE faults < MaxFaults /\ faults' = faults + 1

\* get_buffer, alloc_buffer and invalidate_buffer are told apart by op.  Here
\* lookup_buffer has returned b, with a lock on it.
Found(p, t, op, k, b) ==
  /\ Return(t)
  /\ \/ /\ op # "inval" /\ p.state[b] = "err"
        /\ pool' = release_buffer(p, b)
        /\ UNCHANGED held
     \/ /\ op # "inval" /\ p.state[b] # "err"
        /\ pool' = IF op = "alloc" THEN Forget(p, k) ELSE p
        /\ Hold(t, b)
     \/ /\ op = "inval"
        /\ pool' = release_buffer(Forget(mark_buffer_invalid(p, b), k), b)
        /\ UNCHANGED held

\* get_buffer and alloc_buffer once get_new_buffer has returned b.
NewBuffer(p, t, op, k, b) ==
  LET r == IF p.hashtable[k] = <<>> THEN p ELSE Excuse(p, k)
      q == add_lock(insert_into_hashtable(r, b, k), b)
  IN \/ /\ op = "get"
        /\ pool' = StartRead(q, b)
        /\ Go(t, "read", op, k, b)
        /\ UNCHANGED held
     \/ /\ op = "alloc"
        /\ pool' = Forget(change_state(q, b, "lock"), k)
        /\ Hold(t, b)
        /\ Return(t)

\* One round of the loop of get_new_buffer.
TakeFree(p, t, op, k) ==
  /\ p.freelist # <<>>
  /\ NewBuffer([p EXCEPT !.freelist = Tail(@)], t, op, k, Head(p.freelist))
TakeClean(p, t, op, k) ==
  /\ p.freelist = <<>> /\ p.clean # <<>>
  /\ NewBuffer(remove_from_hashtable([p EXCEPT !.clean = Tail(@)], Head(p.clean)),
               t, op, k, Head(p.clean))
CleanDirty(p, t, op, k) ==
  /\ p.freelist = <<>> /\ p.clean = <<>> /\ p.dirty # <<>>
  /\ pool' = [StartWrite(p, Head(p.dirty)) EXCEPT !.ioactive = TRUE]
  /\ Go(t, "write", op, k, Head(p.dirty))
  /\ UNCHANGED held
Yield(p, t, op, k) ==
  /\ p.freelist = <<>> /\ p.clean = <<>> /\ p.dirty = <<>>
  /\ pool' = p
  /\ Go(t, "yield", op, k, NULL)
  /\ UNCHANGED held

get_new_buffer(p, t, op, k) ==
  TakeFree(p, t, op, k) \/ TakeClean(p, t, op, k) \/ CleanDirty(p, t, op, k) \/ Yield(p, t, op, k)

\* Thread t is at the given place and the kernel has not panicked.
At(t, at) == thr[t].at = at /\ ~pool.panic

\* The user may take another lock.
MayLock(t) == FoldFunction(+, 0, held[t]) < MaxHeld

\* get_buffer(k), alloc_buffer(k) or invalidate_buffer(k) up to its first wait.
Lookup(t, op, k) ==
  /\ At(t, "user") /\ (op = "inval" \/ MayLock(t))
  /\ \/ /\ pool.hashtable[k] = <<>> /\ op # "inval"
        /\ get_new_buffer(pool, t, op, k)
     \/ /\ pool.hashtable[k] # <<>>
        /\ LET b == Head(pool.hashtable[k])
           IN \/ /\ pool.state[b] \in {"read", "write"}
                 /\ pool' = [pool EXCEPT !.waiters[b] = @ \cup {t}]
                 /\ Go(t, "wait", op, k, b)
                 /\ UNCHANGED held
              \/ /\ pool.state[b] \notin {"read", "write"}
                 /\ Found(lock_buffer(pool, b), t, op, k, b)
  /\ UNCHANGED <<leaked, faults>>

\* wait_for_buffer returns: the thread that made the transfer gave t a lock.
WaitOver(t) ==
  /\ At(t, "wait") /\ t \notin pool.waiters[thr[t].buf]
  /\ Found(pool, t, thr[t].op, thr[t].blk, thr[t].buf)
  /\ UNCHANGED <<leaked, faults>>

\* A plausible slip in Written: the locks of those who waited are ignored.
WrittenTaken(t, ok) ==
  LET b == thr[t].buf
      q == EndWrite(pool, b, ok)
  IN /\ At(t, "write")
     /\ ok
     /\ NewBuffer(remove_from_hashtable(q, b), t, thr[t].op, thr[t].blk, b)
     /\ UNCHANGED <<leaked, faults>>

\* get_new_buffer after the dev_write of a dirty buffer.
Written(t, ok) ==
  LET b == thr[t].buf
      q == EndWrite(pool, b, ok)
  IN /\ At(t, "write")
     /\ Fault(ok)
     /\ \/ /\ ok /\ q.locks[b] = 0
           /\ NewBuffer(remove_from_hashtable(q, b), t, thr[t].op, thr[t].blk, b)
        \/ /\ ~ok \/ q.locks[b] # 0
           /\ pool' = q
           /\ Go(t, "yield", thr[t].op, thr[t].blk, NULL)
           /\ UNCHANGED held
     /\ UNCHANGED leaked

\* get_new_buffer after yield.
Retry(t) ==
  /\ At(t, "yield")
  /\ get_new_buffer(pool, t, thr[t].op, thr[t].blk)
  /\ UNCHANGED <<leaked, faults>>

\* get_buffer after its dev_read.
ReadDone(t, ok) ==
  LET b == thr[t].buf
      q == EndRead(pool, b, ok)
  IN /\ At(t, "read")
     /\ Fault(ok)
     /\ Return(t)
     /\ \/ ok /\ pool' = q /\ Hold(t, b)
        \/ ~ok /\ pool' = release_buffer(q, b) /\ UNCHANGED held
     /\ UNCHANGED leaked

-----------------------------------------------------------------------------
(* What the holder of a buffer does with it.                               *)

Holds(t, b) == At(t, "user") /\ held[t][b] > 0

Syncing(b) == \E s \in Threads : thr[s].at = "sync" /\ thr[s].buf = b

\* The content is changed, then mark_buffer_updated.  The disk and any other
\* copy of the block are out of date with it.
Update(t, b) ==
  LET k == pool.blkno[b]
      p == IF Syncing(b) THEN Excuse(pool, k) ELSE pool
  IN /\ Holds(t, b)
     /\ pool' = [mark_buffer_updated(p, b) EXCEPT
                   !.disk[k] = k \in p.excused,
                   !.current = [c \in Bufs |-> @[c] /\ (c = b \/ p.blkno[c] # k \/ k \in p.excused)]]
     /\ UNCHANGED <<thr, held, leaked, faults>>

\* A block that is no longer in use: mark_buffer_invalid.
Invalidate(t, b) ==
  /\ Holds(t, b)
  /\ pool' = Forget(mark_buffer_invalid(pool, b), pool.blkno[b])
  /\ UNCHANGED <<thr, held, leaked, faults>>

Release(t, b) ==
  /\ Holds(t, b)
  /\ pool' = release_buffer(pool, b)
  /\ held' = [held EXCEPT ![t][b] = @ - 1]
  /\ UNCHANGED <<thr, leaked, faults>>

-----------------------------------------------------------------------------
(* flush_buffers and sync_buffers.  op tells who calls them: "fsync" is    *)
(* dfs_fsync, "lazy" the lazy writer's interruptible flush, "nap" and      *)
(* "late" its check_sync in the loop that waits for an idle device and at  *)
(* the end of a round.                                                     *)

\* Where the caller of sync_buffers goes on.
After == [fsync |-> "user", nap |-> "quiet", late |-> "idle"]
Finish(p, t, op) == pool' = p /\ Go(t, After[op], "none", NoBlock, NULL)

\* sync_buffers from buffer i on, up to the next dev_write.
UpdatedFrom(p, i) == {b \in Bufs : b >= i /\ p.state[b] = "upd"}
SyncFrom(p, t, op, i) ==
  \/ UpdatedFrom(p, i) = {} /\ Finish(p, t, op)
  \/ \E b \in UpdatedFrom(p, i) :
       /\ \A c \in UpdatedFrom(p, i) : b <= c
       /\ pool' = add_lock(p, b)
       /\ Go(t, "sync", op, NoBlock, b)

sync_buffers(p, t, op) ==
  SyncFrom([p EXCEPT !.ioactive = @ /\ UpdatedFrom(p, 1) = {}], t, op, 1)

\* flush_buffers(pool, 0) writes the next dirty buffer, or sync_buffers follows.
FlushNext(p, t, op) ==
  \/ /\ p.dirty # <<>>
     /\ pool' = StartWrite(p, Head(p.dirty))
     /\ Go(t, "flush", op, NoBlock, Head(p.dirty))
  \/ p.dirty = <<>> /\ sync_buffers(p, t, op)

flush_and_sync(p, t, op) == FlushNext([p EXCEPT !.ioactive = FALSE], t, op)

\* check_sync by the lazy writer, with SYNC_INTERVAL over or not.
check_sync(p, op) == Finish(p, Lazy, op) \/ flush_and_sync(p, Lazy, op)

\* A plausible slip in Rearm: the event that started the flush is not set again.
NoRearm(p) == p

\* flush_buffers(pool, 1) was interrupted or failed: set_event(&dirty_buffers).
Rearm(p) == [p EXCEPT !.event = TRUE]

\* flush_buffers(pool, 1) of the lazy writer, and what follows it.
LazyFlush(p) ==
  \/ /\ p.dirty # <<>> /\ ~p.ioactive
     /\ pool' = StartWrite(p, Head(p.dirty))
     /\ Go(Lazy, "flush", "lazy", NoBlock, Head(p.dirty))
  \/ p.dirty # <<>> /\ p.ioactive /\ check_sync(Rearm(p), "late")
  \/ p.dirty = <<>> /\ check_sync(p, "late")

fsync(t) ==
  /\ At(t, "user")
  /\ flush_and_sync(pool, t, "fsync")
  /\ UNCHANGED <<held, leaked, faults>>

\* flush_buffers after dev_write: a buffer nobody waited for is clean.
FlushDone(t, ok) ==
  LET b == thr[t].buf
      op == thr[t].op
      q == EndWrite(pool, b, ok)
      p == IF ok /\ q.locks[b] = 0
           THEN [q EXCEPT !.state[b] = "clean", !.clean = Append(@, b)] ELSE q
  IN /\ At(t, "flush")
     /\ Fault(ok)
     /\ \/ ok /\ op = "lazy" /\ LazyFlush(p)
        \/ ok /\ op # "lazy" /\ FlushNext(p, t, op)
        \/ ~ok /\ op = "lazy" /\ check_sync(Rearm(p), "late")
        \/ ~ok /\ op = "fsync" /\ Finish(p, t, op)
        \/ ~ok /\ op \in {"nap", "late"} /\ sync_buffers(p, t, op)
     /\ UNCHANGED <<held, leaked>>

\* sync_buffers after dev_write.  When it fails the lock is not released.
SyncDone(t, ok) ==
  LET b == thr[t].buf
      k == pool.blkno[b]
      p == release_buffer(change_state([pool EXCEPT !.disk[k] = pool.current[b]], b, "lock"), b)
  IN /\ At(t, "sync")
     /\ Fault(ok)
     /\ \/ ok /\ SyncFrom(p, t, thr[t].op, b + 1) /\ UNCHANGED leaked
        \/ ~ok /\ Finish(pool, t, thr[t].op) /\ leaked' = [leaked EXCEPT ![b] = @ + 1]
     /\ UNCHANGED held

\* lazywriter_task waits for dirty_buffers ...
LazyWake ==
  /\ At(Lazy, "idle") /\ pool.event
  /\ pool' = [pool EXCEPT !.event = FALSE]
  /\ Go(Lazy, "quiet", "none", NoBlock, NULL)
  /\ UNCHANGED <<held, leaked, faults>>

\* ... for at most SYNC_INTERVAL.
LazyTimeout ==
  /\ At(Lazy, "idle") /\ ~pool.event
  /\ check_sync(pool, "late")
  /\ UNCHANGED <<held, leaked, faults>>

\* One second without activity of the device, then the flush.
LazyQuiet ==
  /\ At(Lazy, "quiet")
  /\ \/ /\ pool.ioactive
        /\ pool' = [pool EXCEPT !.ioactive = FALSE]
        /\ Go(Lazy, "nap", "none", NoBlock, NULL)
     \/ ~pool.ioactive /\ LazyFlush(pool)
  /\ UNCHANGED <<held, leaked, faults>>

LazyNap ==
  /\ At(Lazy, "nap")
  /\ check_sync(pool, "nap")
  /\ UNCHANGED <<held, leaked, faults>>

-----------------------------------------------------------------------------
Proceed(t) ==
  \/ WaitOver(t)
  \/ Retry(t)
  \/ \E ok \in BOOLEAN : Written(t, ok) \/ ReadDone(t, ok) \/ FlushDone(t, ok) \/ SyncDone(t, ok)

LazyStep == LazyWake \/ LazyQuiet \/ LazyNap

Next ==
  \/ \E u \in Users, k \in Blocks, op \in {"get", "alloc", "inval"} : Lookup(u, op, k)
  \/ \E u \in Users, b \in Bufs : Update(u, b) \/ Invalidate(u, b) \/ Release(u, b)
  \/ \E u \in Users : fsync(u)
  \/ \E t \in Threads : Proceed(t)
  \/ LazyStep
  \/ LazyTimeout

Spec == Init /\ [][Next]_vars

\* A thread that is ready runs, and the device answers every request.
FairSpec == Spec /\ (\A t \in Threads : WF_vars(Proceed(t))) /\ WF_vars(LazyStep)

-----------------------------------------------------------------------------
(* Properties.                                                             *)

Places == {"user", "wait", "write", "yield", "read", "flush", "sync", "idle", "quiet", "nap"}
Ops == {"none", "get", "alloc", "inval", "fsync", "lazy", "nap", "late"}

Pool == [state : [Bufs -> States], locks : [Bufs -> Nat], waiters : [Bufs -> SUBSET Users],
         blkno : [Bufs -> Blocks \cup {NoBlock}], current : [Bufs -> BOOLEAN],
         hashtable : [Blocks -> Seq(Bufs)], freelist : Seq(Bufs), clean : Seq(Bufs), dirty : Seq(Bufs),
         ioactive : BOOLEAN, panic : BOOLEAN, event : BOOLEAN,
         disk : [Blocks -> BOOLEAN], excused : SUBSET Blocks]
Thread == [at : Places, op : Ops, blk : Blocks \cup {NoBlock}, buf : Bufs \cup {NULL}]

\* Type invariant of the pool, the threads and the locks they hold.
TypeOK ==
  /\ pool \in Pool
  /\ thr \in [Threads -> Thread]
  /\ held \in [Users -> [Bufs -> Nat]] /\ leaked \in [Bufs -> Nat]
  /\ faults \in 0 .. MaxFaults

ListOf(s, st) == IsInjective(s) /\ ToSet(s) = {b \in Bufs : pool.state[b] \in st}

\* Through every interleaving of lookups, transfers, releases and flushes a
\* buffer is on exactly the list and in exactly the hash chain that its state
\* and block number call for, so neither panic of lookup_buffer and
\* release_buffer is reached and get_new_buffer never reuses a buffer in use.
ListsAgree ==
  /\ ~pool.panic
  /\ ListOf(pool.freelist, {"free"})
  /\ ListOf(pool.clean, {"clean"})
  /\ ListOf(pool.dirty, {"dirty"})
  /\ \A k \in Blocks :
       /\ IsInjective(pool.hashtable[k])
       /\ ToSet(pool.hashtable[k]) = {b \in Bufs : pool.blkno[b] = k /\ pool.state[b] # "free"}

\* The locks that users have been given on b, numbered for each user.
Given(b) == UNION {{u} \X (1 .. held[u][b]) : u \in Users}

InUseBy(b) == {t \in Threads : /\ thr[t].buf = b
                               /\ \/ thr[t].at \in {"read", "sync"}
                                  \/ thr[t].at = "wait" /\ t \notin pool.waiters[b]}

\* buf->locks counts exactly the locks of the buffer's users, of the threads
\* woken by release_buffer_waiters that have not run yet and of transfers
\* under way (and those that sync_buffers does not give back after a failed
\* write), so a buffer that is free, clean, dirty or being written has none.
LocksExact ==
  /\ TypeOK
  /\ \A b \in Bufs :
       /\ pool.locks[b] = Cardinality(Given(b)) + Cardinality(InUseBy(b)) + leaked[b]
       /\ pool.state[b] \in {"free", "clean", "dirty", "write"} => pool.locks[b] = 0
       /\ pool.state[b] \in {"lock", "upd", "inv", "read"} => pool.locks[b] > 0

\* An update that has not reached the disk is in the newest cached copy of
\* its block, in a state from which it will be written, whatever waits,
\* evictions and flushes come between, unless one of the three flaws excuses it.
UpdateKept ==
  \A k \in Blocks \ pool.excused :
    ~pool.disk[k] => \E b \in Bufs : /\ <<b>> = pool.hashtable[k] /\ pool.current[b]
                                      /\ pool.state[b] \in {"upd", "dirty", "write"}

\* A holder of a buffer sees every update made to its block, and holds a
\* buffer of that block only: nobody evicts or rereads it under the holder.
FreshRead ==
  \A u \in Users, b \in Bufs :
    held[u][b] > 0 => /\ pool.blkno[b] \in pool.excused \/ pool.current[b]
                      /\ pool.state[b] \in {"lock", "upd", "inv"}

\* A thread that waits for a transfer of another thread is woken with a lock
\* of its own and leaves lookup_buffer.
WaiterServed == \A u \in Users : thr[u].at = "wait" ~> thr[u].at # "wait"

\* Once the users are quiet the lazy writer has, without the periodic sync,
\* every dirty buffer written: neither an interrupted nor a failed flush loses
\* the event that starts it again.
LazyWrites == <>[](\A u \in Users : thr[u].at = "user" /\ held[u] = [b \in Bufs |-> 0])
                => <>[](pool.dirty = <<>>)

=============================================================================
