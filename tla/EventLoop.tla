----------------------------- MODULE EventLoop -----------------------------
(***************************************************************************)
(* The Wayland event loop for Darwin.  Sources live in a table that only   *)
(* grows.  Read sources and timers are GCD dispatch sources: their         *)
(* callbacks run on a concurrent queue, each source's own never overlapping *)
(* with itself.  Write sources are kqueue filters, drained by the thread   *)
(* that calls wl_event_loop_dispatch.  There is no lock, and callbacks use *)
(* the same functions as the main thread.                                  *)
(*                                                                         *)
(* A function is cut at every access to what other threads can change.     *)
(***************************************************************************)
EXTENDS Integers

CONSTANTS
  MaxSources,  \* MAX_SOURCES
  Fds          \* descriptors that sources watch

ASSUME MaxSourcesAssumption == MaxSources \in Nat \ {0}

Slots   == 1..MaxSources
Main    == 0
Threads == Slots \cup {Main}   \* a slot's number is also the thread of its handler
NoFd    == "no fd"             \* the fd of a timer
Nobody  == -1

VARIABLES
  readable, writable,  \* the descriptors that are ready
  kq,                  \* the udata of each descriptor's EVFILT_WRITE, 0 if none
  source_count,
  sources,
  gcd,                 \* the dispatch source made for each slot
  at,                  \* where each thread is in a handler, or main in dispatch
  call,                \* the function each thread is in
  events, cur,         \* the events dispatch has fetched, and the source it works on
  freed,
  \* history
  crash,               \* how libdispatch ended the process
  careless,            \* has a caller not armed a timer just once before its removal?
  overlapped,          \* have two adds overlapped?
  clash,               \* was a slot handed out that was in use, or no slot?
  touched,             \* was the loop used after it was freed?
  quiet,               \* could nothing use the loop any more when it was freed?
  removedBy, late      \* who removed a source; its callbacks begun since

ready == <<readable, writable>>
table == <<source_count, sources, overlapped, clash>>
memory == <<freed, touched, quiet>>
removal == <<removedBy, late>>
vars == <<ready, kq, table, gcd, at, call, events, cur, memory, crash, careless, removal>>

Kinds == {"read", "write", "timer"}

\* Of a wl_event_source; dispatch_src only as null or not.
NoSource == [kind |-> "none", fd |-> NoFd, cancelled |-> FALSE, dispatch_src |-> FALSE]
NoCall   == [op |-> "none", slot |-> 0, ms |-> 0]

Init ==
  /\ readable = {} /\ writable = {}
  /\ kq = [f \in Fds |-> 0]
  /\ source_count = 0
  /\ sources = [s \in Slots |-> NoSource]
  /\ gcd = [s \in Slots |-> "none"]
  /\ at = [t \in Threads |-> "idle"]
  /\ call = [t \in Threads |-> NoCall]
  /\ events = {} /\ cur = 0
  /\ crash = "no" /\ careless = FALSE
  /\ overlapped = FALSE /\ clash = FALSE
  /\ freed = FALSE /\ touched = FALSE /\ quiet = TRUE
  /\ removedBy = [s \in Slots |-> Nobody]
  /\ late = [s \in Slots |-> 0]

\* The model goes on neither after libdispatch has ended the process nor after a slot
\* was handed out twice: there the sources' fields are a mixture of two.
Running == crash = "no" /\ ~clash

\* A thread can call a function: main between two dispatches, or within a callback.
\* A source is used once its add has returned, and a loop until it is destroyed.
MayCall(t) == /\ Running /\ ~freed /\ call[t] = NoCall
              /\ at[t] = "func" \/ (t = Main /\ at[t] = "idle")
InUse(s) == \E t \in Threads : call[t].slot = s
Goes(t, op, s, ms) == call' = [call EXCEPT ![t] = [op |-> op, slot |-> s, ms |-> ms]]
Returns(t) == call' = [call EXCEPT ![t] = NoCall]

-----------------------------------------------------------------------------
(* What the loop waits for.                                                 *)

BecomeReady(f) ==
  /\ Running /\ ~freed
  /\ \/ f \notin readable /\ readable' = readable \cup {f} /\ UNCHANGED writable
     \/ f \notin writable /\ writable' = writable \cup {f} /\ UNCHANGED readable
  /\ UNCHANGED <<kq, table, gcd, at, call, events, cur, memory, crash, careless, removal>>

\* The owner closes a descriptor that no source watches any more; the kernel drops
\* its filter, and the number is at once somebody else's.
CloseFd(f) ==
  /\ Running /\ ~freed
  /\ \A s \in Slots : sources[s].fd = f => sources[s].cancelled
  /\ kq' = [kq EXCEPT ![f] = 0]
  /\ readable' = readable \ {f} /\ writable' = writable \ {f}
  /\ UNCHANGED <<table, gcd, at, call, events, cur, memory, crash, careless, removal>>

-----------------------------------------------------------------------------
(* wl_event_loop_add_fd and wl_event_loop_add_timer.                        *)

Adding == {"take", "store", "register"}

\* A full table makes both return NULL.
AddCheck(t) ==
  /\ MayCall(t) /\ source_count < MaxSources
  /\ Goes(t, "take", 0, 0)
  /\ overlapped' = (overlapped \/ \E u \in Threads : call[u].op \in Adding)
  /\ UNCHANGED <<ready, kq, source_count, sources, clash, gcd, at, events, cur,
                 memory, crash, careless, removal>>

\* source_count++ is a read and a write.
AddTake(t) ==
  /\ call[t].op = "take" /\ Running
  /\ Goes(t, "store", source_count + 1, 0)
  /\ UNCHANGED <<ready, kq, table, gcd, at, events, cur, memory, crash, careless, removal>>

\* Mutant of NewCount: the function gives back the count it found.
NewCountOld(s) == s - 1
NewCount(s) == s

\* Mutant of NewGcd: a read source is not resumed.
NewGcdSuspended(kind) == IF kind = "write" THEN "none" ELSE "inactive"

\* A read source is resumed at once, a write source has no dispatch source, and a timer
\* waits for wl_event_source_timer_update.
NewGcd(kind) == CASE kind = "read" -> "active" [] kind = "timer" -> "inactive"
                  [] OTHER -> "none"

\* The entry is filled in: nobody else has the pointer yet.  Only a write source then
\* needs the kqueue, which all threads share.
AddStore(t) ==
  /\ call[t].op = "store" /\ Running
  /\ LET s == call[t].slot IN
       /\ source_count' = NewCount(s)
       /\ IF s \in Slots /\ sources[s] = NoSource
            THEN \E kind \in Kinds, fd \in Fds :
                   /\ sources' = [sources EXCEPT ![s] =
                        [kind |-> kind, fd |-> IF kind = "timer" THEN NoFd ELSE fd,
                         cancelled |-> FALSE, dispatch_src |-> kind # "write"]]
                   /\ gcd' = [gcd EXCEPT ![s] = NewGcd(kind)]
                   /\ IF kind = "write" THEN Goes(t, "register", s, 0) ELSE Returns(t)
                   /\ UNCHANGED clash
            ELSE Returns(t) /\ clash' = TRUE /\ UNCHANGED <<sources, gcd>>
  /\ UNCHANGED <<ready, kq, overlapped, at, events, cur, memory, crash, careless, removal>>

\* The kqueue has one EVFILT_WRITE per descriptor: EV_ADD replaces the udata of another.
AddRegister(t) ==
  /\ call[t].op = "register" /\ Running
  /\ Returns(t)
  /\ LET s == call[t].slot IN kq' = [kq EXCEPT ![sources[s].fd] = s]
  /\ UNCHANGED <<ready, table, gcd, at, events, cur, memory, crash, careless, removal>>

\* The add of source s has not returned, so nobody has the pointer.
Registering(s) == \E t \in Threads : call[t].op = "register" /\ call[t].slot = s

-----------------------------------------------------------------------------
(* wl_event_source_timer_update.                                            *)

Update(t, s, ms) ==
  /\ MayCall(t)
  /\ sources[s].kind = "timer" /\ sources[s].dispatch_src
  /\ careless' = (careless \/ InUse(s) \/ (ms > 0 /\ gcd[s] # "inactive"))
  /\ Goes(t, "set", s, ms)
  /\ UNCHANGED <<ready, kq, table, gcd, at, events, cur, memory, crash, removal>>

\* Mutant of Resumes: a timer set to 0 ms is resumed too.
ResumesAlways(s, ms) == ~sources[s].cancelled
Resumes(s, ms) == ms > 0 /\ ~sources[s].cancelled

\* dispatch_source_set_timer, and the condition of the resume.
UpdateSet(t) ==
  /\ call[t].op = "set" /\ Running
  /\ LET s == call[t].slot IN
       IF ~sources[s].dispatch_src
         THEN crash' = "null source" /\ Returns(t)
         ELSE /\ IF Resumes(s, call[t].ms) THEN Goes(t, "resume", s, call[t].ms) ELSE Returns(t)
              /\ UNCHANGED crash
  /\ UNCHANGED <<ready, kq, table, gcd, at, events, cur, memory, careless, removal>>

\* dispatch_resume: a source that is not suspended ends the process.
UpdateResume(t) ==
  /\ call[t].op = "resume" /\ Running
  /\ Returns(t)
  /\ LET s == call[t].slot IN
       IF sources[s].dispatch_src /\ gcd[s] = "inactive"
         THEN gcd' = [gcd EXCEPT ![s] = "active"] /\ UNCHANGED crash
         ELSE /\ crash' = IF sources[s].dispatch_src THEN "over-resume" ELSE "null source"
              /\ UNCHANGED gcd
  /\ UNCHANGED <<ready, kq, table, at, events, cur, memory, careless, removal>>

-----------------------------------------------------------------------------
(* wl_event_source_remove.                                                  *)

Remove(t, s) ==
  /\ MayCall(t)
  /\ sources[s].kind # "none" /\ ~sources[s].cancelled /\ ~Registering(s)
  /\ careless' = (careless \/ InUse(s) \/ gcd[s] = "inactive")
  /\ sources' = [sources EXCEPT ![s].cancelled = TRUE]
  /\ Goes(t, "release", s, 0)
  /\ UNCHANGED <<ready, kq, source_count, overlapped, clash, gcd, at, events, cur,
                 memory, crash, removal>>

\* Mutant of FiltersAfter: the filter of the descriptor is deleted, whosever it is.
FiltersDeleted(s) == IF sources[s].kind = "write" THEN [kq EXCEPT ![sources[s].fd] = 0] ELSE kq
\* The filter of a write source stays registered.
FiltersAfter(s) == kq

\* The release of a dispatch source that was never resumed ends the process.
RemoveRelease(t) ==
  /\ call[t].op = "release" /\ Running
  /\ Returns(t)
  /\ LET s == call[t].slot IN
       /\ IF sources[s].dispatch_src
            THEN /\ crash' = IF gcd[s] = "inactive" THEN "release of inactive" ELSE crash
                 /\ gcd' = [gcd EXCEPT ![s] = "cancelled"]
                 /\ sources' = [sources EXCEPT ![s].dispatch_src = FALSE]
            ELSE UNCHANGED <<crash, gcd, sources>>
       /\ kq' = FiltersAfter(s)
       /\ removedBy' = [removedBy EXCEPT ![s] = t]
  /\ UNCHANGED <<ready, source_count, overlapped, clash, at, events, cur, memory, careless,
                 late>>

-----------------------------------------------------------------------------
(* GCD: the handlers of read sources and timers.                            *)

Fire(s) ==
  /\ Running /\ gcd[s] = "active" /\ at[s] = "idle"
  /\ sources[s].kind = "read" => sources[s].fd \in readable
  /\ at' = [at EXCEPT ![s] = "enter"]
  /\ UNCHANGED <<ready, kq, table, gcd, call, events, cur, memory, crash, careless, removal>>

Touch == touched' = (touched \/ freed)

\* Mutant of LooksCancelled: the flag is not looked at.
NeverCancelled(s) == FALSE
LooksCancelled(s) == sources[s].cancelled

\* The block's test of src->cancelled; a freed source can hold anything.
Check(s) ==
  /\ at[s] = "enter" /\ Running
  /\ \/ (LooksCancelled(s) \/ freed)  /\ at' = [at EXCEPT ![s] = "idle"]
     \/ (~LooksCancelled(s) \/ freed) /\ at' = [at EXCEPT ![s] = "checked"]
  /\ Touch
  /\ UNCHANGED <<ready, kq, table, gcd, call, events, cur, freed, quiet, crash, careless, removal>>

\* The callback of source s, on the thread that handles it, may read or fill all
\* there is.  Once begun it can call any function, and then it returns.
Work(t) == IF t = Main THEN cur ELSE t

Func(t) ==
  /\ at[t] = "checked" /\ Running
  /\ at' = [at EXCEPT ![t] = "func"]
  /\ LET s == Work(t) IN
       /\ late' = IF removedBy[s] = Nobody THEN late ELSE [late EXCEPT ![s] = @ + 1]
       /\ readable' \in {readable, readable \ IF t = Main THEN {} ELSE {sources[s].fd}}
       /\ writable' \in {writable, writable \ IF t = Main THEN {sources[s].fd} ELSE {}}
  /\ UNCHANGED <<kq, table, gcd, call, events, cur, memory, crash, careless, removedBy>>

Return(t) ==
  /\ at[t] = "func" /\ call[t] = NoCall /\ Running
  /\ at' = [at EXCEPT ![t] = IF t = Main THEN "loop" ELSE "idle"]
  /\ cur' = IF t = Main THEN 0 ELSE cur
  /\ UNCHANGED <<ready, kq, table, gcd, call, events, memory, crash, careless, removal>>

\* After the handler's last run; only read sources have a cancel handler.
CancelHandler(s) ==
  /\ gcd[s] = "cancelled" /\ at[s] = "idle" /\ Running
  /\ gcd' = [gcd EXCEPT ![s] = "finished"]
  /\ IF sources[s].kind = "read"
       THEN Touch /\ sources' = IF freed THEN sources
                                ELSE [sources EXCEPT ![s].cancelled = TRUE]
       ELSE UNCHANGED <<touched, sources>>
  /\ UNCHANGED <<ready, kq, source_count, overlapped, clash, at, call, events, cur,
                 freed, quiet, crash, careless, removal>>

-----------------------------------------------------------------------------
(* wl_event_loop_dispatch.                                                  *)

\* kevent() returns the sources of writable descriptors; with none it times out,
\* which changes nothing.  All of Fds fit the 32 events.
Kevent ==
  /\ MayCall(Main) /\ at[Main] = "idle"
  /\ events' = {kq[f] : f \in writable} \ {0}
  /\ events' # {}
  /\ at' = [at EXCEPT ![Main] = "loop"]
  /\ UNCHANGED <<ready, kq, table, gcd, call, cur, memory, crash, careless, removal>>

NextEvent ==
  /\ at[Main] = "loop" /\ Running
  /\ \E s \in events :
       /\ events' = events \ {s}
       /\ IF LooksCancelled(s) THEN UNCHANGED <<at, cur>>
          ELSE cur' = s /\ at' = [at EXCEPT ![Main] = "checked"]
  /\ UNCHANGED <<ready, kq, table, gcd, call, memory, crash, careless, removal>>

DispatchEnd ==
  /\ at[Main] = "loop" /\ events = {} /\ Running
  /\ at' = [at EXCEPT ![Main] = "idle"]
  /\ UNCHANGED <<ready, kq, table, gcd, call, events, cur, memory, crash, careless, removal>>

-----------------------------------------------------------------------------
(* wl_event_loop_destroy.                                                   *)

\* Nothing will look at the loop: no handler is on its way to the test of cancelled,
\* and every cancel handler has run.
Quiet == \A s \in Slots : /\ at[s] # "enter"
                          /\ sources[s].kind = "read" => gcd[s] = "finished"

\* Mutant of Stopped: the sources are released and not cancelled.
NotStopped(s) == gcd[s]
Stopped(s) == IF sources[s].dispatch_src THEN "cancelled" ELSE gcd[s]

\* Every dispatch source is cancelled and released, and the loop freed.
Destroy ==
  /\ MayCall(Main) /\ at[Main] = "idle" /\ \A t \in Threads : call[t] = NoCall
  /\ careless' = (careless \/ \E s \in Slots : gcd[s] = "inactive")
  /\ crash' = IF \E s \in Slots : gcd[s] = "inactive" THEN "release of inactive" ELSE crash
  /\ gcd' = [s \in Slots |-> Stopped(s)]
  /\ freed' = TRUE
  /\ quiet' = Quiet
  /\ UNCHANGED <<ready, kq, table, at, call, events, cur, touched, removal>>

-----------------------------------------------------------------------------
Function(t) == \/ AddTake(t) \/ AddStore(t) \/ AddRegister(t)
               \/ UpdateSet(t) \/ UpdateResume(t) \/ RemoveRelease(t)
Handler(s)  == Check(s) \/ CancelHandler(s)
Dispatch    == NextEvent \/ DispatchEnd

Next ==
  \/ \E f \in Fds : BecomeReady(f) \/ CloseFd(f)
  \/ \E t \in Threads : \/ AddCheck(t) \/ Function(t) \/ Func(t) \/ Return(t)
                        \/ \E s \in Slots : Remove(t, s) \/ \E ms \in 0..1 : Update(t, s, ms)
  \/ \E s \in Slots : Fire(s) \/ Handler(s)
  \/ Kevent \/ Dispatch
  \/ Destroy

Spec == Init /\ [][Next]_vars

\* Functions and handlers that have begun go on, and GCD runs what is ready.  A
\* callback returns and main dispatches although both may do other things first,
\* which is why their fairness is strong.
FairSpec ==
  /\ Spec
  /\ WF_vars(Dispatch) /\ SF_vars(Kevent)
  /\ \A t \in Threads : WF_vars(Function(t)) /\ WF_vars(Func(t)) /\ SF_vars(Return(t))
  /\ \A s \in Slots : WF_vars(Fire(s)) /\ WF_vars(Handler(s))

-----------------------------------------------------------------------------
(* Properties.                                                              *)

TypeOK ==
  /\ readable \subseteq Fds /\ writable \subseteq Fds
  /\ kq \in [Fds -> Slots \cup {0}]
  /\ source_count \in 0..MaxSources + 1
  /\ sources \in [Slots -> [kind : Kinds \cup {"none"}, fd : Fds \cup {NoFd},
                            cancelled : BOOLEAN, dispatch_src : BOOLEAN]]
  /\ gcd \in [Slots -> {"none", "inactive", "active", "cancelled", "finished"}]
  /\ at \in [Threads -> {"idle", "enter", "checked", "func", "loop"}]
  /\ call \in [Threads -> [op : {"none", "take", "store", "register", "set", "resume",
                                 "release"},
                           slot : 0..MaxSources + 1, ms : 0..1]]
  /\ events \subseteq Slots /\ cur \in Slots \cup {0}
  /\ crash \in {"no", "over-resume", "null source", "release of inactive"}
  /\ {freed, touched, quiet, overlapped, clash, careless} \subseteq BOOLEAN
  /\ removedBy \in [Slots -> Threads \cup {Nobody}]
  /\ late \in [Slots -> Nat]
  /\ ~clash => {s \in Slots : sources[s].kind # "none"} = 1..source_count

\* Without a lock, wl_event_loop_add_fd hands out a slot that is in use, or one past
\* the end of the table, only if two calls overlapped.
SlotOwnedOnce == clash => overlapped

\* The thread that runs the callbacks of a source.
Runner(s) == IF sources[s].kind = "write" THEN Main ELSE s

\* After wl_event_source_remove has returned, a source's callback begins at most once
\* more, and not at all if the source was removed by the thread that runs it.
AtMostOneLateCall ==
  \A s \in Slots : late[s] = 0 \/ (late[s] = 1 /\ removedBy[s] # Runner(s))

\* As long as callers arm each timer once, before its removal, and not in two threads
\* at a time, libdispatch does not end the process, whatever handlers run beside them.
CrashOnlyIfCareless == crash # "no" => careless

\* A loop that is destroyed after the cancel handlers have run, and with no handler at
\* its test of cancelled, is not used any more.  Removing the sources is not enough.
DestroyWhenQuiet == touched => ~quiet

\* A source is never forgotten: an entry of the table that is not removed is still
\* watched, by its dispatch source or by the kqueue, which keeps the one of several
\* write sources of a descriptor that was registered last.  That is the last in the
\* table as long as no two adds overlapped; if some did, it may be any of them.
StillWatched ==
  crash = "no" /\ ~freed =>
    \A s \in Slots : sources[s].kind # "none" /\ ~sources[s].cancelled =>
      IF sources[s].kind = "write"
        THEN Registering(s) \/ LET n == kq[sources[s].fd] IN
               /\ n # 0 /\ sources[n].fd = sources[s].fd
               /\ overlapped \/ n >= s
        ELSE gcd[s] \in {"inactive", "active"} /\ sources[s].dispatch_src

\* The callback of a read source is called when its descriptor can be read, unless
\* another callback reads it first, the source is removed or the loop destroyed.
ReadServed ==
  \A s \in Slots :
    (sources[s].kind = "read" /\ ~sources[s].cancelled /\ sources[s].fd \in readable)
      ~> \/ at[s] = "func"
         \/ sources[s].fd \notin readable
         \/ sources[s].cancelled \/ freed \/ ~Running

\* The callback of a write source is called when its descriptor can be written,
\* unless the source is removed, or another has the filter of the descriptor.
WriteServed ==
  \A s \in Slots, f \in Fds :
    (sources[s].kind = "write" /\ sources[s].fd = f /\ ~sources[s].cancelled /\ f \in writable)
      ~> \/ at[Main] = "func" /\ cur = s
         \/ f \notin writable
         \/ kq[f] \in Slots \ {s}
         \/ sources[s].cancelled \/ freed \/ ~Running

\* Ready descriptors are served, by the kqueue's sources as well as by GCD's.
Served == ReadServed /\ WriteServed

\* The comment in wl_event_loop_dispatch says it "just needs to wait for something to
\* happen": it would not return at once for a source that was removed.
WaitsForSomething ==
  [][at[Main] = "idle" /\ at'[Main] = "loop"
       => \E s \in events' : ~sources[s].cancelled]_vars
=============================================================================
