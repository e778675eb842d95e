-------------------------- MODULE EventLoopProofs --------------------------
(***************************************************************************)
(* What holds of the event loop for any number of sources and descriptors. *)
(***************************************************************************)
EXTENDS EventLoop, TLAPS

-----------------------------------------------------------------------------
(* The invariant.                                                           *)

\* A source that GCD runs.
OnGcd(s) == sources[s].kind \in {"read", "timer"}

\* The thread that runs source s has yet to begin a callback it is on the way to.
Pending(s) == IF sources[s].kind = "write" THEN at[Main] = "checked" /\ cur = s
                                           ELSE at[s] \in {"enter", "checked"}

\* A source has its dispatch source until it was removed, and one late callback at most.
SourceOK(s) ==
  /\ at[s] # "loop"
  /\ sources[s].kind = "none" => sources[s] = NoSource /\ removedBy[s] = Nobody
  /\ sources[s].kind \in {"read", "write"} => sources[s].fd \in Fds
  /\ ~OnGcd(s) => gcd[s] = "none" /\ ~sources[s].dispatch_src /\ at[s] = "idle"
  /\ OnGcd(s) =>
       /\ sources[s].dispatch_src <=> (removedBy[s] = Nobody)
       /\ gcd[s] \in IF sources[s].dispatch_src /\ ~freed THEN {"inactive", "active"}
                                                          ELSE {"cancelled", "finished"}
  /\ removedBy[s] # Nobody => sources[s].cancelled
  /\ late[s] \in 0..1
  /\ late[s] = 1 => removedBy[s] \notin {Nobody, Runner(s)}
  /\ late[s] = 1 \/ removedBy[s] = Runner(s) => ~Pending(s)

\* What main works on are write sources.
MainOK ==
  /\ at[Main] # "enter"
  /\ at[Main] \in {"checked", "func"} => cur \in Slots /\ sources[cur].kind = "write"
  /\ \A s \in events : sources[s].kind = "write"
  /\ \A f \in Fds : kq[f] # 0 => sources[kq[f]].kind = "write" /\ sources[kq[f]].fd = f
  /\ freed => at[Main] = "idle"

\* What a thread that is in a function may rely on.
CallOK(t) ==
  /\ call[t].op = "none" => call[t] = NoCall
  /\ call[t].op # "none" => ~freed /\ (at[t] = "func" \/ (t = Main /\ at[t] = "idle"))
  /\ call[t].op = "store" => clash \/ call[t].slot \in 1..source_count + 1
  /\ call[t].op = "register" => call[t].slot \in Slots /\ sources[call[t].slot].kind = "write"
  /\ call[t].op \in {"set", "resume"} =>
       call[t].slot \in Slots /\ sources[call[t].slot].kind = "timer"
  /\ call[t].op = "release" =>
       /\ call[t].slot \in Slots /\ sources[call[t].slot].kind # "none"
       /\ sources[call[t].slot].cancelled /\ removedBy[call[t].slot] = Nobody
       /\ \A u \in Threads : call[u].op = "release" /\ call[u].slot = call[t].slot => u = t

\* Adds that do not overlap find the count as they left it.
AddOK(t) ==
  /\ call[t].op = "take" => source_count < MaxSources
  /\ call[t].op = "store" => call[t].slot = source_count + 1 /\ source_count < MaxSources
  /\ call[t].op = "register" => call[t].slot = source_count
  /\ call[t].op \in Adding => \A u \in Threads : call[u].op \in Adding => u = t

\* A function of a thread works on a source.
Uses(t, s) == call[t].op \in {"set", "resume", "release"} /\ call[t].slot = s

\* What a careful caller's function finds.
CareOK(t) ==
  /\ call[t].op = "set" /\ call[t].ms > 0 => gcd[call[t].slot] = "inactive"
  /\ call[t].op = "set" => sources[call[t].slot].dispatch_src
  /\ call[t].op = "resume" =>
       gcd[call[t].slot] = "inactive" /\ sources[call[t].slot].dispatch_src
  /\ call[t].op = "release" => gcd[call[t].slot] # "inactive"
  /\ \A u \in Threads, s \in Slots : Uses(t, s) /\ Uses(u, s) => u = t

\* The filter of a write source's descriptor is that source's or another's.
Filtered(s) == /\ kq[sources[s].fd] # 0
               /\ sources[kq[sources[s].fd]].fd = sources[s].fd
               /\ overlapped \/ kq[sources[s].fd] >= s

\* All sources and threads, additions that never overlapped, and callers that were careful.
SourceInv == \A s \in Slots : SourceOK(s)
CallInv   == \A t \in Threads : CallOK(t)
AddInv    == ~overlapped => ~clash /\ \A t \in Threads : AddOK(t)
CareInv   == ~careless => crash = "no" /\ \A t \in Threads : CareOK(t)

\* A loop that was quiet when it was freed stays so.
QuietInv ==
  /\ touched => freed /\ ~quiet
  /\ freed /\ quiet => \A s \in Slots : /\ at[s] # "enter"
                                        /\ sources[s].kind = "read" => gcd[s] = "finished"

\* The inductive invariant.
Inv == TypeOK /\ SourceInv /\ MainOK /\ CallInv /\ AddInv /\ CareInv /\ QuietInv /\ StillWatched

-----------------------------------------------------------------------------
(* What a step leaves alone.                                                *)

\* Threads are the slots and main; nobody is no thread.
LEMMA ThreadFacts ==
  /\ Slots \subseteq Threads /\ Main \in Threads /\ Main \notin Slots /\ 0 \notin Slots
  /\ Nobody \notin Threads /\ Threads = Slots \cup {Main} /\ Slots \subseteq Nat
  BY MaxSourcesAssumption DEF Slots, Threads, Main, Nobody

\* The types of a call.
Calls == [op : {"none", "take", "store", "register", "set", "resume", "release"},
          slot : 0..MaxSources + 1, ms : 0..1]

\* A thread goes on in a function.
LEMMA GoesFacts ==
  ASSUME TypeOK, NEW t \in Threads, NEW op, NEW s, NEW ms, Goes(t, op, s, ms),
         op \in {"none", "take", "store", "register", "set", "resume", "release"},
         s \in 0..MaxSources + 1, ms \in 0..1
  PROVE  /\ call' \in [Threads -> Calls]
         /\ call'[t].op = op /\ call'[t].slot = s /\ call'[t].ms = ms
         /\ \A u \in Threads \ {t} : call'[u] = call[u]
  BY DEF Goes, TypeOK, Calls

\* A function returns.
LEMMA ReturnFacts ==
  ASSUME TypeOK, NEW t \in Threads, Returns(t)
  PROVE  /\ call' \in [Threads -> Calls] /\ call'[t] = NoCall /\ call'[t].op = "none"
         /\ \A u \in Threads \ {t} : call'[u] = call[u]
<1>1. NoCall \in Calls /\ NoCall.op = "none"
  BY MaxSourcesAssumption DEF Calls, NoCall
<1>2. call \in [Threads -> Calls] /\ call' = [call EXCEPT ![t] = NoCall]
  BY DEF Returns, TypeOK, Calls
<1>3. QED
  BY <1>1, <1>2

\* No filter is lost where no thread gives up a registration and live sources stay as
\* they are.
LEMMA WatchKept ==
  ASSUME Inv, kq' = kq, overlapped => overlapped', freed => freed', crash' = "no" => crash = "no",
         \A t \in Threads : call[t].op = "register" => call'[t] = call[t],
         \A s \in Slots : sources'[s].kind = sources[s].kind /\ sources'[s].fd = sources[s].fd,
         \A s \in Slots : ~sources'[s].cancelled =>
           /\ ~sources[s].cancelled /\ sources'[s].dispatch_src = sources[s].dispatch_src
           /\ gcd[s] \in {"inactive", "active"} => gcd'[s] \in {"inactive", "active"}
  PROVE  StillWatched'
<1>1. SUFFICES ASSUME crash' = "no", ~freed', NEW s \in Slots, sources'[s].kind # "none",
                      ~sources'[s].cancelled
               PROVE  IF sources'[s].kind = "write"
                        THEN Registering(s)' \/ Filtered(s)'
                        ELSE gcd'[s] \in {"inactive", "active"} /\ sources'[s].dispatch_src
  BY DEF StillWatched, Filtered
<1>2. CASE sources[s].kind = "write"
  <2>1. Registering(s) => Registering(s)'
    BY DEF Registering
  <2>2. sources[s].fd \in Fds /\ kq[sources[s].fd] \in Slots \cup {0}
    BY <1>2 DEF Inv, TypeOK, SourceInv, SourceOK
  <2>3. Registering(s) \/ Filtered(s)
    BY <1>1, <1>2 DEF Inv, StillWatched, Filtered
  <2>4. Filtered(s) => Filtered(s)'
    BY <2>2 DEF Filtered
  <2>5. QED
    BY <1>2, <2>1, <2>3, <2>4
<1>3. CASE sources[s].kind # "write"
  BY <1>1, <1>3 DEF Inv, StillWatched
<1>4. QED
  BY <1>2, <1>3

\* A step of a function that changes no source.
LEMMA SourcesKept ==
  ASSUME Inv, UNCHANGED <<kq, sources, gcd, at, events, cur, memory, removal>>,
         overlapped => overlapped', crash' = "no" => crash = "no",
         \A t \in Threads : call[t].op = "register" => call'[t] = call[t]
  PROVE  SourceInv' /\ MainOK' /\ QuietInv' /\ StillWatched'
<1>1. SourceInv'
  BY DEF Inv, SourceInv, SourceOK, OnGcd, Pending, Runner, memory, removal
<1>2. MainOK'
  BY DEF Inv, MainOK, memory
<1>3. QuietInv'
  BY DEF Inv, QuietInv, memory
<1>4. StillWatched'
  BY WatchKept DEF memory
<1>5. QED
  BY <1>1, <1>2, <1>3, <1>4

\* A step outside the functions.
LEMMA CallsKept ==
  ASSUME Inv, UNCHANGED <<call, table, gcd, crash, careless, removedBy, freed>>,
         \A t \in Threads : call[t] # NoCall => at'[t] = at[t]
  PROVE  CallInv' /\ AddInv' /\ CareInv'
<1>1. CallInv'
  BY DEF Inv, CallInv, CallOK, table, NoCall
<1>2. AddInv'
  BY DEF Inv, AddInv, AddOK, table
<1>3. CareInv'
  BY DEF Inv, CareInv, CareOK, Uses, table
<1>4. QED
  BY <1>1, <1>2, <1>3

-----------------------------------------------------------------------------
(* The loop's steps.                                                        *)

\* A descriptor becomes ready.
LEMMA BecomeReadyInv ==
  ASSUME Inv, NEW f \in Fds, BecomeReady(f)
  PROVE  Inv'
<1>1. TypeOK'
  BY DEF BecomeReady, Inv, TypeOK, table, memory, removal
<1>2. SourceInv' /\ MainOK' /\ QuietInv' /\ StillWatched'
  BY SourcesKept DEF BecomeReady, table
<1>3. CallInv' /\ AddInv' /\ CareInv'
  BY CallsKept DEF BecomeReady, removal, memory
<1>4. QED
  BY <1>1, <1>2, <1>3 DEF Inv

\* A descriptor that no source watches is closed.
LEMMA CloseFdInv ==
  ASSUME Inv, NEW f \in Fds, CloseFd(f)
  PROVE  Inv'
<1>1. TypeOK'
  BY DEF CloseFd, Inv, TypeOK, table, memory, removal
<1>2. CallInv' /\ AddInv' /\ CareInv'
  BY CallsKept DEF CloseFd, removal, memory
<1>3. SourceInv' /\ QuietInv'
  BY DEF CloseFd, Inv, SourceInv, SourceOK, OnGcd, Pending, Runner, QuietInv, table, memory, removal
<1>4. MainOK'
  BY DEF CloseFd, Inv, TypeOK, MainOK, table, memory
<1>5. StillWatched'
  BY DEF CloseFd, Inv, TypeOK, SourceInv, SourceOK, StillWatched, Registering, table, memory
<1>6. QED
  BY <1>1, <1>2, <1>3, <1>4, <1>5 DEF Inv

\* A handler starts.
LEMMA FireInv ==
  ASSUME Inv, NEW s \in Slots, Fire(s)
  PROVE  Inv'
<1>1. /\ gcd[s] = "active" /\ at[s] = "idle" /\ at' = [at EXCEPT ![s] = "enter"]
      /\ UNCHANGED <<readable, writable, kq, source_count, sources, overlapped, clash, gcd, call,
                     events, cur, freed, touched, quiet, crash, careless, removedBy, late>>
  BY DEF Fire, ready, table, memory, removal
<1>2. s \in Threads /\ s # Main /\ at'[s] = "enter" /\ \A t \in Threads \ {s} : at'[t] = at[t]
  BY <1>1, ThreadFacts DEF Inv, TypeOK
<1>3. TypeOK'
  BY <1>1 DEF Inv, TypeOK
<1>4. CallInv' /\ AddInv' /\ CareInv'
  <2>1. call[s] = NoCall
    BY <1>1, <1>2 DEF Inv, CallInv, CallOK
  <2>2. QED
    BY <1>1, <1>2, <2>1, CallsKept DEF table
<1>5. ASSUME NEW r \in Slots PROVE SourceOK(r)'
  <2>1. SourceOK(r) /\ r \in Threads
    BY ThreadFacts DEF Inv, SourceInv
  <2>2. CASE r # s
    BY <1>1, <1>2, <2>1, <2>2 DEF SourceOK, OnGcd, Pending, Runner
  <2>3. CASE r = s
    <3>1. OnGcd(s) /\ sources[s].dispatch_src /\ ~freed /\ removedBy[s] = Nobody /\ late[s] = 0
      BY <1>1, <2>1, <2>3 DEF SourceOK
    <3>2. removedBy[s] # Runner(s)
      BY <3>1, ThreadFacts DEF Runner
    <3>3. QED
      BY <1>1, <1>2, <2>1, <2>3, <3>1, <3>2 DEF SourceOK, OnGcd, Runner
  <2>4. QED
    BY <2>2, <2>3
<1>6. MainOK'
  BY <1>1, <1>2, ThreadFacts DEF Inv, MainOK
<1>7. QuietInv'
  BY <1>1 DEF Inv, QuietInv, SourceInv, SourceOK
<1>8. StillWatched'
  BY <1>1 DEF Inv, StillWatched, Registering
<1>9. QED
  BY <1>3, <1>4, <1>5, <1>6, <1>7, <1>8 DEF Inv, SourceInv

\* The handler's test of cancelled.
LEMMA CheckInv ==
  ASSUME Inv, NEW s \in Slots, Check(s)
  PROVE  Inv'
<1>1. PICK a \in {"idle", "checked"} : at' = [at EXCEPT ![s] = a]
  BY DEF Check
<1>2. /\ at[s] = "enter" /\ touched' = (touched \/ freed)
      /\ UNCHANGED <<readable, writable, kq, source_count, sources, overlapped, clash, gcd, call,
                     events, cur, freed, quiet, crash, careless, removedBy, late>>
  BY DEF Check, Touch, ready, table, removal
<1>3. /\ s \in Threads /\ s # Main /\ at'[s] = a
      /\ \A t \in Threads \ {s} : at'[t] = at[t]
  BY <1>1, ThreadFacts DEF Inv, TypeOK
<1>4. TypeOK'
  BY <1>1, <1>2 DEF Inv, TypeOK
<1>5. CallInv' /\ AddInv' /\ CareInv'
  <2>1. call[s] = NoCall
    BY <1>2, <1>3 DEF Inv, CallInv, CallOK
  <2>2. QED
    BY <1>2, <1>3, <2>1, CallsKept DEF table
<1>6. ASSUME NEW r \in Slots PROVE SourceOK(r)'
  <2>1. SourceOK(r) /\ r \in Threads
    BY ThreadFacts DEF Inv, SourceInv
  <2>2. CASE r # s
    BY <1>2, <1>3, <2>1, <2>2, ThreadFacts DEF SourceOK, OnGcd, Pending, Runner
  <2>3. CASE r = s
    BY <1>2, <1>3, <2>1, <2>3 DEF SourceOK, OnGcd, Pending, Runner
  <2>4. QED
    BY <2>2, <2>3
<1>7. MainOK'
  BY <1>2, <1>3, ThreadFacts DEF Inv, MainOK
<1>8. QuietInv'
  <2>1. freed => ~quiet
    BY <1>2 DEF Inv, QuietInv
  <2>2. touched' => freed' /\ ~quiet'
    BY <1>2, <2>1 DEF Inv, QuietInv
  <2>3. QED
    BY <1>2, <2>1, <2>2 DEF QuietInv
<1>9. StillWatched'
  BY <1>2 DEF Inv, StillWatched, Registering
<1>10. QED
  BY <1>4, <1>5, <1>6, <1>7, <1>8, <1>9 DEF Inv, SourceInv

\* A callback begins; one that begins late was on its way before the source was removed.
LEMMA FuncInv ==
  ASSUME Inv, NEW t \in Threads, Func(t)
  PROVE  Inv'
<1>1. /\ at[t] = "checked" /\ at' = [at EXCEPT ![t] = "func"]
      /\ UNCHANGED <<kq, source_count, sources, overlapped, clash, gcd, call,
                     events, cur, freed, touched, quiet, crash, careless, removedBy>>
  BY DEF Func, table, memory
<1>2. PICK w \in Slots : w = Work(t)
  BY <1>1, ThreadFacts DEF Work, Inv, MainOK
<1>3. /\ late' = IF removedBy[w] = Nobody THEN late ELSE [late EXCEPT ![w] = @ + 1]
      /\ readable' \subseteq readable /\ writable' \subseteq writable
  BY <1>2 DEF Func
<1>4. at'[t] = "func" /\ \A u \in Threads \ {t} : at'[u] = at[u]
  BY <1>1 DEF Inv, TypeOK
<1>5. /\ Pending(w) /\ t = Runner(w) /\ w \in Threads
      /\ \A r \in Slots \ {w} : t # r /\ (t = Main => cur # r)
  <2>1. CASE t = Main
    BY <1>1, <1>2, <2>1, ThreadFacts DEF Work, Inv, MainOK, Pending, Runner
  <2>2. CASE t # Main
    <3>1. t = w /\ sources[w].kind # "write"
      BY <1>1, <1>2, <2>2, ThreadFacts DEF Work, Inv, SourceInv, SourceOK, OnGcd
    <3>2. QED
      BY <1>1, <2>2, <3>1 DEF Pending, Runner
  <2>3. QED
    BY <2>1, <2>2
<1>6. SourceOK(w)
  BY DEF Inv, SourceInv
<1>7. late[w] = 0 /\ removedBy[w] # Runner(w)
  BY <1>5, <1>6 DEF SourceOK
<1>8. /\ late' \in [Slots -> Nat] /\ \A r \in Slots \ {w} : late'[r] = late[r]
      /\ late'[w] = IF removedBy[w] = Nobody THEN 0 ELSE 1
  <2>1. CASE removedBy[w] = Nobody
    BY <1>3, <1>7, <2>1 DEF Inv, TypeOK
  <2>2. CASE removedBy[w] # Nobody
    <3>1. late \in [Slots -> Nat] /\ late' = [late EXCEPT ![w] = 1]
      <4>1. late \in [Slots -> Nat] /\ late' = [late EXCEPT ![w] = late[w] + 1]
        BY <1>3, <2>2 DEF Inv, TypeOK
      <4>2. late[w] + 1 = 1
        BY <1>7
      <4>3. QED
        BY <4>1, <4>2
    <3>2. QED
      BY <2>2, <3>1
  <2>3. QED
    BY <2>1, <2>2
<1>9. TypeOK'
  BY <1>1, <1>3, <1>8 DEF Inv, TypeOK
<1>10. CallInv' /\ AddInv' /\ CareInv'
  <2>1. call[t] = NoCall
    BY <1>1 DEF Inv, CallInv, CallOK
  <2>2. QED
    BY <1>1, <1>4, <2>1, CallsKept DEF table
<1>11. ASSUME NEW r \in Slots PROVE SourceOK(r)'
  <2>1. SourceOK(r) /\ r \in Threads
    BY ThreadFacts DEF Inv, SourceInv
  <2>2. CASE r # w
    <3>1. at'[r] = at[r] /\ late'[r] = late[r] /\ (Pending(r)' => Pending(r))
      BY <1>1, <1>4, <1>5, <1>8, <2>1, <2>2, ThreadFacts DEF Pending
    <3>2. QED
      BY <1>1, <2>1, <3>1 DEF SourceOK, OnGcd, Runner
  <2>3. CASE r = w
    <3>1. ~Pending(w)'
      BY <1>1, <1>4, <1>5 DEF Pending, Runner
    <3>2. at'[w] \in {at[w], "func"} /\ (~OnGcd(w) => at'[w] = at[w])
      <4>1. sources[w].kind \in Kinds \cup {"none"}
        BY DEF Inv, TypeOK
      <4>2. CASE sources[w].kind = "write"
        BY <1>4, <1>5, <4>2, ThreadFacts DEF Runner
      <4>3. CASE sources[w].kind # "write"
        BY <1>4, <1>5, <1>6, <4>1, <4>3 DEF Kinds, OnGcd, SourceOK, Pending
      <4>4. QED
        BY <4>2, <4>3
    <3>3. Runner(w)' = Runner(w) /\ OnGcd(w)' = OnGcd(w)
      BY <1>1 DEF Runner, OnGcd
    <3>4. QED
      BY <1>1, <1>6, <1>7, <1>8, <2>3, <3>1, <3>2, <3>3 DEF SourceOK
  <2>4. QED
    BY <2>2, <2>3
<1>12. MainOK'
  BY <1>1, <1>4, ThreadFacts DEF Inv, MainOK
<1>13. QuietInv'
  BY <1>1, <1>4, ThreadFacts DEF Inv, QuietInv
<1>14. StillWatched'
  BY <1>1 DEF Inv, StillWatched, Registering
<1>15. QED
  BY <1>9, <1>10, <1>11, <1>12, <1>13, <1>14 DEF Inv, SourceInv

\* A callback returns.
LEMMA ReturnInv ==
  ASSUME Inv, NEW t \in Threads, Return(t)
  PROVE  Inv'
<1>1. PICK a \in {"idle", "loop"} : /\ a = IF t = Main THEN "loop" ELSE "idle"
                                    /\ at' = [at EXCEPT ![t] = a]
  BY DEF Return
<1>2. /\ at[t] = "func" /\ call[t] = NoCall /\ cur' = IF t = Main THEN 0 ELSE cur
      /\ UNCHANGED <<readable, writable, kq, source_count, sources, overlapped, clash, gcd, call,
                     events, freed, touched, quiet, crash, careless, removedBy, late>>
  BY DEF Return, ready, table, memory, removal
<1>3. at'[t] = a /\ \A u \in Threads \ {t} : at'[u] = at[u]
  BY <1>1 DEF Inv, TypeOK
<1>4. TypeOK'
  BY <1>1, <1>2 DEF Inv, TypeOK
<1>5. CallInv' /\ AddInv' /\ CareInv'
  BY <1>2, <1>3, CallsKept DEF table
<1>6. ASSUME NEW r \in Slots PROVE SourceOK(r)'
  <2>1. SourceOK(r) /\ r \in Threads /\ r # Main
    BY ThreadFacts DEF Inv, SourceInv
  <2>2. at'[r] \in {at[r], "idle"} /\ (Pending(r)' => Pending(r))
    BY <1>1, <1>2, <1>3, <2>1, ThreadFacts DEF Pending
  <2>3. QED
    BY <1>2, <2>1, <2>2 DEF SourceOK, OnGcd, Runner
<1>7. MainOK'
  BY <1>1, <1>2, <1>3, ThreadFacts DEF Inv, MainOK
<1>8. QuietInv'
  BY <1>1, <1>2, <1>3, ThreadFacts DEF Inv, QuietInv
<1>9. StillWatched'
  BY <1>2 DEF Inv, StillWatched, Registering
<1>10. QED
  BY <1>4, <1>5, <1>6, <1>7, <1>8, <1>9 DEF Inv, SourceInv

\* The cancel handler.
LEMMA CancelHandlerInv ==
  ASSUME Inv, NEW s \in Slots, CancelHandler(s)
  PROVE  Inv'
<1>1. /\ gcd[s] = "cancelled" /\ at[s] = "idle" /\ gcd' = [gcd EXCEPT ![s] = "finished"]
      /\ sources' \in {sources, [sources EXCEPT ![s].cancelled = TRUE]}
      /\ touched' = IF sources[s].kind = "read" THEN touched \/ freed ELSE touched
      /\ UNCHANGED <<readable, writable, kq, source_count, overlapped, clash, at, call,
                     events, cur, freed, quiet, crash, careless, removedBy, late>>
  BY DEF CancelHandler, Touch, ready, removal
<1>2. /\ sources' \in [Slots -> [kind : Kinds \cup {"none"}, fd : Fds \cup {NoFd},
                                cancelled : BOOLEAN, dispatch_src : BOOLEAN]]
      /\ \A r \in Slots : /\ sources'[r].kind = sources[r].kind /\ sources'[r].fd = sources[r].fd
                          /\ sources'[r].dispatch_src = sources[r].dispatch_src
                          /\ sources[r].cancelled => sources'[r].cancelled
                          /\ r # s => sources'[r] = sources[r]
      /\ gcd'[s] = "finished" /\ \A r \in Slots \ {s} : gcd'[r] = gcd[r]
  <2>1. gcd'[s] = "finished" /\ \A r \in Slots \ {s} : gcd'[r] = gcd[r]
    BY <1>1 DEF Inv, TypeOK
  <2>2. CASE sources' = sources
    BY <2>1, <2>2 DEF Inv, TypeOK
  <2>3. CASE sources' = [sources EXCEPT ![s].cancelled = TRUE]
    <3>1. sources \in [Slots -> [kind : Kinds \cup {"none"}, fd : Fds \cup {NoFd},
                                cancelled : BOOLEAN, dispatch_src : BOOLEAN]]
      BY DEF Inv, TypeOK
    <3>2. QED
      BY <2>1, <2>3, <3>1
  <2>4. QED
    BY <1>1, <2>2, <2>3
<1>3. TypeOK'
  <2>1. {r \in Slots : sources'[r].kind # "none"} = {r \in Slots : sources[r].kind # "none"}
    BY <1>2
  <2>2. gcd' \in [Slots -> {"none", "inactive", "active", "cancelled", "finished"}]
    BY <1>1 DEF Inv, TypeOK
  <2>3. QED
    BY <1>1, <1>2, <2>1, <2>2 DEF Inv, TypeOK
<1>4. CallInv'
  BY <1>1, <1>2 DEF Inv, CallInv, CallOK
<1>5. AddInv'
  BY <1>1 DEF Inv, AddInv, AddOK
<1>6. CareInv'
  <2>1. ASSUME NEW t \in Threads, CareOK(t), CallOK(t) PROVE CareOK(t)'
    BY <1>1, <1>2, <2>1 DEF CareOK, CallOK, Uses
  <2>2. QED
    BY <1>1, <2>1 DEF Inv, CareInv, CallInv
<1>7. ASSUME NEW r \in Slots PROVE SourceOK(r)'
  <2>1. SourceOK(r) /\ SourceOK(s)
    BY DEF Inv, SourceInv
  <2>2. Runner(r)' = Runner(r) /\ OnGcd(r)' = OnGcd(r) /\ Pending(r)' = Pending(r)
    BY <1>1, <1>2 DEF Runner, OnGcd, Pending
  <2>3. CASE r # s
    BY <1>1, <1>2, <2>1, <2>2, <2>3 DEF SourceOK
  <2>4. CASE r = s
    <3>1. OnGcd(s) /\ sources[s].kind # "none"
      BY <1>1, <2>1 DEF SourceOK, OnGcd
    <3>2. QED
      BY <1>1, <1>2, <2>1, <2>2, <2>4, <3>1 DEF SourceOK
  <2>5. QED
    BY <2>3, <2>4
<1>8. MainOK'
  <2>1. events \subseteq Slots /\ \A f \in Fds : kq[f] # 0 => kq[f] \in Slots
    BY DEF Inv, TypeOK
  <2>2. \A r \in Slots : sources'[r].kind = sources[r].kind /\ sources'[r].fd = sources[r].fd
    BY <1>2
  <2>3. QED
    BY <1>1, <2>1, <2>2 DEF Inv, MainOK
<1>9. QuietInv'
  <2>1. touched' => freed' /\ ~quiet'
    BY <1>1 DEF Inv, QuietInv
  <2>2. QED
    BY <1>1, <1>2, <2>1 DEF Inv, QuietInv
<1>10. StillWatched'
  <2>1. crash = "no" /\ ~freed => sources[s].cancelled
    BY <1>1 DEF Inv, SourceInv, SourceOK, OnGcd
  <2>2. QED
    BY <1>1, <1>2, <2>1, WatchKept DEF Inv, TypeOK
<1>11. QED
  BY <1>3, <1>4, <1>5, <1>6, <1>7, <1>8, <1>9, <1>10 DEF Inv, SourceInv

\* Main's steps in dispatch: no handler moves, and main works on a source that is not removed.
LEMMA MainMoves ==
  ASSUME Inv, NEW a \in {"idle", "loop", "checked"}, at' = [at EXCEPT ![Main] = a],
         call[Main] = NoCall, freed => a = "idle",
         events' \subseteq Slots, \A s \in events' : sources[s].kind = "write",
         cur' \in Slots \cup {0},
         a = "checked" => cur' \in Slots /\ sources[cur'].kind = "write" /\ ~sources[cur'].cancelled,
         UNCHANGED <<ready, kq, table, gcd, call, memory, crash, careless, removal>>
  PROVE  Inv'
<1>1. at'[Main] = a /\ \A s \in Slots : at'[s] = at[s]
  BY ThreadFacts DEF Inv, TypeOK
<1>2. UNCHANGED <<readable, writable, kq, source_count, sources, overlapped, clash, gcd, call,
                  freed, touched, quiet, crash, careless, removedBy, late>>
  BY DEF ready, table, memory, removal
<1>3. TypeOK'
  BY <1>2, ThreadFacts DEF Inv, TypeOK
<1>4. CallInv' /\ AddInv' /\ CareInv'
  BY <1>1, <1>2, ThreadFacts, CallsKept DEF table
<1>5. ASSUME NEW r \in Slots PROVE SourceOK(r)'
  <2>1. SourceOK(r) /\ r \in Threads
    BY ThreadFacts DEF Inv, SourceInv
  <2>2. Pending(r)' => Pending(r) \/ ~sources[r].cancelled
    BY <1>1, <1>2 DEF Pending
  <2>3. Pending(r)' => removedBy[r] = Nobody \/ Pending(r)
    BY <2>1, <2>2 DEF SourceOK
  <2>4. late[r] = 1 => removedBy[r] # Nobody
    BY <2>1 DEF SourceOK
  <2>5. Runner(r) # Nobody
    BY <2>1, ThreadFacts DEF Runner
  <2>6. Runner(r)' = Runner(r) /\ OnGcd(r)' = OnGcd(r)
    BY <1>2 DEF Runner, OnGcd
  <2>7. QED
    BY <1>1, <1>2, <2>1, <2>3, <2>4, <2>5, <2>6 DEF SourceOK
<1>6. MainOK'
  BY <1>1, <1>2 DEF Inv, MainOK
<1>7. QuietInv' /\ StillWatched'
  BY <1>1, <1>2 DEF Inv, QuietInv, StillWatched, Registering
<1>8. QED
  BY <1>3, <1>4, <1>5, <1>6, <1>7 DEF Inv, SourceInv

\* Main fetches the sources of the descriptors that are writable.
LEMMA KeventInv == ASSUME Inv, Kevent PROVE Inv'
<1>1. /\ events' \subseteq Slots /\ \A s \in events' : sources[s].kind = "write"
  <2>1. events' = {kq[f] : f \in writable} \ {0}
    BY DEF Kevent
  <2>2. /\ writable \subseteq Fds /\ kq \in [Fds -> Slots \cup {0}]
        /\ \A f \in Fds : kq[f] # 0 => sources[kq[f]].kind = "write"
    BY DEF Inv, TypeOK, MainOK
  <2>3. QED
    BY <2>1, <2>2
<1>2. /\ at' = [at EXCEPT ![Main] = "loop"] /\ call[Main] = NoCall /\ ~freed
      /\ UNCHANGED <<ready, kq, table, gcd, call, cur, memory, crash, careless, removal>>
  BY DEF Kevent, MayCall
<1>3. cur' \in Slots \cup {0}
  BY <1>2 DEF Inv, TypeOK
<1>4. QED
  BY <1>1, <1>2, <1>3, MainMoves

\* Main skips a source that was removed, or is about to call it.
LEMMA NextEventInv == ASSUME Inv, NextEvent PROVE Inv'
<1>1. PICK s \in events :
        /\ events' = events \ {s}
        /\ \/ sources[s].cancelled /\ UNCHANGED <<at, cur>>
           \/ ~sources[s].cancelled /\ cur' = s /\ at' = [at EXCEPT ![Main] = "checked"]
  BY DEF NextEvent, LooksCancelled
<1>2. /\ at[Main] = "loop"
      /\ UNCHANGED <<ready, kq, table, gcd, call, memory, crash, careless, removal>>
  BY DEF NextEvent
<1>3. /\ call[Main] = NoCall /\ ~freed /\ s \in Slots /\ sources[s].kind = "write"
      /\ events' \subseteq Slots /\ \A r \in events' : sources[r].kind = "write"
      /\ cur \in Slots \cup {0} /\ at \in [Threads -> {"idle", "enter", "checked", "func", "loop"}]
  BY <1>1, <1>2, ThreadFacts DEF Inv, TypeOK, MainOK, CallInv, CallOK
<1>4. CASE UNCHANGED <<at, cur>>
  <2>1. at' = [at EXCEPT ![Main] = "loop"] /\ cur' \in Slots \cup {0}
    BY <1>2, <1>3, <1>4
  <2>2. QED
    BY <1>2, <1>3, <2>1, MainMoves
<1>5. CASE ~sources[s].cancelled /\ cur' = s /\ at' = [at EXCEPT ![Main] = "checked"]
  BY <1>2, <1>3, <1>5, MainMoves
<1>6. QED
  BY <1>1, <1>4, <1>5

\* Main returns from dispatch.
LEMMA DispatchEndInv == ASSUME Inv, DispatchEnd PROVE Inv'
<1>1. /\ at[Main] = "loop" /\ at' = [at EXCEPT ![Main] = "idle"]
      /\ UNCHANGED <<ready, kq, table, gcd, call, events, cur, memory, crash, careless, removal>>
  BY DEF DispatchEnd
<1>2. /\ call[Main] = NoCall /\ ~freed
      /\ events' \subseteq Slots /\ \A r \in events' : sources[r].kind = "write"
      /\ cur' \in Slots \cup {0}
  BY <1>1, ThreadFacts DEF Inv, TypeOK, MainOK, CallInv, CallOK
<1>3. QED
  BY <1>1, <1>2, MainMoves

-----------------------------------------------------------------------------
(* The functions.                                                           *)

\* An add finds room in the table.
LEMMA AddCheckInv ==
  ASSUME Inv, NEW t \in Threads, AddCheck(t)
  PROVE  Inv'
<1>1. /\ MayCall(t) /\ source_count < MaxSources
      /\ overlapped' = (overlapped \/ \E u \in Threads : call[u].op \in Adding)
      /\ UNCHANGED <<readable, writable, kq, source_count, sources, clash, gcd, at, events, cur,
                     freed, touched, quiet, crash, careless, removedBy, late>>
  BY DEF AddCheck, ready, memory, removal
<1>2. /\ call' \in [Threads -> Calls] /\ call'[t].op = "take" /\ call'[t].slot = 0
      /\ \A u \in Threads \ {t} : call'[u] = call[u]
  <2>1. Goes(t, "take", 0, 0) /\ 0 \in 0..MaxSources + 1
    BY MaxSourcesAssumption DEF AddCheck
  <2>2. QED
    BY <2>1, GoesFacts DEF Inv
<1>3. TypeOK'
  BY <1>1, <1>2 DEF Inv, TypeOK, Calls
<1>4. SourceInv' /\ MainOK' /\ QuietInv' /\ StillWatched'
  <2>1. call[t].op # "register"
    BY <1>1 DEF MayCall, NoCall
  <2>2. QED
    BY <1>1, <1>2, <2>1, SourcesKept DEF memory, removal
<1>5. CallInv'
  <2>1. ASSUME NEW u \in Threads PROVE CallOK(u)'
    <3>1. CallOK(u)
      BY DEF Inv, CallInv
    <3>2. CASE u = t
      BY <1>1, <1>2, <3>2 DEF CallOK, MayCall
    <3>3. CASE u # t
      BY <1>1, <1>2, <3>1, <3>3 DEF CallOK
    <3>4. QED
      BY <3>2, <3>3
  <2>2. QED
    BY <2>1 DEF CallInv
<1>6. AddInv'
  <2>1. ASSUME NEW u \in Threads, ~overlapped' PROVE AddOK(u)'
    <3>1. \A v \in Threads : call[v].op \notin Adding
      BY <1>1, <2>1
    <3>2. QED
      BY <1>1, <1>2, <3>1 DEF AddOK, Adding
  <2>2. ~overlapped' => ~clash'
    BY <1>1 DEF Inv, AddInv
  <2>3. QED
    BY <2>1, <2>2 DEF AddInv
<1>7. CareInv'
  <2>1. ASSUME NEW u \in Threads, CareOK(u) PROVE CareOK(u)'
    BY <1>1, <1>2, <2>1 DEF CareOK, Uses
  <2>2. QED
    BY <1>1, <2>1 DEF Inv, CareInv
<1>8. QED
  BY <1>3, <1>4, <1>5, <1>6, <1>7 DEF Inv

\* An add reads the count.
LEMMA AddTakeInv ==
  ASSUME Inv, NEW t \in Threads, AddTake(t)
  PROVE  Inv'
<1>1. /\ call[t].op = "take"
      /\ UNCHANGED <<readable, writable, kq, source_count, sources, overlapped, clash, gcd, at,
                     events, cur, freed, touched, quiet, crash, careless, removedBy, late>>
  BY DEF AddTake, ready, table, memory, removal
<1>2. source_count + 1 \in 1..MaxSources + 1
  <2>1. {s \in Slots : sources[s].kind # "none"} = 1..source_count /\ source_count \in Nat
    BY MaxSourcesAssumption DEF AddTake, Running, Inv, TypeOK
  <2>2. source_count = 0 \/ source_count \in Slots
    BY <2>1
  <2>3. QED
    BY <2>2, MaxSourcesAssumption DEF Slots
<1>3. /\ call' \in [Threads -> Calls] /\ call'[t].op = "store" /\ call'[t].slot = source_count + 1
      /\ \A u \in Threads \ {t} : call'[u] = call[u]
  <2>1. Goes(t, "store", source_count + 1, 0) /\ source_count + 1 \in 0..MaxSources + 1
    BY <1>2, MaxSourcesAssumption DEF AddTake
  <2>2. QED
    BY <2>1, GoesFacts DEF Inv
<1>4. TypeOK'
  BY <1>1, <1>3 DEF Inv, TypeOK, Calls
<1>5. SourceInv' /\ MainOK' /\ QuietInv' /\ StillWatched'
  BY <1>1, <1>3, SourcesKept DEF memory, removal
<1>6. CallInv'
  <2>1. ASSUME NEW u \in Threads PROVE CallOK(u)'
    <3>1. CallOK(u) /\ CallOK(t)
      BY DEF Inv, CallInv
    <3>2. CASE u = t
      BY <1>1, <1>2, <1>3, <3>1, <3>2 DEF CallOK
    <3>3. CASE u # t
      BY <1>1, <1>3, <3>1, <3>3 DEF CallOK
    <3>4. QED
      BY <3>2, <3>3
  <2>2. QED
    BY <2>1 DEF CallInv
<1>7. AddInv'
  <2>1. ASSUME NEW u \in Threads, ~overlapped PROVE AddOK(u)'
    <3>1. AddOK(u) /\ AddOK(t)
      BY <2>1 DEF Inv, AddInv
    <3>2. QED
      BY <1>1, <1>3, <3>1 DEF AddOK, Adding
  <2>2. QED
    BY <1>1, <2>1 DEF Inv, AddInv
<1>8. CareInv'
  <2>1. ASSUME NEW u \in Threads, CareOK(u) PROVE CareOK(u)'
    BY <1>1, <1>3, <2>1 DEF CareOK, Uses
  <2>2. QED
    BY <1>1, <2>1 DEF Inv, CareInv
<1>9. QED
  BY <1>4, <1>5, <1>6, <1>7, <1>8 DEF Inv

\* Before a clash, an entry that is free and that an add may have read is the next one.
LEMMA NextEntry ==
  ASSUME Inv, ~clash, NEW s \in Slots, sources[s] = NoSource, s \in 1..source_count + 1
  PROVE  /\ s = source_count + 1 /\ source_count \in 0..MaxSources
         /\ \A r \in Slots : sources[r].kind # "none" => r < s
<1>1. {r \in Slots : sources[r].kind # "none"} = 1..source_count /\ source_count \in 0..MaxSources + 1
  BY DEF Inv, TypeOK
<1>2. s \notin 1..source_count
  BY <1>1 DEF NoSource
<1>3. s = source_count + 1 /\ source_count \in 0..MaxSources
  BY <1>1, <1>2, MaxSourcesAssumption DEF Slots
<1>4. QED
  BY <1>1, <1>3, MaxSourcesAssumption DEF Slots

\* The entry that an add fills in.
NewSource(kind, fd) == [kind |-> kind, fd |-> IF kind = "timer" THEN NoFd ELSE fd,
                        cancelled |-> FALSE, dispatch_src |-> kind # "write"]

\* An add takes a free entry.
LEMMA AddFreeInv ==
  ASSUME Inv, NEW t \in Threads, AddStore(t), NEW s \in Slots, s = call[t].slot,
         sources[s] = NoSource
  PROVE  Inv'
<1>1. PICK kind \in Kinds, fd \in Fds :
        /\ sources' = [sources EXCEPT ![s] = NewSource(kind, fd)]
        /\ gcd' = [gcd EXCEPT ![s] = NewGcd(kind)]
        /\ IF kind = "write" THEN Goes(t, "register", s, 0) ELSE Returns(t)
  BY DEF AddStore, NewSource
<1>2. /\ call[t].op = "store" /\ Running /\ source_count' = s
      /\ UNCHANGED <<readable, writable, kq, clash, overlapped, at, events, cur, freed, touched, quiet,
                     crash, careless, removedBy, late>>
  BY <1>1 DEF AddStore, NewCount, ready, memory, removal
<1>3. /\ s = source_count + 1 /\ source_count \in 0..MaxSources /\ ~clash
      /\ \A r \in Slots : sources[r].kind # "none" => r < s
  <2>1. s \in 1..source_count + 1
    BY <1>2 DEF Running, Inv, CallInv, CallOK
  <2>2. QED
    BY <1>2, <2>1, NextEntry DEF Running
<1>4. /\ call' \in [Threads -> Calls] /\ \A u \in Threads \ {t} : call'[u] = call[u]
      /\ \/ kind # "write" /\ call'[t] = NoCall /\ call'[t].op = "none"
         \/ kind = "write" /\ call'[t].op = "register" /\ call'[t].slot = s
  <2>1. s \in 0..MaxSources + 1 /\ 0 \in 0..1
    BY MaxSourcesAssumption DEF Slots
  <2>2. CASE kind # "write"
    BY <1>1, <2>2, ReturnFacts DEF Inv
  <2>3. CASE kind = "write"
    <3>1. Goes(t, "register", s, 0)
      BY <1>1, <2>3
    <3>2. QED
      BY <2>1, <2>3, <3>1, GoesFacts DEF Inv
  <2>4. QED
    BY <2>2, <2>3
<1>5. PICK n \in [kind : Kinds \cup {"none"}, fd : Fds \cup {NoFd},
                  cancelled : BOOLEAN, dispatch_src : BOOLEAN] :
        /\ n = NewSource(kind, fd) /\ n.kind = kind /\ ~n.cancelled
        /\ n.dispatch_src = (kind # "write") /\ (kind # "timer" => n.fd = fd)
  <2>1. PICK n : n = NewSource(kind, fd)
    OBVIOUS
  <2>2. PICK d : d = IF kind = "timer" THEN NoFd ELSE fd
    OBVIOUS
  <2>3. d \in Fds \cup {NoFd} /\ (kind # "timer" => d = fd)
    BY <2>2
  <2>4. PICK b \in BOOLEAN : b = (kind # "write")
    OBVIOUS
  <2>5. n = [kind |-> kind, fd |-> d, cancelled |-> FALSE, dispatch_src |-> b]
    BY <2>1, <2>2, <2>4 DEF NewSource
  <2>6. n \in [kind : Kinds \cup {"none"}, fd : Fds \cup {NoFd},
               cancelled : BOOLEAN, dispatch_src : BOOLEAN]
    BY <2>3, <2>5
  <2>7. n.kind = kind /\ ~n.cancelled /\ n.dispatch_src = b /\ n.fd = d
    BY <2>5
  <2>8. QED
    BY <2>1, <2>3, <2>4, <2>6, <2>7
<1>6. /\ sources' \in [Slots -> [kind : Kinds \cup {"none"}, fd : Fds \cup {NoFd},
                                cancelled : BOOLEAN, dispatch_src : BOOLEAN]]
      /\ sources'[s] = n /\ \A r \in Slots \ {s} : sources'[r] = sources[r]
  BY <1>1, <1>5 DEF Inv, TypeOK
<1>7. /\ gcd' \in [Slots -> {"none", "inactive", "active", "cancelled", "finished"}]
      /\ gcd'[s] = NewGcd(kind) /\ \A r \in Slots \ {s} : gcd'[r] = gcd[r]
      /\ NewGcd(kind) = IF kind = "write" THEN "none" ELSE IF kind = "read" THEN "active"
                                                           ELSE "inactive"
  <2>1. /\ NewGcd(kind) \in {"none", "inactive", "active"}
        /\ NewGcd(kind) = IF kind = "write" THEN "none" ELSE IF kind = "read" THEN "active"
                                                             ELSE "inactive"
    BY DEF NewGcd, Kinds
  <2>2. QED
    BY <1>1, <2>1 DEF Inv, TypeOK
<1>8. /\ sources[s].kind = "none" /\ removedBy[s] = Nobody /\ at[s] = "idle" /\ late[s] = 0
      /\ ~freed /\ s \in Threads /\ s # Main
  <2>1. sources[s].kind = "none"
    BY DEF NoSource
  <2>2. SourceOK(s) /\ CallOK(t)
    BY DEF Inv, SourceInv, CallInv
  <2>3. late[s] # 1
    BY <2>1, <2>2 DEF SourceOK
  <2>4. QED
    BY <1>2, <2>1, <2>2, <2>3, ThreadFacts DEF SourceOK, CallOK, OnGcd
<1>9. TypeOK'
  <2>1. {r \in Slots : sources'[r].kind # "none"} = 1..source_count'
    <3>1. {r \in Slots : sources[r].kind # "none"} = 1..source_count
      BY <1>3 DEF Inv, TypeOK
    <3>2. ASSUME NEW r \in Slots PROVE sources'[r].kind # "none" <=> r \in 1..source_count'
      BY <1>2, <1>3, <1>5, <1>6, <3>1 DEF Kinds, Slots
    <3>3. 1..source_count' \subseteq Slots
      BY <1>2, MaxSourcesAssumption DEF Slots
    <3>4. QED
      BY <3>2, <3>3
  <2>2. source_count' \in 0..MaxSources + 1
    BY <1>2, MaxSourcesAssumption DEF Slots
  <2>3. QED
    BY <1>2, <1>4, <1>6, <1>7, <2>1, <2>2 DEF Inv, TypeOK, Calls
<1>10. ASSUME NEW r \in Slots PROVE SourceOK(r)'
  <2>1. SourceOK(r) /\ r \in Threads
    BY ThreadFacts DEF Inv, SourceInv
  <2>2. CASE r # s
    <3>1. /\ sources'[r] = sources[r] /\ gcd'[r] = gcd[r] /\ Runner(r)' = Runner(r)
          /\ OnGcd(r)' = OnGcd(r) /\ Pending(r)' = Pending(r)
      BY <1>2, <1>6, <1>7, <2>2 DEF Runner, OnGcd, Pending
    <3>2. QED
      BY <1>2, <2>1, <3>1 DEF SourceOK
  <2>3. CASE r = s
    <3>1. /\ OnGcd(s)' <=> kind \in {"read", "timer"}
          /\ Runner(s)' \in Threads
      BY <1>5, <1>6, <1>8, ThreadFacts DEF OnGcd, Runner
    <3>2. kind \in {"read", "write", "timer"}
      BY DEF Kinds
    <3>3. removedBy'[s] = Nobody /\ late'[s] = 0 /\ at'[s] = "idle" /\ ~freed' /\ Nobody \notin Threads
      BY <1>2, <1>8, ThreadFacts
    <3>4. QED
      BY <1>5, <1>6, <1>7, <2>3, <3>1, <3>2, <3>3 DEF SourceOK
  <2>4. QED
    BY <2>2, <2>3
<1>11. MainOK'
  <2>1. \A r \in Slots : sources[r].kind = "write" => sources'[r] = sources[r]
    BY <1>6, <1>8
  <2>2. events \subseteq Slots /\ \A f \in Fds : kq[f] # 0 => kq[f] \in Slots
    BY DEF Inv, TypeOK
  <2>3. QED
    BY <1>2, <2>1, <2>2 DEF Inv, MainOK
<1>12. CallInv'
  <2>1. ASSUME NEW u \in Threads PROVE CallOK(u)'
    <3>1. CallOK(u) /\ source_count' = source_count + 1 /\ source_count \in Nat
      BY <1>2, <1>3 DEF Inv, CallInv
    <3>2. CASE u = t
      BY <1>2, <1>4, <1>5, <1>6, <1>8, <3>1, <3>2 DEF CallOK
    <3>3. CASE u # t
      <4>1. call'[u] = call[u]
        BY <1>4, <3>3
      <4>2. call[u].op = "store" => call[u].slot \in 1..source_count' + 1
        BY <1>3, <3>1 DEF CallOK
      <4>3. call[u].op \in {"register", "set", "resume", "release"} =>
              call[u].slot \in Slots /\ sources'[call[u].slot] = sources[call[u].slot]
        BY <1>6, <1>8, <3>1 DEF CallOK
      <4>4. ASSUME NEW v \in Threads, call'[v].op = "release"
            PROVE  call[v].op = "release" /\ call'[v] = call[v]
        BY <1>4, <4>4
      <4>5. QED
        BY <1>2, <3>1, <4>1, <4>2, <4>3, <4>4 DEF CallOK
    <3>4. QED
      BY <3>2, <3>3
  <2>2. QED
    BY <2>1 DEF CallInv
<1>13. AddInv'
  <2>1. ASSUME NEW u \in Threads, ~overlapped PROVE AddOK(u)'
    <3>1. AddOK(u) /\ AddOK(t)
      BY <2>1 DEF Inv, AddInv
    <3>2. QED
      BY <1>2, <1>3, <1>4, <3>1 DEF AddOK, Adding
  <2>2. QED
    BY <1>2, <2>1 DEF Inv, AddInv
<1>14. CareInv'
  <2>1. ASSUME NEW u \in Threads, CareOK(u), CallOK(u) PROVE CareOK(u)'
    <3>1. call'[u].op \in {"set", "resume", "release"} =>
            /\ call'[u] = call[u] /\ sources'[call[u].slot] = sources[call[u].slot]
            /\ gcd'[call[u].slot] = gcd[call[u].slot]
      BY <1>4, <1>6, <1>7, <1>8, <2>1 DEF CallOK
    <3>2. QED
      BY <1>4, <2>1, <3>1 DEF CareOK, Uses
  <2>2. QED
    BY <1>2, <2>1 DEF Inv, CareInv, CallInv
<1>15. QuietInv'
  BY <1>2, <1>8 DEF Inv, QuietInv
<1>16. StillWatched'
  <2>1. SUFFICES ASSUME crash = "no", NEW r \in Slots, sources'[r].kind # "none",
                        ~sources'[r].cancelled
                 PROVE  IF sources'[r].kind = "write"
                          THEN Registering(r)' \/ Filtered(r)'
                          ELSE gcd'[r] \in {"inactive", "active"} /\ sources'[r].dispatch_src
    BY <1>2 DEF StillWatched, Filtered
  <2>2. CASE r = s
    BY <1>4, <1>5, <1>6, <1>7, <2>2 DEF Registering
  <2>3. CASE r # s /\ sources[r].kind = "write"
    <3>1. Registering(r) => Registering(r)'
      BY <1>2, <1>4 DEF Registering
    <3>2. sources[r].fd \in Fds /\ sources'[r] = sources[r]
      BY <1>6, <2>3 DEF Inv, SourceInv, SourceOK
    <3>3. Registering(r) \/ Filtered(r)
      BY <1>8, <2>1, <2>3, <3>2 DEF Inv, StillWatched, Filtered
    <3>4. kq[sources[r].fd] # 0 =>
            sources'[kq[sources[r].fd]].fd = sources[kq[sources[r].fd]].fd
      <4>1. kq[sources[r].fd] # 0 => kq[sources[r].fd] \in Slots
                                       /\ sources[kq[sources[r].fd]].kind = "write"
        <5>1. /\ kq[sources[r].fd] \in Slots \cup {0}
              /\ kq[sources[r].fd] # 0 => sources[kq[sources[r].fd]].kind = "write"
          BY <3>2 DEF Inv, TypeOK, MainOK
        <5>2. QED
          BY <5>1
      <4>2. QED
        BY <1>6, <1>8, <4>1
    <3>5. Filtered(r) => Filtered(r)'
      BY <1>2, <3>2, <3>4 DEF Filtered
    <3>6. QED
      BY <2>3, <3>1, <3>2, <3>3, <3>5
  <2>4. CASE r # s /\ sources[r].kind # "write"
    BY <1>6, <1>7, <1>8, <2>1, <2>4 DEF Inv, StillWatched
  <2>5. QED
    BY <2>2, <2>3, <2>4
<1>17. QED
  BY <1>9, <1>10, <1>11, <1>12, <1>13, <1>14, <1>15, <1>16 DEF Inv, SourceInv

\* An add that finds its entry taken: others have read the same count.
LEMMA AddClashInv ==
  ASSUME Inv, NEW t \in Threads, AddStore(t),
         ~(call[t].slot \in Slots /\ sources[call[t].slot] = NoSource)
  PROVE  Inv'
<1>1. /\ call[t].op = "store" /\ Running /\ Returns(t) /\ source_count' = call[t].slot /\ clash'
      /\ UNCHANGED <<readable, writable, kq, sources, gcd, overlapped, at, events, cur, freed,
                     touched, quiet, crash, careless, removedBy, late>>
  BY DEF AddStore, NewCount, ready, memory, removal
<1>2. /\ call' \in [Threads -> Calls] /\ call'[t] = NoCall /\ call'[t].op = "none"
      /\ \A u \in Threads \ {t} : call'[u] = call[u]
  BY <1>1, ReturnFacts DEF Inv
<1>3. overlapped
  <2>1. SUFFICES ASSUME ~overlapped PROVE FALSE
    OBVIOUS
  <2>2. call[t].slot = source_count + 1 /\ source_count < MaxSources /\ ~clash
    BY <1>1, <2>1 DEF Inv, AddInv, AddOK
  <2>3. source_count \in Nat /\ {r \in Slots : sources[r].kind # "none"} = 1..source_count
    <3>1. /\ source_count \in 0..MaxSources + 1
          /\ {r \in Slots : sources[r].kind # "none"} = 1..source_count
      BY <2>2 DEF Inv, TypeOK
    <3>2. QED
      BY <3>1, MaxSourcesAssumption
  <2>4. source_count + 1 \in Slots /\ source_count + 1 \notin 1..source_count
    BY <2>2, <2>3, MaxSourcesAssumption DEF Slots
  <2>5. sources[source_count + 1].kind = "none"
    BY <2>3, <2>4
  <2>6. QED
    BY <2>2, <2>4, <2>5 DEF Inv, SourceInv, SourceOK
<1>4. TypeOK'
  BY <1>1, <1>2 DEF Inv, TypeOK, Calls
<1>5. SourceInv' /\ MainOK' /\ QuietInv' /\ StillWatched'
  BY <1>1, <1>2, SourcesKept DEF memory, removal
<1>6. CallInv'
  <2>1. ASSUME NEW u \in Threads PROVE CallOK(u)'
    <3>1. CallOK(u)
      BY DEF Inv, CallInv
    <3>2. QED
      BY <1>1, <1>2, <3>1 DEF CallOK
  <2>2. QED
    BY <2>1 DEF CallInv
<1>7. AddInv'
  BY <1>1, <1>3 DEF AddInv
<1>8. CareInv'
  <2>1. ASSUME NEW u \in Threads, CareOK(u) PROVE CareOK(u)'
    BY <1>1, <1>2, <2>1 DEF CareOK, Uses
  <2>2. QED
    BY <1>1, <2>1 DEF Inv, CareInv
<1>9. QED
  BY <1>4, <1>5, <1>6, <1>7, <1>8 DEF Inv

\* An add registers its source with the kqueue, over any other source of the descriptor.
LEMMA AddRegisterInv ==
  ASSUME Inv, NEW t \in Threads, AddRegister(t)
  PROVE  Inv'
<1>1. PICK s \in Slots : s = call[t].slot /\ sources[s].kind = "write"
  BY DEF AddRegister, Inv, CallInv, CallOK
<1>2. /\ call[t].op = "register" /\ Running /\ Returns(t)
      /\ kq' = [kq EXCEPT ![sources[s].fd] = s]
      /\ UNCHANGED <<readable, writable, source_count, sources, overlapped, clash, gcd, at, events,
                     cur, freed, touched, quiet, crash, careless, removedBy, late>>
  BY <1>1 DEF AddRegister, ready, table, memory, removal
<1>3. sources[s].fd \in Fds
  BY <1>1 DEF Inv, SourceInv, SourceOK
<1>4. /\ kq' \in [Fds -> Slots \cup {0}] /\ kq'[sources[s].fd] = s
      /\ \A f \in Fds \ {sources[s].fd} : kq'[f] = kq[f]
  BY <1>2, <1>3 DEF Inv, TypeOK
<1>5. /\ call' \in [Threads -> Calls] /\ call'[t] = NoCall /\ call'[t].op = "none"
      /\ \A u \in Threads \ {t} : call'[u] = call[u]
  BY <1>2, ReturnFacts DEF Inv
<1>6. TypeOK'
  BY <1>2, <1>4, <1>5 DEF Inv, TypeOK, Calls
<1>7. SourceInv' /\ QuietInv'
  BY <1>2 DEF Inv, SourceInv, SourceOK, OnGcd, Pending, Runner, QuietInv
<1>8. MainOK'
  BY <1>1, <1>2, <1>4, ThreadFacts DEF Inv, MainOK
<1>9. CallInv'
  <2>1. ASSUME NEW u \in Threads, CallOK(u) PROVE CallOK(u)'
    BY <1>2, <1>5, <2>1 DEF CallOK
  <2>2. QED
    BY <2>1 DEF Inv, CallInv
<1>10. AddInv'
  <2>1. ASSUME NEW u \in Threads, AddOK(u) PROVE AddOK(u)'
    BY <1>2, <1>5, <2>1 DEF AddOK, Adding
  <2>2. QED
    BY <1>2, <2>1 DEF Inv, AddInv
<1>11. CareInv'
  <2>1. ASSUME NEW u \in Threads, CareOK(u) PROVE CareOK(u)'
    BY <1>2, <1>5, <2>1 DEF CareOK, Uses
  <2>2. QED
    BY <1>2, <2>1 DEF Inv, CareInv
<1>12. StillWatched'
  <2>1. SUFFICES ASSUME crash = "no", ~freed, NEW r \in Slots, sources[r].kind # "none",
                        ~sources[r].cancelled
                 PROVE  IF sources[r].kind = "write"
                          THEN Registering(r)' \/ Filtered(r)'
                          ELSE gcd[r] \in {"inactive", "active"} /\ sources[r].dispatch_src
    BY <1>2 DEF StillWatched, Filtered
  <2>2. CASE sources[r].kind # "write"
    BY <2>1, <2>2 DEF Inv, StillWatched
  <2>3. CASE sources[r].kind = "write" /\ sources[r].fd = sources[s].fd
    <3>1. overlapped \/ s >= r  \* the new source is the last in the table
      <4>1. SUFFICES ASSUME ~overlapped PROVE s >= r
        OBVIOUS
      <4>2. s = source_count /\ ~clash
        BY <1>1, <1>2, <4>1 DEF Inv, AddInv, AddOK
      <4>3. r \in 1..source_count /\ source_count \in Nat
        BY <2>1, <4>2, MaxSourcesAssumption DEF Inv, TypeOK
      <4>4. QED
        BY <4>2, <4>3
    <3>2. s # 0
      BY ThreadFacts
    <3>3. QED
      BY <1>2, <1>4, <2>3, <3>1, <3>2 DEF Filtered
  <2>4. CASE sources[r].kind = "write" /\ sources[r].fd # sources[s].fd
    <3>1. sources[r].fd \in Fds /\ kq'[sources[r].fd] = kq[sources[r].fd]
      BY <1>4, <2>4 DEF Inv, SourceInv, SourceOK
    <3>2. Registering(r) => Registering(r)'
      <4>1. r # s
        BY <2>4
      <4>2. QED
        BY <1>1, <1>5, <4>1 DEF Registering
    <3>3. Registering(r) \/ Filtered(r)
      BY <2>1, <2>4 DEF Inv, StillWatched, Filtered
    <3>4. Filtered(r) => Filtered(r)'
      BY <1>2, <3>1 DEF Filtered
    <3>5. QED
      BY <2>4, <3>2, <3>3, <3>4
  <2>5. QED
    BY <2>2, <2>3, <2>4
<1>13. QED
  BY <1>6, <1>7, <1>8, <1>9, <1>10, <1>11, <1>12 DEF Inv

\* A timer is about to be set.
LEMMA UpdateInv ==
  ASSUME Inv, NEW t \in Threads, NEW s \in Slots, NEW ms \in 0..1, Update(t, s, ms)
  PROVE  Inv'
<1>1. /\ MayCall(t) /\ sources[s].kind = "timer" /\ sources[s].dispatch_src
      /\ careless' = (careless \/ InUse(s) \/ (ms > 0 /\ gcd[s] # "inactive"))
      /\ UNCHANGED <<readable, writable, kq, source_count, sources, overlapped, clash, gcd, at,
                     events, cur, freed, touched, quiet, crash, removedBy, late>>
  BY DEF Update, ready, table, memory, removal
<1>2. /\ call' \in [Threads -> Calls]
      /\ call'[t].op = "set" /\ call'[t].slot = s /\ call'[t].ms = ms
      /\ \A u \in Threads \ {t} : call'[u] = call[u]
  <2>1. Goes(t, "set", s, ms) /\ s \in 0..MaxSources + 1
    BY MaxSourcesAssumption DEF Update, Slots
  <2>2. QED
    BY <2>1, GoesFacts DEF Inv
<1>3. TypeOK'
  BY <1>1, <1>2 DEF Inv, TypeOK, Calls
<1>4. SourceInv' /\ MainOK' /\ QuietInv' /\ StillWatched'
  <2>1. call[t].op # "register"
    BY <1>1 DEF MayCall, NoCall
  <2>2. QED
    BY <1>1, <1>2, <2>1, SourcesKept DEF memory, removal
<1>5. CallInv'
  <2>1. ASSUME NEW u \in Threads PROVE CallOK(u)'
    <3>1. CallOK(u)
      BY DEF Inv, CallInv
    <3>2. CASE u = t
      BY <1>1, <1>2, <3>2 DEF CallOK, MayCall
    <3>3. CASE u # t
      BY <1>1, <1>2, <3>1, <3>3 DEF CallOK
    <3>4. QED
      BY <3>2, <3>3
  <2>2. QED
    BY <2>1 DEF CallInv
<1>6. AddInv'
  <2>1. ASSUME NEW u \in Threads, AddOK(u) PROVE AddOK(u)'
    BY <1>1, <1>2, <2>1 DEF AddOK, Adding
  <2>2. QED
    BY <1>1, <2>1 DEF Inv, AddInv
<1>7. CareInv'
  <2>1. SUFFICES ASSUME ~careless' PROVE crash' = "no" /\ \A u \in Threads : CareOK(u)'
    BY DEF CareInv
  <2>2. crash = "no" /\ \A u \in Threads : CareOK(u) /\ call[u].slot # s
    BY <1>1, <2>1 DEF Inv, CareInv, InUse
  <2>3. ASSUME NEW u \in Threads PROVE CareOK(u)'
    <3>1. CASE u = t
      BY <1>1, <1>2, <2>1, <2>2, <3>1 DEF CareOK, Uses
    <3>2. CASE u # t
      BY <1>1, <1>2, <2>2, <3>2 DEF CareOK, Uses
    <3>3. QED
      BY <3>1, <3>2
  <2>4. QED
    BY <1>1, <2>2, <2>3
<1>8. QED
  BY <1>3, <1>4, <1>5, <1>6, <1>7 DEF Inv

\* A timer was set: the function ends, or goes on to resume its source.
LEMMA UpdateSetInv ==
  ASSUME Inv, NEW t \in Threads, UpdateSet(t)
  PROVE  Inv'
<1>1. PICK s \in Slots : s = call[t].slot
  BY DEF UpdateSet, Inv, CallInv, CallOK
<1>2. /\ call[t].op = "set" /\ Running
      /\ UNCHANGED <<readable, writable, kq, source_count, sources, overlapped, clash, gcd, at,
                     events, cur, freed, touched, quiet, careless, removedBy, late>>
  BY DEF UpdateSet, ready, table, memory, removal
<1>3. \/ ~sources[s].dispatch_src /\ crash' = "null source" /\ Returns(t)
      \/ sources[s].dispatch_src /\ crash' = crash /\ Returns(t)
      \/ /\ sources[s].dispatch_src /\ crash' = crash /\ call[t].ms > 0
         /\ Goes(t, "resume", s, call[t].ms)
  BY <1>1 DEF UpdateSet, Resumes
<1>4. /\ call' \in [Threads -> Calls]
      /\ \/ call'[t] = NoCall /\ call'[t].op = "none"
         \/ /\ call'[t].op = "resume" /\ call'[t].slot = s /\ call[t].ms > 0
            /\ sources[s].dispatch_src
      /\ \A u \in Threads \ {t} : call'[u] = call[u]
  <2>1. call[t].ms \in 0..1 /\ s \in 0..MaxSources + 1
    <3>1. call \in [Threads -> Calls]
      BY DEF Inv, TypeOK, Calls
    <3>2. call[t] \in Calls
      BY <3>1
    <3>3. QED
      BY <3>2, MaxSourcesAssumption DEF Calls, Slots
  <2>2. CASE Returns(t)
    BY <2>2, ReturnFacts DEF Inv
  <2>3. CASE sources[s].dispatch_src /\ call[t].ms > 0 /\ Goes(t, "resume", s, call[t].ms)
    BY <2>1, <2>3, GoesFacts DEF Inv
  <2>4. QED
    BY <1>3, <2>2, <2>3
<1>5. crash' \in {"null source", crash} /\ (crash' # crash => ~sources[s].dispatch_src)
  BY <1>3
<1>6. TypeOK'
  BY <1>2, <1>4, <1>5 DEF Inv, TypeOK, Calls
<1>7. SourceInv' /\ MainOK' /\ QuietInv' /\ StillWatched'
  BY <1>2, <1>4, <1>5, SourcesKept DEF memory, removal, Running
<1>8. CallInv'
  <2>1. ASSUME NEW u \in Threads PROVE CallOK(u)'
    <3>1. CallOK(u) /\ CallOK(t)
      BY DEF Inv, CallInv
    <3>2. CASE u = t
      BY <1>1, <1>2, <1>4, <3>1, <3>2 DEF CallOK
    <3>3. CASE u # t
      BY <1>2, <1>4, <3>1, <3>3 DEF CallOK
    <3>4. QED
      BY <3>2, <3>3
  <2>2. QED
    BY <2>1 DEF CallInv
<1>9. AddInv'
  <2>1. ASSUME NEW u \in Threads, AddOK(u) PROVE AddOK(u)'
    BY <1>2, <1>4, <2>1 DEF AddOK, Adding
  <2>2. QED
    BY <1>2, <2>1 DEF Inv, AddInv
<1>10. CareInv'
  <2>1. SUFFICES ASSUME ~careless PROVE crash' = "no" /\ \A u \in Threads : CareOK(u)'
    BY <1>2 DEF CareInv
  <2>2. crash = "no" /\ \A u \in Threads : CareOK(u)
    BY <2>1 DEF Inv, CareInv
  <2>3. crash' = "no"
    BY <1>1, <1>2, <1>5, <2>2 DEF CareOK
  <2>4. ASSUME NEW u \in Threads, NEW r \in Slots, Uses(u, r)' PROVE Uses(u, r)
    BY <1>1, <1>2, <1>4, <2>4 DEF Uses
  <2>5. ASSUME NEW u \in Threads PROVE CareOK(u)'
    <3>1. CareOK(u) /\ CareOK(t)
      BY <2>2
    <3>2. \A v \in Threads, r \in Slots : Uses(u, r)' /\ Uses(v, r)' => v = u
      BY <2>4, <3>1 DEF CareOK
    <3>3. CASE u = t
      BY <1>1, <1>2, <1>4, <3>1, <3>2, <3>3 DEF CareOK
    <3>4. CASE u # t
      BY <1>2, <1>4, <3>1, <3>2, <3>4 DEF CareOK
    <3>5. QED
      BY <3>3, <3>4
  <2>6. QED
    BY <2>3, <2>5
<1>11. QED
  BY <1>6, <1>7, <1>8, <1>9, <1>10 DEF Inv

\* A timer's source is resumed, which ends the process if it was not suspended.
LEMMA UpdateResumeInv ==
  ASSUME Inv, NEW t \in Threads, UpdateResume(t)
  PROVE  Inv'
<1>1. PICK s \in Slots : s = call[t].slot
  BY DEF UpdateResume, Inv, CallInv, CallOK
<1>2. /\ call[t].op = "resume" /\ Running /\ Returns(t)
      /\ UNCHANGED <<readable, writable, kq, source_count, sources, overlapped, clash, at,
                     events, cur, freed, touched, quiet, careless, removedBy, late>>
  BY DEF UpdateResume, ready, table, memory, removal
<1>3. \/ /\ sources[s].dispatch_src /\ gcd[s] = "inactive" /\ crash' = crash
         /\ gcd' = [gcd EXCEPT ![s] = "active"]
      \/ /\ ~(sources[s].dispatch_src /\ gcd[s] = "inactive") /\ gcd' = gcd
         /\ crash' \in {"over-resume", "null source"}
  BY <1>1 DEF UpdateResume
<1>4. /\ call' \in [Threads -> Calls] /\ call'[t] = NoCall /\ call'[t].op = "none"
      /\ \A u \in Threads \ {t} : call'[u] = call[u]
  BY <1>2, ReturnFacts DEF Inv
<1>5. ~freed /\ sources[s].kind = "timer"
  BY <1>1, <1>2 DEF Inv, CallInv, CallOK
<1>6. CallInv'
  <2>1. ASSUME NEW u \in Threads, CallOK(u) PROVE CallOK(u)'
    BY <1>2, <1>4, <2>1 DEF CallOK
  <2>2. QED
    BY <2>1 DEF Inv, CallInv
<1>7. AddInv'
  <2>1. ASSUME NEW u \in Threads, AddOK(u) PROVE AddOK(u)'
    BY <1>2, <1>4, <2>1 DEF AddOK, Adding
  <2>2. QED
    BY <1>2, <2>1 DEF Inv, AddInv
<1>8. CASE /\ ~(sources[s].dispatch_src /\ gcd[s] = "inactive") /\ gcd' = gcd
           /\ crash' \in {"over-resume", "null source"}
  <2>1. TypeOK'
    BY <1>2, <1>4, <1>8 DEF Inv, TypeOK, Calls
  <2>2. SourceInv' /\ MainOK' /\ QuietInv' /\ StillWatched'
    BY <1>2, <1>4, <1>8, SourcesKept DEF memory, removal, Running
  <2>3. careless
    BY <1>1, <1>2, <1>8 DEF Inv, CareInv, CareOK
  <2>4. QED
    BY <1>2, <1>6, <1>7, <2>1, <2>2, <2>3 DEF Inv, CareInv
<1>9. CASE /\ sources[s].dispatch_src /\ gcd[s] = "inactive" /\ crash' = crash
           /\ gcd' = [gcd EXCEPT ![s] = "active"]
  <2>1. /\ gcd' \in [Slots -> {"none", "inactive", "active", "cancelled", "finished"}]
        /\ gcd'[s] = "active" /\ \A r \in Slots \ {s} : gcd'[r] = gcd[r]
    BY <1>9 DEF Inv, TypeOK
  <2>2. TypeOK'
    BY <1>2, <1>4, <1>9, <2>1 DEF Inv, TypeOK, Calls
  <2>3. ASSUME NEW r \in Slots PROVE SourceOK(r)'
    <3>1. SourceOK(r)
      BY DEF Inv, SourceInv
    <3>2. CASE r = s
      BY <1>2, <1>5, <1>9, <2>1, <3>1, <3>2 DEF SourceOK, OnGcd, Pending, Runner
    <3>3. CASE r # s
      BY <1>2, <2>1, <3>1, <3>3 DEF SourceOK, OnGcd, Pending, Runner
    <3>4. QED
      BY <3>2, <3>3
  <2>4. MainOK' /\ QuietInv'
    BY <1>2, <1>5 DEF Inv, MainOK, QuietInv
  <2>5. StillWatched'
    BY <1>2, <1>4, <1>9, <2>1, WatchKept
  <2>6. CareInv'
    <3>1. SUFFICES ASSUME ~careless PROVE crash' = "no" /\ \A u \in Threads : CareOK(u)'
      BY <1>2 DEF CareInv
    <3>2. crash = "no" /\ \A u \in Threads : CareOK(u)
      BY <3>1 DEF Inv, CareInv
    <3>3. ASSUME NEW u \in Threads PROVE CareOK(u)'
      <4>1. CareOK(u) /\ CareOK(t)
        BY <3>2
      <4>2. CASE u = t
        BY <1>4, <4>2 DEF CareOK, Uses
      <4>3. CASE u # t
        <5>1. call[u].op \in {"set", "resume", "release"} =>
                call[u].slot \in Slots /\ call[u].slot # s
          BY <1>1, <1>2, <4>1, <4>3 DEF CareOK, Uses, Inv, CallInv, CallOK
        <5>2. call'[u] = call[u]
          BY <1>4, <4>3
        <5>3. \A v \in Threads, r \in Slots : Uses(v, r)' => Uses(v, r)
          BY <1>4 DEF Uses
        <5>4. \A v \in Threads, r \in Slots : Uses(u, r)' /\ Uses(v, r)' => v = u
          BY <4>1, <5>3 DEF CareOK
        <5>5. QED
          BY <1>2, <2>1, <4>1, <5>1, <5>2, <5>4 DEF CareOK
      <4>4. QED
        BY <4>2, <4>3
    <3>4. QED
      BY <1>9, <3>2, <3>3
  <2>7. QED
    BY <1>6, <1>7, <2>2, <2>3, <2>4, <2>5, <2>6 DEF Inv, SourceInv
<1>10. QED
  BY <1>3, <1>8, <1>9

\* A source is marked as removed, once.
LEMMA RemoveInv ==
  ASSUME Inv, NEW t \in Threads, NEW s \in Slots, Remove(t, s)
  PROVE  Inv'
<1>1. /\ MayCall(t) /\ sources[s].kind # "none" /\ ~sources[s].cancelled
      /\ careless' = (careless \/ InUse(s) \/ gcd[s] = "inactive")
      /\ sources' = [sources EXCEPT ![s].cancelled = TRUE]
      /\ UNCHANGED <<readable, writable, kq, source_count, overlapped, clash, gcd, at,
                     events, cur, freed, touched, quiet, crash, removedBy, late>>
  BY DEF Remove, ready, memory, removal
<1>2. /\ call' \in [Threads -> Calls] /\ call'[t].op = "release" /\ call'[t].slot = s
      /\ \A u \in Threads \ {t} : call'[u] = call[u]
  <2>1. Goes(t, "release", s, 0) /\ s \in 0..MaxSources + 1 /\ 0 \in 0..1
    BY MaxSourcesAssumption DEF Remove, Slots
  <2>2. QED
    BY <2>1, GoesFacts DEF Inv
<1>3. /\ sources' \in [Slots -> [kind : Kinds \cup {"none"}, fd : Fds \cup {NoFd},
                                cancelled : BOOLEAN, dispatch_src : BOOLEAN]]
      /\ \A r \in Slots : /\ sources'[r].kind = sources[r].kind /\ sources'[r].fd = sources[r].fd
                          /\ sources'[r].dispatch_src = sources[r].dispatch_src
      /\ sources'[s].cancelled /\ \A r \in Slots \ {s} : sources'[r] = sources[r]
  <2>1. sources \in [Slots -> [kind : Kinds \cup {"none"}, fd : Fds \cup {NoFd},
                              cancelled : BOOLEAN, dispatch_src : BOOLEAN]]
    BY DEF Inv, TypeOK
  <2>2. PICK n : n = [sources[s] EXCEPT !.cancelled = TRUE]
    OBVIOUS
  <2>3. n \in [kind : Kinds \cup {"none"}, fd : Fds \cup {NoFd},
               cancelled : BOOLEAN, dispatch_src : BOOLEAN]
    BY <2>1, <2>2
  <2>4. /\ n.kind = sources[s].kind /\ n.fd = sources[s].fd /\ n.cancelled
        /\ n.dispatch_src = sources[s].dispatch_src
    BY <2>1, <2>2
  <2>5. sources' = [sources EXCEPT ![s] = n]
    BY <1>1, <2>2
  <2>6. QED
    BY <2>1, <2>3, <2>4, <2>5
<1>4. SourceOK(s) /\ removedBy[s] = Nobody /\ ~freed
  BY <1>1 DEF Inv, SourceInv, SourceOK, MayCall
<1>5. TypeOK'
  <2>1. {r \in Slots : sources'[r].kind # "none"} = {r \in Slots : sources[r].kind # "none"}
    BY <1>3
  <2>2. QED
    BY <1>1, <1>2, <1>3, <2>1 DEF Inv, TypeOK, Calls
<1>6. ASSUME NEW r \in Slots PROVE SourceOK(r)'
  <2>1. SourceOK(r)
    BY DEF Inv, SourceInv
  <2>2. OnGcd(r)' = OnGcd(r) /\ Pending(r)' = Pending(r) /\ Runner(r)' = Runner(r)
    BY <1>1, <1>3 DEF OnGcd, Pending, Runner
  <2>3. CASE r = s
    BY <1>1, <1>3, <2>1, <2>2, <2>3 DEF SourceOK
  <2>4. CASE r # s
    BY <1>1, <1>3, <2>1, <2>2, <2>4 DEF SourceOK
  <2>5. QED
    BY <2>3, <2>4
<1>7. MainOK'
  <2>1. events \subseteq Slots /\ \A f \in Fds : kq[f] # 0 => kq[f] \in Slots
    BY DEF Inv, TypeOK
  <2>2. QED
    BY <1>1, <1>3, <2>1 DEF Inv, MainOK
<1>8. CallInv'
  <2>1. ASSUME NEW u \in Threads PROVE CallOK(u)'
    <3>1. \A v \in Threads : CallOK(v)
      BY DEF Inv, CallInv
    <3>2. \A v \in Threads : call[v].op = "release" => call[v].slot \in Slots /\ call[v].slot # s
      BY <1>1, <3>1 DEF CallOK
    <3>3. CASE u = t
      BY <1>1, <1>2, <1>3, <1>4, <3>2, <3>3 DEF CallOK, MayCall
    <3>4. CASE u # t
      <4>1. call'[u] = call[u] /\ CallOK(u)
        BY <1>2, <3>1, <3>4
      <4>2. call[u].op = "release" => sources'[call[u].slot] = sources[call[u].slot]
        BY <1>3, <3>2
      <4>3. ASSUME call[u].op = "release", NEW v \in Threads, call'[v].op = "release",
                   call'[v].slot = call[u].slot
            PROVE  v = u
        BY <1>2, <3>2, <4>1, <4>3 DEF CallOK
      <4>4. QED
        BY <1>1, <1>3, <4>1, <4>2, <4>3 DEF CallOK
    <3>5. QED
      BY <3>3, <3>4
  <2>2. QED
    BY <2>1 DEF CallInv
<1>9. AddInv'
  <2>1. ASSUME NEW u \in Threads, AddOK(u) PROVE AddOK(u)'
    BY <1>1, <1>2, <2>1 DEF AddOK, Adding
  <2>2. QED
    BY <1>1, <2>1 DEF Inv, AddInv
<1>10. CareInv'
  <2>1. SUFFICES ASSUME ~careless' PROVE crash' = "no" /\ \A u \in Threads : CareOK(u)'
    BY DEF CareInv
  <2>2. crash = "no" /\ gcd[s] # "inactive" /\ \A u \in Threads : CareOK(u) /\ call[u].slot # s
    BY <1>1, <2>1 DEF Inv, CareInv, InUse
  <2>3. ASSUME NEW u \in Threads PROVE CareOK(u)'
    <3>1. CASE u = t
      BY <1>1, <1>2, <2>2, <3>1 DEF CareOK, Uses
    <3>2. CASE u # t
      <4>1. call'[u] = call[u] /\ CareOK(u) /\ CallOK(u)
        BY <1>2, <2>2, <3>2 DEF Inv, CallInv
      <4>2. call[u].op \in {"set", "resume"} =>
              sources'[call[u].slot].dispatch_src = sources[call[u].slot].dispatch_src
        BY <1>3, <4>1 DEF CallOK
      <4>3. \A v \in Threads, r \in Slots : Uses(u, r)' /\ Uses(v, r)' => v = u
        BY <1>2, <2>2, <4>1 DEF CareOK, Uses
      <4>4. QED
        BY <1>1, <4>1, <4>2, <4>3 DEF CareOK
    <3>3. QED
      BY <3>1, <3>2
  <2>4. QED
    BY <1>1, <2>2, <2>3
<1>11. QuietInv'
  BY <1>1, <1>4 DEF Inv, QuietInv
<1>12. StillWatched'
  <2>1. call[t].op # "register"
    BY <1>1 DEF MayCall, NoCall
  <2>2. \A r \in Slots : ~sources'[r].cancelled => ~sources[r].cancelled
    BY <1>1, <1>3
  <2>3. QED
    BY <1>1, <1>2, <1>3, <2>1, <2>2, WatchKept
<1>13. QED
  BY <1>5, <1>6, <1>7, <1>8, <1>9, <1>10, <1>11, <1>12 DEF Inv, SourceInv

\* A removed source is released, by the one thread that removed it.
LEMMA RemoveReleaseInv ==
  ASSUME Inv, NEW t \in Threads, RemoveRelease(t)
  PROVE  Inv'
<1>1. PICK s \in Slots : s = call[t].slot
  BY DEF RemoveRelease, Inv, CallInv, CallOK
<1>2. /\ call[t].op = "release" /\ Running /\ Returns(t)
      /\ removedBy' = [removedBy EXCEPT ![s] = t]
      /\ UNCHANGED <<readable, writable, kq, source_count, overlapped, clash, at, events, cur,
                     freed, touched, quiet, careless, late>>
  BY <1>1 DEF RemoveRelease, FiltersAfter, ready, memory
<1>3. \/ /\ sources[s].dispatch_src
         /\ crash' = IF gcd[s] = "inactive" THEN "release of inactive" ELSE crash
         /\ gcd' = [gcd EXCEPT ![s] = "cancelled"]
         /\ sources' = [sources EXCEPT ![s].dispatch_src = FALSE]
      \/ ~sources[s].dispatch_src /\ UNCHANGED <<crash, gcd, sources>>
  BY <1>1 DEF RemoveRelease
<1>4. /\ call' \in [Threads -> Calls] /\ call'[t] = NoCall /\ call'[t].op = "none"
      /\ \A u \in Threads \ {t} : call'[u] = call[u]
  BY <1>2, ReturnFacts DEF Inv
<1>5. /\ SourceOK(s) /\ ~freed /\ removedBy[s] = Nobody
      /\ sources[s].kind # "none" /\ sources[s].cancelled
      /\ at[t] = "func" \/ (t = Main /\ at[t] = "idle")
      /\ \A u \in Threads \ {t} : call[u].op = "release" => call[u].slot # s
  BY <1>1, <1>2 DEF Inv, CallInv, CallOK, SourceInv
<1>6. /\ sources' \in [Slots -> [kind : Kinds \cup {"none"}, fd : Fds \cup {NoFd},
                                cancelled : BOOLEAN, dispatch_src : BOOLEAN]]
      /\ \A r \in Slots : /\ sources'[r].kind = sources[r].kind /\ sources'[r].fd = sources[r].fd
                          /\ sources'[r].cancelled = sources[r].cancelled
      /\ ~sources'[s].dispatch_src /\ \A r \in Slots \ {s} : sources'[r] = sources[r]
  <2>1. sources \in [Slots -> [kind : Kinds \cup {"none"}, fd : Fds \cup {NoFd},
                              cancelled : BOOLEAN, dispatch_src : BOOLEAN]]
    BY DEF Inv, TypeOK
  <2>2. PICK n : n = [sources[s] EXCEPT !.dispatch_src = FALSE]
    OBVIOUS
  <2>3. n \in [kind : Kinds \cup {"none"}, fd : Fds \cup {NoFd},
               cancelled : BOOLEAN, dispatch_src : BOOLEAN]
    BY <2>1, <2>2
  <2>4. /\ n.kind = sources[s].kind /\ n.fd = sources[s].fd /\ ~n.dispatch_src
        /\ n.cancelled = sources[s].cancelled
    BY <2>1, <2>2
  <2>5. CASE sources' = [sources EXCEPT ![s].dispatch_src = FALSE]
    <3>1. sources' = [sources EXCEPT ![s] = n]
      BY <2>2, <2>5
    <3>2. QED
      BY <2>1, <2>3, <2>4, <3>1
  <2>6. CASE ~sources[s].dispatch_src /\ sources' = sources
    BY <2>1, <2>6
  <2>7. QED
    BY <1>3, <2>5, <2>6
<1>7. /\ gcd' \in [Slots -> {"none", "inactive", "active", "cancelled", "finished"}]
      /\ gcd'[s] = (IF sources[s].dispatch_src THEN "cancelled" ELSE gcd[s])
      /\ \A r \in Slots \ {s} : gcd'[r] = gcd[r]
  BY <1>3 DEF Inv, TypeOK
<1>8. /\ removedBy' \in [Slots -> Threads \cup {Nobody}]
      /\ removedBy'[s] = t /\ \A r \in Slots \ {s} : removedBy'[r] = removedBy[r]
  BY <1>2 DEF Inv, TypeOK
<1>9. /\ crash' \in {crash, "release of inactive"}
      /\ crash' # crash => sources[s].dispatch_src /\ gcd[s] = "inactive"
  BY <1>3
<1>10. TypeOK'
  <2>1. {r \in Slots : sources'[r].kind # "none"} = {r \in Slots : sources[r].kind # "none"}
    BY <1>6
  <2>2. QED
    BY <1>2, <1>4, <1>6, <1>7, <1>8, <1>9, <2>1 DEF Inv, TypeOK, Calls
<1>11. ASSUME NEW r \in Slots PROVE SourceOK(r)'
  <2>1. SourceOK(r)
    BY DEF Inv, SourceInv
  <2>2. OnGcd(r)' = OnGcd(r) /\ Pending(r)' = Pending(r) /\ Runner(r)' = Runner(r)
    BY <1>2, <1>6 DEF OnGcd, Pending, Runner
  <2>3. CASE r = s
    <3>1. late[s] = 0 /\ t # Nobody
      BY <1>5, ThreadFacts DEF SourceOK
    <3>2. t = Runner(s) => ~Pending(s)
      BY <1>5, ThreadFacts DEF Pending, Runner
    <3>3. OnGcd(s) => sources[s].dispatch_src
      BY <1>5 DEF SourceOK
    <3>4. QED
      BY <1>2, <1>5, <1>6, <1>7, <1>8, <2>2, <2>3, <3>1, <3>2, <3>3 DEF SourceOK
  <2>4. CASE r # s
    BY <1>2, <1>6, <1>7, <1>8, <2>1, <2>2, <2>4 DEF SourceOK
  <2>5. QED
    BY <2>3, <2>4
<1>12. MainOK'
  <2>1. events \subseteq Slots /\ \A f \in Fds : kq[f] # 0 => kq[f] \in Slots
    BY DEF Inv, TypeOK
  <2>2. QED
    BY <1>2, <1>6, <2>1 DEF Inv, MainOK
<1>13. CallInv'
  <2>1. ASSUME NEW u \in Threads PROVE CallOK(u)'
    <3>1. CallOK(u)
      BY DEF Inv, CallInv
    <3>2. CASE u = t
      BY <1>4, <3>2 DEF CallOK
    <3>3. CASE u # t
      <4>1. call'[u] = call[u]
        BY <1>4, <3>3
      <4>2. call[u].op = "release" => removedBy'[call[u].slot] = removedBy[call[u].slot]
        BY <1>5, <1>8, <3>1, <3>3 DEF CallOK
      <4>3. call[u].op = "release" =>
              \A v \in Threads : call'[v].op = "release" /\ call'[v].slot = call[u].slot => v = u
        BY <1>4, <3>1 DEF CallOK
      <4>4. QED
        BY <1>2, <1>6, <3>1, <4>1, <4>2, <4>3 DEF CallOK
    <3>4. QED
      BY <3>2, <3>3
  <2>2. QED
    BY <2>1 DEF CallInv
<1>14. AddInv'
  <2>1. ASSUME NEW u \in Threads, AddOK(u) PROVE AddOK(u)'
    BY <1>2, <1>4, <2>1 DEF AddOK, Adding
  <2>2. QED
    BY <1>2, <2>1 DEF Inv, AddInv
<1>15. CareInv'
  <2>1. SUFFICES ASSUME ~careless PROVE crash' = "no" /\ \A u \in Threads : CareOK(u)'
    BY <1>2 DEF CareInv
  <2>2. crash = "no" /\ \A u \in Threads : CareOK(u)
    BY <2>1 DEF Inv, CareInv
  <2>3. crash' = "no"
    BY <1>1, <1>2, <1>9, <2>2 DEF CareOK
  <2>4. ASSUME NEW u \in Threads PROVE CareOK(u)'
    <3>1. CASE u = t
      BY <1>4, <3>1 DEF CareOK, Uses
    <3>2. CASE u # t
      <4>1. call'[u] = call[u] /\ CareOK(u) /\ CareOK(t) /\ CallOK(u)
        BY <1>4, <2>2, <3>2 DEF Inv, CallInv
      <4>2. call[u].op \in {"set", "resume", "release"} =>
              call[u].slot \in Slots /\ call[u].slot # s
        BY <1>1, <1>2, <3>2, <4>1 DEF CareOK, Uses, CallOK
      <4>3. \A v \in Threads, r \in Slots : Uses(v, r)' => Uses(v, r)
        BY <1>4 DEF Uses
      <4>4. \A v \in Threads, r \in Slots : Uses(u, r)' /\ Uses(v, r)' => v = u
        BY <4>1, <4>3 DEF CareOK
      <4>5. QED
        BY <1>6, <1>7, <4>1, <4>2, <4>4 DEF CareOK
    <3>3. QED
      BY <3>1, <3>2
  <2>5. QED
    BY <2>3, <2>4
<1>16. QuietInv'
  BY <1>2, <1>5 DEF Inv, QuietInv
<1>17. StillWatched'
  BY <1>2, <1>4, <1>5, <1>6, <1>7, <1>9, WatchKept DEF Running
<1>18. QED
  BY <1>10, <1>11, <1>12, <1>13, <1>14, <1>15, <1>16, <1>17 DEF Inv, SourceInv

-----------------------------------------------------------------------------
(* The end of the loop.                                                     *)

\* The loop is destroyed: every dispatch source is stopped first.
LEMMA DestroyInv == ASSUME Inv, Destroy PROVE Inv'
<1>1. /\ ~freed /\ at[Main] = "idle" /\ \A t \in Threads : call[t] = NoCall
      /\ careless' = (careless \/ \E s \in Slots : gcd[s] = "inactive")
      /\ crash' = IF \E s \in Slots : gcd[s] = "inactive" THEN "release of inactive" ELSE crash
      /\ gcd' = [s \in Slots |-> Stopped(s)] /\ freed' /\ quiet' = Quiet
      /\ UNCHANGED <<readable, writable, kq, source_count, sources, overlapped, clash, at, call,
                     events, cur, touched, removedBy, late>>
  BY DEF Destroy, MayCall, ready, table, removal
<1>2. \A s \in Slots : gcd'[s] = IF sources[s].dispatch_src THEN "cancelled" ELSE gcd[s]
  BY <1>1 DEF Stopped
<1>3. TypeOK'
  <2>1. gcd' \in [Slots -> {"none", "inactive", "active", "cancelled", "finished"}]
    <3>1. gcd \in [Slots -> {"none", "inactive", "active", "cancelled", "finished"}]
      BY DEF Inv, TypeOK
    <3>2. QED
      BY <1>1, <3>1 DEF Stopped
  <2>2. quiet' \in BOOLEAN
    BY <1>1 DEF Quiet
  <2>3. QED
    BY <1>1, <2>1, <2>2 DEF Inv, TypeOK
<1>4. ASSUME NEW r \in Slots PROVE SourceOK(r)'
  <2>1. SourceOK(r)
    BY DEF Inv, SourceInv
  <2>2. OnGcd(r)' = OnGcd(r) /\ Pending(r)' = Pending(r) /\ Runner(r)' = Runner(r)
    BY <1>1 DEF OnGcd, Pending, Runner
  <2>3. QED
    BY <1>1, <1>2, <2>1, <2>2 DEF SourceOK
<1>5. MainOK'
  BY <1>1 DEF Inv, MainOK
<1>6. \A t \in Threads : call'[t] = NoCall /\ call'[t].op = "none"
  <2>1. NoCall.op = "none"
    BY DEF NoCall
  <2>2. QED
    BY <1>1, <2>1
<1>7. CallInv' /\ AddInv'
  <2>1. CallInv'
    BY <1>6 DEF CallInv, CallOK
  <2>2. AddInv'
    BY <1>1, <1>6 DEF Inv, AddInv, AddOK
  <2>3. QED
    BY <2>1, <2>2
<1>8. CareInv'
  <2>1. \A t \in Threads : CareOK(t)'
    BY <1>6 DEF CareOK, Uses
  <2>2. QED
    BY <1>1, <2>1 DEF Inv, CareInv
<1>9. QuietInv'
  <2>1. ~touched' /\ freed'
    BY <1>1 DEF Inv, QuietInv
  <2>2. ASSUME Quiet, NEW s \in Slots
        PROVE  at[s] # "enter" /\ (sources[s].kind = "read" => gcd'[s] = "finished")
    <3>1. SourceOK(s) /\ at[s] # "enter" /\ (sources[s].kind = "read" => gcd[s] = "finished")
      BY <2>2 DEF Quiet, Inv, SourceInv
    <3>2. QED
      BY <1>1, <1>2, <3>1 DEF SourceOK, OnGcd
  <2>3. QED
    BY <1>1, <2>1, <2>2 DEF QuietInv
<1>10. StillWatched'
  BY <1>1 DEF StillWatched
<1>11. QED
  BY <1>3, <1>4, <1>5, <1>7, <1>8, <1>9, <1>10 DEF Inv, SourceInv

-----------------------------------------------------------------------------
(* The theorems.                                                            *)

\* An empty loop.
LEMMA InitInv == Init => Inv
<1>1. SUFFICES ASSUME Init PROVE Inv
  OBVIOUS
<1>2. \A s \in Slots : sources[s] = NoSource /\ sources[s].kind = "none" /\ ~sources[s].dispatch_src
  BY <1>1 DEF Init, NoSource
<1>3. TypeOK
  <2>1. sources \in [Slots -> [kind : Kinds \cup {"none"}, fd : Fds \cup {NoFd},
                              cancelled : BOOLEAN, dispatch_src : BOOLEAN]]
    BY <1>1 DEF Init, NoSource
  <2>2. call \in [Threads -> Calls]
    BY <1>1, MaxSourcesAssumption DEF Init, NoCall, Calls
  <2>3. {s \in Slots : sources[s].kind # "none"} = 1..source_count
    BY <1>1, <1>2 DEF Init
  <2>4. source_count \in 0..MaxSources + 1
    BY <1>1, MaxSourcesAssumption DEF Init
  <2>5. QED
    BY <1>1, <2>1, <2>2, <2>3, <2>4 DEF Init, TypeOK, Calls
<1>4. SourceInv
  BY <1>1, <1>2, ThreadFacts DEF Init, SourceInv, SourceOK, OnGcd, Pending
<1>5. MainOK
  BY <1>1, ThreadFacts DEF Init, MainOK
<1>6. CallInv /\ AddInv /\ CareInv
  BY <1>1 DEF Init, CallInv, CallOK, AddInv, AddOK, Adding, CareInv, CareOK, Uses, NoCall
<1>7. QuietInv /\ StillWatched
  BY <1>1, <1>2 DEF Init, QuietInv, StillWatched
<1>8. QED
  BY <1>3, <1>4, <1>5, <1>6, <1>7 DEF Inv

\* Nothing happens.
LEMMA StutterInv == ASSUME Inv, UNCHANGED vars PROVE Inv'
<1>1. UNCHANGED <<readable, writable, kq, source_count, sources, overlapped, clash, gcd, at, call,
                  events, cur, freed, touched, quiet, crash, careless, removedBy, late>>
  BY DEF vars, ready, table, memory, removal
<1>2. TypeOK'
  BY <1>1 DEF Inv, TypeOK
<1>3. SourceInv' /\ MainOK' /\ QuietInv' /\ StillWatched'
  BY <1>1, SourcesKept DEF memory, removal
<1>4. CallInv' /\ AddInv' /\ CareInv'
  BY <1>1, CallsKept DEF table
<1>5. QED
  BY <1>2, <1>3, <1>4 DEF Inv

\* Every step preserves the invariant.
LEMMA InvStep == Inv /\ [Next]_vars => Inv'
<1>1. SUFFICES ASSUME Inv, [Next]_vars PROVE Inv'
  OBVIOUS
<1>2. CASE \E f \in Fds : BecomeReady(f) \/ CloseFd(f)
  BY <1>1, <1>2, BecomeReadyInv, CloseFdInv
<1>3. ASSUME NEW t \in Threads, AddCheck(t) \/ Function(t) \/ Func(t) \/ Return(t)
      PROVE  Inv'
  <2>1. CASE AddCheck(t) \/ Func(t) \/ Return(t)
    BY <1>1, <2>1, AddCheckInv, FuncInv, ReturnInv
  <2>2. CASE AddStore(t)
    <3>1. CASE call[t].slot \in Slots /\ sources[call[t].slot] = NoSource
      BY <1>1, <2>2, <3>1, AddFreeInv
    <3>2. CASE ~(call[t].slot \in Slots /\ sources[call[t].slot] = NoSource)
      BY <1>1, <2>2, <3>2, AddClashInv
    <3>3. QED
      BY <3>1, <3>2
  <2>3. CASE AddTake(t) \/ AddRegister(t) \/ UpdateSet(t) \/ UpdateResume(t) \/ RemoveRelease(t)
    BY <1>1, <2>3, AddTakeInv, AddRegisterInv, UpdateSetInv, UpdateResumeInv, RemoveReleaseInv
  <2>4. QED
    BY <1>3, <2>1, <2>2, <2>3 DEF Function
<1>4. CASE \E t \in Threads, s \in Slots : Remove(t, s) \/ \E ms \in 0..1 : Update(t, s, ms)
  BY <1>1, <1>4, RemoveInv, UpdateInv
<1>5. CASE \E s \in Slots : Fire(s) \/ Handler(s)
  BY <1>1, <1>5, FireInv, CheckInv, CancelHandlerInv DEF Handler
<1>6. CASE Kevent \/ Dispatch
  BY <1>1, <1>6, KeventInv, NextEventInv, DispatchEndInv DEF Dispatch
<1>7. CASE Destroy
  BY <1>1, <1>7, DestroyInv
<1>8. CASE UNCHANGED vars
  BY <1>1, <1>8, StutterInv
<1>9. QED
  BY <1>1, <1>2, <1>3, <1>4, <1>5, <1>6, <1>7, <1>8 DEF Next

\* The invariant holds in every state.
LEMMA InvAlways == Spec => []Inv
  BY InitInv, InvStep, PTL DEF Spec

\* Every variable keeps its type, and until two adds clash the table has no gaps.
THEOREM TypeCorrect == Spec => []TypeOK
<1>1. Inv => TypeOK
  BY DEF Inv
<1>2. QED
  BY <1>1, InvAlways, PTL

\* wl_event_loop_add_fd hands out a used entry only if two calls overlapped.
THEOREM SlotOwnedOnceAlways == Spec => []SlotOwnedOnce
<1>1. Inv => SlotOwnedOnce
  BY DEF Inv, AddInv, SlotOwnedOnce
<1>2. QED
  BY <1>1, InvAlways, PTL

\* A source's callback begins at most once after wl_event_source_remove has returned,
\* and not at all if the thread that runs it has removed it.
THEOREM AtMostOneLateCallAlways == Spec => []AtMostOneLateCall
<1>1. Inv => AtMostOneLateCall
  BY DEF Inv, SourceInv, SourceOK, AtMostOneLateCall
<1>2. QED
  BY <1>1, InvAlways, PTL

\* libdispatch ends the process only after a caller has not armed a timer just once.
THEOREM CrashOnlyIfCarelessAlways == Spec => []CrashOnlyIfCareless
<1>1. Inv => CrashOnlyIfCareless
  BY DEF Inv, CareInv, CrashOnlyIfCareless
<1>2. QED
  BY <1>1, InvAlways, PTL

\* A loop that was quiet when wl_event_loop_destroy freed it is not used any more.
THEOREM DestroyWhenQuietAlways == Spec => []DestroyWhenQuiet
<1>1. Inv => DestroyWhenQuiet
  BY DEF Inv, QuietInv, DestroyWhenQuiet
<1>2. QED
  BY <1>1, InvAlways, PTL

\* An entry of the table that is not removed is still watched, by its dispatch source or
\* through the filter of its descriptor, which is the last entry's if no two adds overlapped.
THEOREM StillWatchedAlways == Spec => []StillWatched
<1>1. Inv => StillWatched
  BY DEF Inv
<1>2. QED
  BY <1>1, InvAlways, PTL
=============================================================================
