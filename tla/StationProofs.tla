------------------------------ MODULE StationProofs ------------------------------
(***************************************************************************)
(* Theorems about what VIATOR shares with the station module, for any      *)
(* feeds, calls, builds, limits and bounds: what the client answers and    *)
(* when it pauses, which build the wait before a graph ends on, what the   *)
(* cache of extracts, the sent marks and the page say, what the stations   *)
(* of a search's stops are, and how the OeBB stops are kept and asked.     *)
(*                                                                         *)
(* Each component has its own inductive invariant; the instance runs one   *)
(* of them beside the others at rest, so its steps are steps of each.      *)
(***************************************************************************)
EXTENDS MCStation, FiniteSetTheorems, SequenceTheorems, WellFoundedInduction, TLAPS

-----------------------------------------------------------------------------
(* The client: its pause and its cache *)

\* An edition read at a time was replaced, if at all, at that time or later.
NotGoneBefore(e, t) == e \in Editions /\ e <= edition /\ (replacedAt[e] # Never => replacedAt[e] >= t)

Client ==
    /\ tick \in 0..MaxTime /\ pausedUntil \in 0..(MaxTime + PauseUnits) /\ edition \in Editions
    /\ replacedAt \in [Editions -> 0..MaxTime \cup {Never}]
    /\ \A e \in Editions : e >= edition => replacedAt[e] = Never
    /\ failedAt \in 0..MaxTime \cup {Never}
    /\ DOMAIN cached = CachedKinds /\ DOMAIN call = ModuleCalls

\* What is kept is at most a call older than its mark.
Kept ==
    \A k \in CachedKinds : cached[k] # Never =>
        /\ cached[k].at \in 0..tick /\ NotGoneBefore(cached[k].edition, cached[k].at - 1)

\* A call on its way: no older than its deadline, and what it read was there since it was sent.
OnItsWay(c) ==
    /\ c.kind \in Kinds \cup {"none"} /\ c.pc \in {"idle", "sent", "read"} /\ c.edition \in Nat
    /\ c.edition <= edition /\ c.began \in 0..tick
    /\ DOMAIN c = {"kind", "pc", "began", "edition", "known"}
    /\ c.pc # "idle" => c.began + 1 >= tick /\ c.kind \in Kinds
    /\ c.pc = "read" => NotGoneBefore(c.edition, c.began)

\* What was served last, and to whom.
WasServed ==
    /\ served.at \in 0..tick /\ served.began \in 0..tick /\ served.edition \in Editions
    /\ served.edition <= edition
    /\ replacedAt[served.edition] # Never =>
        IF served.kind = "fresh" THEN replacedAt[served.edition] >= served.began
        ELSE replacedAt[served.edition] + TtlUnits + 1 >= served.at

\* The pause runs from the last failure, which is over before a new call is sent.
PauseRuns ==
    /\ failedAt # Never => failedAt <= tick /\ pausedUntil = failedAt + PauseUnits
    /\ \A c \in ModuleCalls :
        call[c].pc # "idle" /\ call[c].known /\ failedAt # Never
            => call[c].began >= failedAt + PauseUnits
    /\ cached["attribution"] # Never /\ failedAt # Never => cached["attribution"].at >= failedAt

ClientInv == Client /\ Kept /\ (\A c \in ModuleCalls : OnItsWay(call[c])) /\ WasServed /\ PauseRuns

\* The limits are numbers.
LEMMA ClientLimits ==
    /\ PauseUnits \in Nat /\ PauseUnits > 0 /\ TtlUnits \in Nat /\ MaxTime \in Nat
    /\ Never \notin Nat /\ 1 \in Editions /\ Editions \subseteq Nat
  BY ModuleAssumption

\* What was not gone before a time was not gone before an earlier one.
LEMMA NotGoneEarlier ==
    ASSUME ClientInv, NEW e, NEW t \in Int, NEW u \in Int, u <= t, NotGoneBefore(e, t)
    PROVE  NotGoneBefore(e, u)
  <1>1. e \in Editions /\ e <= edition /\ (replacedAt[e] # Never => replacedAt[e] >= t)
    BY DEF NotGoneBefore
  <1>2. replacedAt[e] \in 0..MaxTime \cup {Never}
    BY <1>1 DEF ClientInv, Client
  <1>3. replacedAt[e] # Never => replacedAt[e] >= u
    BY <1>1, <1>2, ClientLimits
  <1> QED BY <1>1, <1>3 DEF NotGoneBefore

\* The client starts without an answer, a call or a pause.
LEMMA ClientStart == ModuleInit => ClientInv
  <1> SUFFICES ASSUME ModuleInit PROVE ClientInv
    OBVIOUS
  <1> USE ClientLimits DEF ModuleInit
  <1>1. Client
    BY DEF Client
  <1>2. Kept
    BY DEF Kept
  <1>3. \A c \in ModuleCalls : OnItsWay(call[c])
    BY DEF OnItsWay, NoCall
  <1>4. WasServed
    BY DEF WasServed, NoneServed
  <1>5. PauseRuns
    BY DEF PauseRuns, NoCall, CachedKinds
  <1> QED BY <1>1, <1>2, <1>3, <1>4, <1>5 DEF ClientInv

\* Time may only pass a call by its deadline.
LEMMA TimePasses == ClientInv /\ ModuleTick => ClientInv'
  <1> SUFFICES ASSUME ClientInv, ModuleTick PROVE ClientInv'
    OBVIOUS
  <1> USE ClientLimits DEF ClientInv
  <1>0. /\ tick \in 0..MaxTime /\ tick' = tick + 1 /\ tick' \in 0..MaxTime
        /\ UNCHANGED <<pausedUntil, cached, call, edition, replacedAt, served, failedAt>>
    BY DEF ModuleTick, Client
  <1>1. Client'
    BY <1>0 DEF Client
  <1>2. Kept'
    BY <1>0 DEF Kept, NotGoneBefore
  <1>3. \A c \in ModuleCalls : OnItsWay(call[c])'
    BY <1>0 DEF OnItsWay, NotGoneBefore, ModuleTick
  <1>4. WasServed'
    BY <1>0 DEF WasServed
  <1>5. PauseRuns'
    BY <1>0 DEF PauseRuns, Client
  <1> QED BY <1>1, <1>2, <1>3, <1>4, <1>5 DEF ClientInv

\* What the module replaces now was there until now.
LEMMA EditionReplaced == ClientInv /\ NewEdition => ClientInv'
  <1> SUFFICES ASSUME ClientInv, NewEdition PROVE ClientInv'
    OBVIOUS
  <1> USE ClientLimits DEF ClientInv
  <1>0. /\ edition \in Nat /\ edition' = edition + 1 /\ edition' \in Editions
        /\ replacedAt' = [replacedAt EXCEPT ![edition] = tick] /\ tick \in 0..MaxTime
        /\ edition \in Editions /\ replacedAt \in [Editions -> 0..MaxTime \cup {Never}]
        /\ UNCHANGED <<tick, pausedUntil, cached, call, served, failedAt>>
    BY DEF NewEdition, Client
  <1>1. Client'
    BY <1>0 DEF Client
  <1>2. ASSUME NEW e, NEW t \in Int, t <= tick, NotGoneBefore(e, t) PROVE NotGoneBefore(e, t)'
    BY <1>0, <1>2 DEF NotGoneBefore
  <1>3. Kept'
    <2> SUFFICES ASSUME NEW k \in CachedKinds, cached[k] # Never
                 PROVE  cached[k].at \in 0..tick /\ NotGoneBefore(cached[k].edition, cached[k].at - 1)'
      BY <1>0 DEF Kept
    <2>1. cached[k].at \in 0..tick /\ NotGoneBefore(cached[k].edition, cached[k].at - 1)
      BY DEF Kept
    <2> QED BY <2>1, <1>2, <1>0 DEF NotGoneBefore
  <1>4. \A c \in ModuleCalls : OnItsWay(call[c])'
    <2> SUFFICES ASSUME NEW c \in ModuleCalls PROVE OnItsWay(call[c])'
      OBVIOUS
    <2>1. OnItsWay(call[c]) /\ call'[c] = call[c]
      BY <1>0
    <2> QED BY <2>1, <1>0 DEF OnItsWay, NotGoneBefore
  <1>5. WasServed'
    <2>1. /\ WasServed /\ served' = served /\ served.edition \in Editions
          /\ served.at \in 0..tick /\ served.began \in 0..tick
      BY <1>0 DEF WasServed
    <2>2. CASE served.edition = edition
      <3>1. replacedAt'[served.edition] = tick /\ served.edition <= edition'
        BY <2>1, <2>2, <1>0
      <3>2. tick >= served.began /\ tick + TtlUnits + 1 >= served.at
        BY ONLY <2>1, <1>0, ClientLimits
      <3> QED BY ONLY <2>1, <3>1, <3>2, <1>0 DEF WasServed
    <2>3. CASE served.edition # edition
      <3> DEFINE e == served.edition
      <3>0. e \in Editions /\ e <= edition /\ e # edition /\ e \in Nat
        BY <2>1, <2>3 DEF WasServed
      <3> HIDE DEF e
      <3>1. replacedAt'[e] = replacedAt[e] /\ e <= edition'
        BY <3>0, <1>0
      <3> USE DEF e
      <3> QED BY <2>1, <3>1, <1>0 DEF WasServed
    <2> QED BY <2>2, <2>3
  <1>6. PauseRuns'
    <2>1. UNCHANGED <<tick, pausedUntil, cached, call, failedAt>> /\ PauseRuns
      BY <1>0
    <2> QED BY ONLY <2>1 DEF PauseRuns
  <1> QED BY <1>1, <1>3, <1>4, <1>5, <1>6 DEF ClientInv

\* What a step does to a call's record and to the cache is all it must account for, when time,
\* the pause and the module's data stay.
LEMMA CallsGoOn ==
    ASSUME ClientInv, UNCHANGED <<tick, edition, replacedAt>>,
           NEW c \in ModuleCalls, NEW new, OnItsWay(new),
           call' = [call EXCEPT ![c] = new]
    PROVE  DOMAIN call' = ModuleCalls /\ \A d \in ModuleCalls : OnItsWay(call[d])'
  <1>1. DOMAIN call = ModuleCalls /\ \A d \in ModuleCalls : OnItsWay(call[d])
    BY DEF ClientInv, Client
  <1>2. DOMAIN call' = ModuleCalls /\ \A d \in ModuleCalls : call'[d] = IF d = c THEN new ELSE call[d]
    BY <1>1
  <1>3. ASSUME NEW d \in ModuleCalls PROVE OnItsWay(call[d])'
    <2>1. OnItsWay(call'[d])
      BY <1>1, <1>2
    <2> QED BY <2>1 DEF OnItsWay, NotGoneBefore
  <1> QED BY <1>2, <1>3

\* A call that has ended holds nothing.
LEMMA NoCallIsOnItsWay == ClientInv => OnItsWay(NoCall)
  BY ClientLimits DEF ClientInv, Client, OnItsWay, NoCall

\* Of the cache, an action forgets an answer or stores one it has just got.
LEMMA CacheGoesOn ==
    ASSUME ClientInv, UNCHANGED <<tick, edition, replacedAt>>, DOMAIN cached' = CachedKinds,
           \A k \in CachedKinds : cached'[k] \in {cached[k], Never}
    PROVE  Kept' /\ (failedAt' = failedAt /\ cached'["attribution"] # Never /\ failedAt # Never
                        => cached'["attribution"].at >= failedAt)
  <1>1. \A k \in CachedKinds : cached'[k] # Never => cached'[k] = cached[k] /\ cached[k] # Never
    OBVIOUS
  <1>2. Kept'
    BY <1>1 DEF ClientInv, Kept, NotGoneBefore
  <1> QED BY <1>1, <1>2 DEF ClientInv, PauseRuns, CachedKinds

\* A call begins: none while the pause runs, none when a recent answer is kept.
LEMMA CallBegins == \A c \in ModuleCalls, k \in Kinds : ClientInv /\ Begin(c, k) => ClientInv'
  <1> SUFFICES ASSUME NEW c \in ModuleCalls, NEW kind \in Kinds, ClientInv, Begin(c, kind)
               PROVE  ClientInv'
    OBVIOUS
  <1> USE ClientLimits DEF ClientInv
  <1> DEFINE k == Cache(kind)
  <1>0. /\ tick \in 0..MaxTime /\ UNCHANGED <<tick, pausedUntil, edition, replacedAt, failedAt>>
        /\ pausedUntil \in Nat /\ DOMAIN cached = CachedKinds /\ edition \in Nat
        /\ call[c].pc = "idle" /\ DOMAIN call = ModuleCalls
    BY DEF Begin, Client
  <1>1. CASE Paused
    <2>1. /\ cached' = IF k \in CachedKinds THEN [cached EXCEPT ![k] = Never] ELSE cached
          /\ UNCHANGED <<call, served>>
      BY <1>1 DEF Begin
    <2>2. DOMAIN cached' = CachedKinds /\ \A j \in CachedKinds : cached'[j] \in {cached[j], Never}
      BY <2>1, <1>0
    <2>3. Client'
      BY <2>1, <2>2, <1>0 DEF Client
    <2>4. \A d \in ModuleCalls : OnItsWay(call[d])'
      BY <2>1, <1>0 DEF OnItsWay, NotGoneBefore
    <2>5. WasServed'
      BY <2>1, <1>0 DEF WasServed
    <2>6. PauseRuns'
      BY <2>1, <2>2, <1>0, CacheGoesOn DEF PauseRuns
    <2> QED BY <2>2, <2>3, <2>4, <2>5, <2>6, <1>0, CacheGoesOn
  <1>2. CASE ~Paused /\ k \in CachedKinds /\ ForgetFirst(kind)[k] # Never /\ Valid(k)
    <2>1. UNCHANGED <<cached, call>> /\ Serve(kind, cached[k].edition, tick)
      BY <1>2 DEF Begin
    <2>2. kind # "fresh" /\ cached[k] # Never
      BY <1>2, <1>0 DEF ForgetFirst, Cache, CachedKinds
    <2>3. /\ NotGoneBefore(cached[k].edition, cached[k].at - 1) /\ cached[k].at \in 0..tick
          /\ tick - cached[k].at < TtlUnits
      BY <1>2, <2>2 DEF Kept, Valid
    <2>4. served'.at = tick /\ served'.began = tick /\ served'.kind = kind
          /\ served'.edition = cached[k].edition
      BY <2>1 DEF Serve
    <2>5. WasServed'
      <3>1. cached[k].edition \in Editions /\ cached[k].edition <= edition
        BY <2>3 DEF NotGoneBefore
      <3>2. ASSUME replacedAt[cached[k].edition] # Never
            PROVE  replacedAt[cached[k].edition] + TtlUnits + 1 >= tick
        <4>1. replacedAt[cached[k].edition] >= cached[k].at - 1
              /\ replacedAt[cached[k].edition] \in Nat
          <5>1. replacedAt \in [Editions -> 0..MaxTime \cup {Never}]
            BY DEF Client
          <5>2. replacedAt[cached[k].edition] >= cached[k].at - 1
            BY <2>3, <3>2, Zenon DEF NotGoneBefore
          <5>3. ASSUME NEW e \in Editions PROVE replacedAt[e] # Never => replacedAt[e] \in Nat
            BY ONLY <5>1, MaxTime \in Nat
          <5> QED BY <3>1, <3>2, <5>2, <5>3, Zenon
        <4> HIDE DEF k
        <4> QED BY ONLY <4>1, <2>3, <1>0, ClientLimits
      <3> HIDE DEF k
      <3> QED BY <2>2, <2>4, <3>1, <3>2, <1>0 DEF WasServed
    <2>6. Client' /\ Kept' /\ PauseRuns'
      BY <2>1, <1>0 DEF Client, Kept, PauseRuns, NotGoneBefore
    <2>7. \A d \in ModuleCalls : OnItsWay(call[d])'
      BY <2>1, <1>0 DEF OnItsWay, NotGoneBefore
    <2> QED BY <2>5, <2>6, <2>7
  <1>3. CASE ~Paused /\ ~(k \in CachedKinds /\ ForgetFirst(kind)[k] # Never /\ Valid(k))
    <2> DEFINE new == [kind |-> kind, pc |-> "sent", began |-> tick, edition |-> 0, known |-> TRUE]
    <2>1. cached' = ForgetFirst(kind) /\ call' = [call EXCEPT ![c] = new] /\ UNCHANGED served
      BY <1>3 DEF Begin
    <2>2. DOMAIN cached' = CachedKinds /\ \A j \in CachedKinds : cached'[j] \in {cached[j], Never}
      BY <2>1, <1>0 DEF ForgetFirst
    <2>3. OnItsWay(new)
      BY <1>0 DEF OnItsWay
    <2>4. DOMAIN call' = ModuleCalls /\ \A d \in ModuleCalls : OnItsWay(call[d])'
      BY <2>1, <2>3, <1>0, CallsGoOn
    <2>5. Client'
      BY <2>1, <2>2, <2>4, <1>0 DEF Client
    <2>6. WasServed'
      BY <2>1, <1>0 DEF WasServed
    <2>7. Kept' /\ (cached'["attribution"] # Never /\ failedAt # Never
                        => cached'["attribution"].at >= failedAt)
      BY <2>2, <1>0, CacheGoesOn
    <2>8. PauseRuns'
      <3>1. failedAt # Never => tick >= failedAt + PauseUnits /\ failedAt <= tick
                                /\ pausedUntil = failedAt + PauseUnits
        BY <1>3, <1>0 DEF Paused, PauseRuns, Client
      <3>2. \A d \in ModuleCalls : call'[d] = IF d = c THEN new ELSE call[d]
        BY <2>1, <1>0
      <3>3. \A d \in ModuleCalls :
                call'[d].pc # "idle" /\ call'[d].known /\ failedAt # Never
                    => call'[d].began >= failedAt + PauseUnits
        BY <3>1, <3>2 DEF PauseRuns
      <3> QED BY <2>7, <3>1, <3>3, <1>0 DEF PauseRuns
    <2> QED BY <2>4, <2>5, <2>6, <2>7, <2>8
  <1> QED BY <1>1, <1>2, <1>3

\* The module reads its data for a call: the newest edition, which nothing has replaced.
LEMMA ModuleAnswers == \A c \in ModuleCalls : ClientInv /\ ModuleReads(c) => ClientInv'
  <1> SUFFICES ASSUME NEW c \in ModuleCalls, ClientInv, ModuleReads(c) PROVE ClientInv'
    OBVIOUS
  <1> USE ClientLimits DEF ClientInv
  <1> DEFINE new == [call[c] EXCEPT !.pc = "read", !.edition = edition]
  <1>0. /\ UNCHANGED <<tick, pausedUntil, cached, edition, replacedAt, served, failedAt>>
        /\ call' = [call EXCEPT ![c] = new] /\ DOMAIN call = ModuleCalls
        /\ edition \in Editions /\ replacedAt[edition] = Never /\ call[c].pc = "sent"
    <2>1. edition \in Editions /\ edition \in Nat
      BY DEF Client
    <2>2. replacedAt[edition] = Never
      BY <2>1 DEF Client
    <2> QED BY <2>1, <2>2 DEF ModuleReads, Client
  <1>1. OnItsWay(new)
    <2>1. OnItsWay(call[c])
      OBVIOUS
    <2> QED BY <2>1, <1>0 DEF OnItsWay, NotGoneBefore
  <1>2. DOMAIN call' = ModuleCalls /\ \A d \in ModuleCalls : OnItsWay(call[d])'
    BY <1>0, <1>1, CallsGoOn
  <1>3. Client' /\ Kept' /\ WasServed'
    BY <1>0, <1>2 DEF Client, Kept, WasServed, NotGoneBefore
  <1>4. PauseRuns'
    <2>1. OnItsWay(call[c])
      OBVIOUS
    <2>2. new.known = call[c].known /\ new.began = call[c].began
      BY <2>1 DEF OnItsWay
    <2>3. \A d \in ModuleCalls : call'[d] = IF d = c THEN new ELSE call[d]
      BY <1>0
    <2> HIDE DEF new
    <2> QED BY <2>2, <2>3, <1>0 DEF PauseRuns
  <1> QED BY <1>2, <1>3, <1>4

\* An answer: what is kept of it was the module's when it was read.
LEMMA AnswerKept == \A c \in ModuleCalls : ClientInv /\ Answer(c) => ClientInv'
  <1> SUFFICES ASSUME NEW c \in ModuleCalls, ClientInv, Answer(c) PROVE ClientInv'
    OBVIOUS
  <1> USE ClientLimits DEF ClientInv
  <1> DEFINE k == Cache(call[c].kind)
             answer == [at |-> tick, edition |-> call[c].edition]
  <1>0. /\ UNCHANGED <<tick, pausedUntil, edition, replacedAt, failedAt>>
        /\ call' = [call EXCEPT ![c] = NoCall] /\ DOMAIN call = ModuleCalls
        /\ DOMAIN cached = CachedKinds /\ call[c].pc = "read" /\ tick \in 0..MaxTime
        /\ replacedAt \in [Editions -> 0..MaxTime \cup {Never}]
    BY DEF Answer, Client
  <1>1. /\ NotGoneBefore(call[c].edition, call[c].began) /\ call[c].began \in 0..tick
        /\ call[c].began + 1 >= tick
    BY <1>0 DEF OnItsWay
  <1>2. DOMAIN call' = ModuleCalls /\ \A d \in ModuleCalls : OnItsWay(call[d])'
    BY <1>0, NoCallIsOnItsWay, CallsGoOn
  <1>3. \A d \in ModuleCalls : call'[d] = IF d = c THEN NoCall ELSE call[d]
    BY <1>0
  <1>4. CASE k \in CachedKinds
    <2>1. /\ cached' = [cached EXCEPT ![k] = answer]
          /\ served' = [kind |-> call[c].kind, at |-> tick, edition |-> call[c].edition,
                        began |-> call[c].began]
      BY <1>4 DEF Answer, Serve
    <2>2. DOMAIN cached' = CachedKinds /\ \A j \in CachedKinds :
            cached'[j] = IF j = k THEN answer ELSE cached[j]
      BY <2>1, <1>0
    <2>3. Client'
      BY <1>0, <1>2, <2>2 DEF Client
    <2>4. Kept'
      <3>0. tick - 1 <= call[c].began /\ tick - 1 \in Int /\ call[c].began \in Int
        BY <1>0, <1>1
      <3>1. answer.at \in 0..tick /\ NotGoneBefore(answer.edition, answer.at - 1)
        BY <1>0, <1>1, <3>0, NotGoneEarlier
      <3>2. SUFFICES ASSUME NEW j \in CachedKinds, cached'[j] # Never
                     PROVE  /\ cached'[j].at \in 0..tick
                            /\ NotGoneBefore(cached[j].edition, cached[j].at - 1)'
        BY <1>0 DEF Kept
      <3>3. CASE j = k
        <4>1. cached'[j] = answer
          BY <2>2, <3>3
        <4> HIDE DEF k, answer
        <4> QED BY <4>1, <3>1, <1>0 DEF NotGoneBefore
      <3>4. CASE j # k
        <4>1. cached'[j] = cached[j]
          BY <2>2, <3>4
        <4>2. cached[j].at \in 0..tick /\ NotGoneBefore(cached[j].edition, cached[j].at - 1)
          BY <4>1, <3>2 DEF Kept
        <4> QED BY <4>1, <4>2, <1>0 DEF NotGoneBefore
      <3> QED BY <3>3, <3>4
    <2>5. WasServed'
      <3>1. served'.at = tick /\ served'.edition = call[c].edition
            /\ served'.began = call[c].began /\ served'.kind = call[c].kind
        BY <2>1
      <3>2. call[c].edition \in Editions /\ call[c].edition <= edition
        BY <1>1 DEF NotGoneBefore
      <3>3. ASSUME replacedAt[call[c].edition] # Never
            PROVE  /\ replacedAt[call[c].edition] >= call[c].began
                   /\ replacedAt[call[c].edition] + TtlUnits + 1 >= tick
        <4>1. replacedAt[call[c].edition] >= call[c].began /\ replacedAt[call[c].edition] \in Nat
          <5> DEFINE e == call[c].edition
          <5>1. e \in Editions /\ replacedAt[e] # Never
            BY <3>2, <3>3
          <5>2. replacedAt[e] >= call[c].began
            BY <1>1, <3>3 DEF NotGoneBefore
          <5> HIDE DEF e
          <5>3. replacedAt[e] \in Nat
            BY ONLY <5>1, <1>0, ClientLimits
          <5> QED BY <5>2, <5>3 DEF e
        <4> DEFINE gone == replacedAt[call[c].edition]
                   b == call[c].began
        <4>2. gone >= b /\ gone \in Nat /\ b \in 0..tick /\ b + 1 >= tick
          BY <4>1, <1>1
        <4> HIDE DEF gone, b
        <4>3. gone + TtlUnits + 1 >= tick
          BY ONLY <4>2, <1>0, ClientLimits
        <4> QED BY <4>2, <4>3 DEF gone, b
      <3> HIDE DEF k, answer
      <3> QED BY <3>1, <3>2, <3>3, <1>0, <1>1 DEF WasServed
    <2>6. PauseRuns'
      <3>1. answer.at = tick /\ NoCall.pc = "idle"
        BY DEF NoCall
      <3> HIDE DEF k, answer
      <3> QED BY <2>2, <1>0, <1>3, <3>1 DEF PauseRuns, CachedKinds, Client
    <2> QED BY <1>2, <2>3, <2>4, <2>5, <2>6
  <1>5. CASE k \notin CachedKinds
    <2>1. UNCHANGED <<cached, served>>
      BY <1>5 DEF Answer
    <2>2. Client' /\ Kept' /\ WasServed'
      BY <1>0, <1>2, <2>1 DEF Client, Kept, WasServed, NotGoneBefore
    <2>3. PauseRuns'
      <3>1. NoCall.pc = "idle"
        BY DEF NoCall
      <3> QED BY <2>1, <1>0, <1>3, <3>1 DEF PauseRuns
    <2> QED BY <1>2, <2>2, <2>3
  <1> QED BY <1>4, <1>5

\* A failure that pauses forgets the attribution and what the other calls know.
LEMMA FailurePauses == \A c \in ModuleCalls : ClientInv /\ FailPausing(c) => ClientInv'
  <1> SUFFICES ASSUME NEW c \in ModuleCalls, ClientInv, FailPausing(c) PROVE ClientInv'
    OBVIOUS
  <1> USE ClientLimits DEF ClientInv
  <1>0. /\ UNCHANGED <<tick, edition, replacedAt, served>> /\ tick \in 0..MaxTime
        /\ pausedUntil' = tick + PauseUnits /\ failedAt' = tick
        /\ cached' = [cached EXCEPT !["attribution"] = Never] /\ DOMAIN cached = CachedKinds
        /\ DOMAIN call' = ModuleCalls /\ DOMAIN call = ModuleCalls
    BY DEF FailPausing, Pause, Client
  <1>1. \A d \in ModuleCalls :
            call'[d] = IF d = c THEN NoCall ELSE [call[d] EXCEPT !.known = FALSE]
    BY DEF FailPausing
  <1>2. ASSUME NEW d \in ModuleCalls
        PROVE  OnItsWay(call[d])' /\ (call'[d].pc = "idle" \/ call'[d].known = FALSE)
    <2>1. OnItsWay(call[d])
      OBVIOUS
    <2>2. CASE d = c
      <3>1. call'[d] = NoCall
        BY <1>1, <2>2
      <3>2. OnItsWay(NoCall) /\ NoCall.pc = "idle"
        BY NoCallIsOnItsWay DEF NoCall
      <3> QED BY <3>1, <3>2, <1>0 DEF OnItsWay, NotGoneBefore
    <2>3. CASE d # c
      <3>1. call'[d] = [call[d] EXCEPT !.known = FALSE]
        BY <1>1, <2>3
      <3>2. call'[d].known = FALSE
        BY <2>1, <3>1 DEF OnItsWay
      <3> QED BY <2>1, <3>1, <3>2, <1>0 DEF OnItsWay, NotGoneBefore
    <2> QED BY <2>2, <2>3
  <1>3. cached'["attribution"] = Never /\ DOMAIN cached' = CachedKinds
        /\ \A k \in CachedKinds : cached'[k] \in {cached[k], Never}
    BY <1>0 DEF CachedKinds
  <1>4. Client'
    BY <1>0, <1>3 DEF Client
  <1>5. Kept'
    BY <1>0, <1>3, CacheGoesOn
  <1>6. WasServed'
    BY <1>0 DEF WasServed
  <1>7. PauseRuns'
    <2>1. \A d \in ModuleCalls : ~(call'[d].pc # "idle" /\ call'[d].known)
      BY <1>2
    <2>2. failedAt' <= tick' /\ pausedUntil' = failedAt' + PauseUnits
      BY <1>0
    <2> QED BY ONLY <1>3, <2>1, <2>2 DEF PauseRuns
  <1> QED BY <1>2, <1>4, <1>5, <1>6, <1>7

\* Another failure ends the call and forgets its own answer.
LEMMA FailureEnds == \A c \in ModuleCalls : ClientInv /\ FailOnly(c) => ClientInv'
  <1> SUFFICES ASSUME NEW c \in ModuleCalls, ClientInv, FailOnly(c) PROVE ClientInv'
    OBVIOUS
  <1> USE ClientLimits DEF ClientInv
  <1> DEFINE k == Cache(call[c].kind)
  <1>0. /\ UNCHANGED <<tick, pausedUntil, edition, replacedAt, served, failedAt>>
        /\ call' = [call EXCEPT ![c] = NoCall] /\ DOMAIN call = ModuleCalls
        /\ cached' = IF k \in CachedKinds THEN [cached EXCEPT ![k] = Never] ELSE cached
        /\ DOMAIN cached = CachedKinds
    BY DEF FailOnly, Client
  <1>1. DOMAIN call' = ModuleCalls /\ \A d \in ModuleCalls : OnItsWay(call[d])'
    BY <1>0, NoCallIsOnItsWay, CallsGoOn
  <1>2. DOMAIN cached' = CachedKinds /\ \A j \in CachedKinds : cached'[j] \in {cached[j], Never}
    BY <1>0
  <1>3. Client' /\ WasServed'
    BY <1>0, <1>1, <1>2 DEF Client, WasServed
  <1>4. Kept' /\ (cached'["attribution"] # Never /\ failedAt # Never
                        => cached'["attribution"].at >= failedAt)
    BY <1>0, <1>2, CacheGoesOn
  <1>5. PauseRuns'
    <2>1. \A d \in ModuleCalls : call'[d] = IF d = c THEN NoCall ELSE call[d]
      BY <1>0
    <2>2. NoCall.pc = "idle"
      BY DEF NoCall
    <2> QED BY <2>1, <2>2, <1>4, <1>0 DEF PauseRuns
  <1> QED BY <1>1, <1>3, <1>4, <1>5

\* Every step of the client, and every step of the others, keeps its invariant.
LEMMA ClientSteps == ClientInv /\ (ModuleNext \/ UNCHANGED moduleVars) => ClientInv'
  <1> SUFFICES ASSUME ClientInv, ModuleNext \/ UNCHANGED moduleVars PROVE ClientInv'
    OBVIOUS
  <1>1. CASE UNCHANGED moduleVars
    BY <1>1 DEF moduleVars, ClientInv, Client, Kept, OnItsWay, WasServed, PauseRuns, NotGoneBefore
  <1>2. CASE ModuleNext
    BY <1>2, TimePasses, EditionReplaced, CallBegins, ModuleAnswers, AnswerKept, FailurePauses,
       FailureEnds DEF ModuleNext
  <1> QED BY <1>1, <1>2

\* What the run checks of the client follows.
LEMMA ClientIsHeard ==
    ClientInv => ModuleTypeOK /\ ServedIsRecent /\ PauseHolds /\ NothingAcrossPause
  <1> SUFFICES ASSUME ClientInv
               PROVE  ModuleTypeOK /\ ServedIsRecent /\ PauseHolds /\ NothingAcrossPause
    OBVIOUS
  <1>1. ModuleTypeOK
    BY ClientLimits DEF ClientInv, Client, Kept, OnItsWay, ModuleTypeOK
  <1>2. ServedIsRecent
    BY DEF ClientInv, WasServed, ServedIsRecent
  <1>3. PauseHolds /\ NothingAcrossPause
    BY DEF ClientInv, PauseRuns, PauseHolds, NothingAcrossPause
  <1> QED BY <1>1, <1>2, <1>3

-----------------------------------------------------------------------------
(* The wait before a graph *)

Calling == {"post", "post2", "get"}
Waiting == Calling \cup {"rest", "sleep"}
BuildStates == {"none", "queued", "running", "done", "failed"}

WaitTypes ==
    /\ WaitTypeOK /\ wpc \in Waiting \cup {"send", "warn", "graph", "stopped"}
    /\ builds \in [BuildIds -> BuildStates] /\ lookFaults \in Nat

\* Where the wait is, its clock stays within what is left of the limit: the POST, its rest
\* and the second POST fit into it.
InTime ==
    /\ wpc = "send" => now = 0
    /\ wpc \in Waiting => now <= until
    /\ wpc \in Calling => until <= now + 1
    /\ wpc = "post" => until <= 1
    /\ wpc = "rest" => until <= 1 + PollUnits

\* A wait that goes on has no outcome yet.
OutcomeIsLast ==
    /\ wpc \in Waiting \cup {"send"} => waitEnd = "none"
    /\ DoneIsTheAsked

\* A cancellation not heeded came during a call, which is a unit long, or could not be read.
CancelIsNew(t) == cancelAt # NoId => t - cancelAt <= 1 \/ lookFaults > 0
Heeded ==
    /\ wpc \in Calling => CancelIsNew(until)
    /\ wpc \in {"warn", "graph"} /\ waitEnd # "off" => CancelIsNew(now)

WaitInv == WaitTypes /\ InTime /\ OutcomeIsLast /\ Heeded

\* The limits are numbers.
LEMMA WaitLimits ==
    /\ PollUnits \in Nat /\ PollUnits > 0 /\ WaitUnits \in Nat /\ WaitUnits > 2 * PollUnits
    /\ BuildIds \subseteq Nat /\ NoId \notin Nat /\ MaxLookFaults \in Nat
  BY WaitAssumption

\* The wait has not begun, or does not take place.
LEMMA WaitStart ==
    (\/ WaitInit
     \/ /\ wpc = "graph" /\ now = 0 /\ until = 0 /\ asked = NoId /\ waitEnd = "off"
        /\ builds = [b \in BuildIds |-> "none"] /\ cancelAt = NoId /\ lookFaults = 0)
    => WaitInv
  BY WaitLimits DEF WaitInit, WaitInv, WaitTypes, WaitTypeOK, InTime, OutcomeIsLast, DoneIsTheAsked,
     Heeded, CancelIsNew, Waiting, Calling, BuildStates

\* Time passes up to the end of the call or the sleep.
LEMMA PassesKeeps == WaitInv /\ Passes1 => WaitInv'
  <1> SUFFICES ASSUME WaitInv, Passes1 PROVE WaitInv'
    OBVIOUS
  <1> USE WaitLimits DEF WaitInv
  <1>0. /\ wpc \in Waiting /\ now < until /\ now' = now + 1 /\ now \in 0..WaitUnits
        /\ until \in 0..WaitUnits
        /\ UNCHANGED <<wpc, until, asked, waitEnd, builds, cancelAt, lookFaults>>
    BY DEF Passes1, WaitTypes, WaitTypeOK, Waiting, Calling
  <1>1. WaitTypes'
    BY <1>0 DEF WaitTypes, WaitTypeOK
  <1>2. InTime'
    BY <1>0 DEF InTime, Waiting, Calling
  <1>3. OutcomeIsLast'
    BY <1>0 DEF OutcomeIsLast, DoneIsTheAsked
  <1>4. Heeded'
    BY <1>0 DEF Heeded, CancelIsNew, Waiting, Calling
  <1> QED BY <1>1, <1>2, <1>3, <1>4

\* The operator cancels: now.
LEMMA CancelKeeps == WaitInv /\ RequestCancel => WaitInv'
  <1> SUFFICES ASSUME WaitInv, RequestCancel PROVE WaitInv'
    OBVIOUS
  <1> USE WaitLimits DEF WaitInv
  <1>0. /\ cancelAt' = now /\ now \in 0..WaitUnits /\ until \in 0..WaitUnits
        /\ UNCHANGED <<wpc, now, until, asked, waitEnd, builds, lookFaults>>
        /\ wpc \notin {"graph", "stopped"}
    BY DEF RequestCancel, WaitTypes, WaitTypeOK
  <1>1. WaitTypes' /\ InTime' /\ OutcomeIsLast'
    BY <1>0 DEF WaitTypes, WaitTypeOK, InTime, OutcomeIsLast, DoneIsTheAsked
  <1>4. Heeded'
    BY <1>0 DEF Heeded, CancelIsNew, InTime, WaitTypes, Waiting, Calling
  <1> QED BY <1>1, <1>4

\* What a step does to the builds and to the job's look, beside the wait itself.
World ==
    /\ now' = now /\ cancelAt' = cancelAt /\ lookFaults' \in Nat
    /\ asked' \in BuildIds \cup {NoId} /\ builds' \in [BuildIds -> BuildStates]

\* The wait ends: well only on the build asked for, and not over a cancellation it knew of.
LEMMA EndKeeps ==
    ASSUME WaitInv, World, wpc \in Waiting,
           NEW outcome \in {"unavailable", "cancelled", "done", "up_to_date"}, WaitEnds(outcome),
           outcome \in {"done", "up_to_date"} => asked' # NoId /\ builds'[asked'] = "done",
           outcome = "cancelled" \/ CancelIsNew(now)'
    PROVE  WaitInv'
  <1> USE WaitLimits DEF WaitInv
  <1>0. /\ waitEnd' = outcome /\ UNCHANGED <<until, now, cancelAt>>
        /\ wpc' = IF outcome = "cancelled" THEN "stopped" ELSE "warn"
    BY DEF WaitEnds, World
  <1>1. WaitTypes'
    BY <1>0 DEF WaitTypes, WaitTypeOK, World
  <1>2. InTime'
    BY <1>0 DEF InTime, Waiting, Calling
  <1>3. OutcomeIsLast'
    BY <1>0 DEF OutcomeIsLast, DoneIsTheAsked, Waiting, Calling
  <1>4. Heeded'
    BY <1>0 DEF Heeded, CancelIsNew, Calling
  <1> QED BY <1>1, <1>2, <1>3, <1>4

\* A sleep ends by the deadline.
LEMMA SleepKeeps ==
    ASSUME WaitInv, World, wpc \in Waiting, Sleep, waitEnd' = waitEnd, asked' # NoId
    PROVE  WaitInv'
  <1> USE WaitLimits DEF WaitInv
  <1>0. /\ UNCHANGED <<waitEnd, now, cancelAt>> /\ wpc' = "sleep" /\ now \in 0..WaitUnits
        /\ waitEnd = "none"
    BY DEF Sleep, World, WaitTypes, WaitTypeOK, OutcomeIsLast
  <1>1. until' \in now..WaitUnits
    BY <1>0 DEF Sleep, Least
  <1>2. WaitTypes'
    BY <1>0, <1>1 DEF WaitTypes, WaitTypeOK, World, Waiting, Calling
  <1>3. InTime' /\ OutcomeIsLast' /\ Heeded'
    BY <1>0, <1>1 DEF InTime, OutcomeIsLast, DoneIsTheAsked, Heeded, CancelIsNew, Waiting, Calling
  <1> QED BY <1>2, <1>3

\* A call is a unit long at most, and follows a look that saw no cancellation.
LEMMA CallKeeps ==
    ASSUME WaitInv, World, wpc \in Waiting \cup {"send"}, NEW pc \in Calling, Call(pc),
           waitEnd' = waitEnd, cancelAt = NoId \/ lookFaults' > 0, pc = "post" => now = 0,
           pc = "get" => asked' # NoId
    PROVE  WaitInv'
  <1> USE WaitLimits DEF WaitInv
  <1>0. /\ UNCHANGED <<waitEnd, now, cancelAt>> /\ wpc' = pc /\ now \in 0..WaitUnits
        /\ waitEnd = "none"
    BY DEF Call, World, WaitTypes, WaitTypeOK, OutcomeIsLast
  <1>1. until' \in now..WaitUnits /\ until' <= now + 1
    BY <1>0 DEF Call, Least
  <1>2. WaitTypes'
    BY <1>0, <1>1 DEF WaitTypes, WaitTypeOK, World, Waiting, Calling
  <1>3. InTime' /\ OutcomeIsLast' /\ Heeded'
    BY <1>0, <1>1 DEF InTime, OutcomeIsLast, DoneIsTheAsked, Heeded, CancelIsNew, Waiting, Calling
  <1> QED BY <1>2, <1>3

\* During a call, a cancellation is at most a unit old, or was not read.
LEMMA CallIsShort == WaitInv /\ wpc \in Calling => CancelIsNew(now)
  <1> SUFFICES ASSUME WaitInv, wpc \in Calling PROVE CancelIsNew(now)
    OBVIOUS
  <1>1. /\ now \in 0..WaitUnits /\ until \in 0..WaitUnits /\ cancelAt \in 0..WaitUnits \cup {NoId}
        /\ lookFaults \in Nat
    BY DEF WaitInv, WaitTypes, WaitTypeOK
  <1>2. now <= until /\ CancelIsNew(until)
    BY DEF WaitInv, InTime, Heeded, Waiting
  <1> QED BY <1>1, <1>2, WaitLimits DEF CancelIsNew

\* What an answer about a build makes of the wait.
LEMMA AnswerKeeps ==
    ASSUME WaitInv, World, lookFaults' = lookFaults, wpc \in Calling, NEW b \in BuildIds,
           asked' = b, NEW state, Answered(b, state),
           state \in {"done", "up_to_date"} => builds'[b] = "done"
    PROVE  WaitInv'
  <1>1. CancelIsNew(now)' /\ wpc \in Waiting /\ asked' # NoId
    BY CallIsShort, WaitLimits DEF World, CancelIsNew, Waiting
  <1>2. CASE state \in {"done", "up_to_date"}
    BY <1>1, <1>2, EndKeeps DEF Answered
  <1>3. CASE WaitEnds("unavailable")
    BY <1>1, <1>3, EndKeeps
  <1>4. CASE Sleep /\ UNCHANGED waitEnd
    BY <1>1, <1>4, SleepKeeps
  <1> QED BY <1>2, <1>3, <1>4 DEF Answered, PollAgain

\* The calls of the wait, their answers and their failures.
LEMMA PostsKeep == WaitInv /\ (PostAnswered \/ PostRefused \/ PostUnanswered) => WaitInv'
  <1> USE WaitLimits
  <1>1. ASSUME WaitInv, PostAnswered PROVE WaitInv'
    <2>1. PICK b \in BuildIds :
            /\ asked' = b
            /\ \/ /\ builds[b] = "none" /\ builds' = [builds EXCEPT ![b] = "queued"]
                  /\ Answered(b, "queued")
               \/ builds[b] \notin {"none", "done"} /\ Answered(b, builds[b]) /\ UNCHANGED builds
               \/ builds[b] = "done" /\ Answered(b, "up_to_date") /\ UNCHANGED builds
      BY <1>1 DEF PostAnswered
    <2>2. /\ builds \in [BuildIds -> BuildStates] /\ lookFaults' = lookFaults /\ wpc \in Calling
          /\ World
      BY <1>1, <2>1 DEF PostAnswered, World, WaitInv, WaitTypes, Calling, BuildStates
    <2>3. CASE builds[b] = "none" /\ Answered(b, "queued")
      BY <1>1, <2>1, <2>2, <2>3, AnswerKeeps
    <2>4. CASE builds[b] \notin {"none", "done"} /\ Answered(b, builds[b]) /\ UNCHANGED builds
      <3>1. builds[b] \notin {"done", "up_to_date"}
        BY <2>2, <2>4 DEF BuildStates
      <3> QED BY <1>1, <2>1, <2>2, <2>4, <3>1, AnswerKeeps
    <2>5. CASE builds[b] = "done" /\ Answered(b, "up_to_date") /\ UNCHANGED builds
      BY <1>1, <2>1, <2>2, <2>5, AnswerKeeps
    <2> QED BY <2>1, <2>3, <2>4, <2>5
  <1>2. ASSUME WaitInv, PostRefused PROVE WaitInv'
    <2>1. World /\ wpc \in Calling /\ UNCHANGED <<now, cancelAt, lookFaults>>
      BY <1>2 DEF PostRefused, World, WaitInv, WaitTypes, WaitTypeOK, Calling
    <2>2. CancelIsNew(now)' /\ wpc \in Waiting
      BY <1>2, <2>1, CallIsShort DEF CancelIsNew, Waiting
    <2> QED BY <1>2, <2>1, <2>2, EndKeeps DEF PostRefused
  <1>3. ASSUME WaitInv, PostUnanswered PROVE WaitInv'
    <2>1. World /\ wpc \in {"post", "post2"} /\ UNCHANGED <<now, asked, cancelAt, lookFaults>>
      BY <1>3 DEF PostUnanswered, World, WaitInv, WaitTypes, WaitTypeOK, BuildStates
    <2>2. CancelIsNew(now)' /\ wpc \in Waiting
      BY <1>3, <2>1, CallIsShort DEF CancelIsNew, Waiting, Calling
    <2>3. CASE wpc = "post2"
      BY <1>3, <2>1, <2>2, <2>3, EndKeeps DEF PostUnanswered
    <2>4. CASE wpc = "post"
      <3>1. /\ wpc' = "rest" /\ until' = now + PollUnits /\ waitEnd' = waitEnd /\ waitEnd = "none"
            /\ now \in 0..WaitUnits /\ now <= 1
        <4>1. now <= until /\ until <= 1 /\ now \in 0..WaitUnits /\ until \in 0..WaitUnits
          BY <1>3, <2>4 DEF WaitInv, InTime, WaitTypes, WaitTypeOK, Waiting, Calling
        <4> QED BY <1>3, <2>4, <4>1 DEF PostUnanswered, WaitInv, OutcomeIsLast, Waiting, Calling
      <3>2. until' \in 0..WaitUnits /\ now <= until' /\ until' <= 1 + PollUnits
        BY ONLY <3>1, WaitLimits
      <3>3. WaitTypes'
        BY <1>3, <2>1, <3>1, <3>2 DEF WaitInv, WaitTypes, WaitTypeOK, World, Waiting
      <3> QED BY <1>3, <2>1, <3>1, <3>2, <3>3 DEF WaitInv, InTime, OutcomeIsLast, DoneIsTheAsked,
            Heeded, Waiting, Calling
    <2> QED BY <2>1, <2>3, <2>4
  <1> QED BY <1>1, <1>2, <1>3

\* The looks between the calls.
LEMMA LooksKeep == WaitInv /\ (SendExtracts \/ RestEnds \/ SleepEnds) => WaitInv'
  <1> USE WaitLimits
  <1>1. ASSUME WaitInv, SendExtracts PROVE WaitInv'
    <2>0. /\ wpc = "send" /\ UNCHANGED <<now, asked, builds, cancelAt>> /\ now = 0
          /\ waitEnd = "none" /\ lookFaults \in Nat /\ WaitTypes
      BY <1>1 DEF SendExtracts, WaitInv, InTime, OutcomeIsLast, WaitTypes
    <2>1. CASE Call("post") /\ UNCHANGED waitEnd
                /\ ((cancelAt = NoId /\ UNCHANGED lookFaults) \/ lookFaults' = lookFaults + 1)
      <3>1. World /\ (cancelAt = NoId \/ lookFaults' > 0)
        BY <2>0, <2>1 DEF World, WaitTypes, WaitTypeOK
      <3> QED BY <1>1, <2>0, <2>1, <3>1, CallKeeps DEF Calling
    <2>2. CASE wpc' = "stopped" /\ UNCHANGED <<until, waitEnd, lookFaults>>
      BY <1>1, <2>0, <2>2 DEF WaitInv, WaitTypes, WaitTypeOK, InTime, OutcomeIsLast,
         DoneIsTheAsked, Heeded, Waiting, Calling
    <2>3. CASE wpc' = "warn" /\ waitEnd' = "off" /\ UNCHANGED <<until, lookFaults>>
      BY <1>1, <2>0, <2>3 DEF WaitInv, WaitTypes, WaitTypeOK, InTime, OutcomeIsLast,
         DoneIsTheAsked, Heeded, Waiting, Calling
    <2> QED BY <1>1, <2>1, <2>2, <2>3 DEF SendExtracts, Heeds
  <1>2. ASSUME WaitInv, RestEnds PROVE WaitInv'
    <2>0. /\ wpc = "rest" /\ UNCHANGED <<now, asked, builds, cancelAt>> /\ lookFaults \in Nat
          /\ WaitTypes /\ wpc \in Waiting
      BY <1>2 DEF RestEnds, WaitInv, WaitTypes, Waiting
    <2>1. CASE Call("post2") /\ UNCHANGED waitEnd
                /\ ((cancelAt = NoId /\ UNCHANGED lookFaults) \/ lookFaults' = lookFaults + 1)
      <3>1. World /\ (cancelAt = NoId \/ lookFaults' > 0)
        BY <2>0, <2>1 DEF World, WaitTypes, WaitTypeOK
      <3> QED BY <1>2, <2>0, <2>1, <3>1, CallKeeps DEF Calling
    <2>2. CASE WaitEnds("cancelled") /\ UNCHANGED lookFaults
      <3>1. World
        BY <2>0, <2>2 DEF World, WaitTypes, WaitTypeOK
      <3> QED BY <1>2, <2>0, <2>2, <3>1, EndKeeps
    <2> QED BY <1>2, <2>1, <2>2 DEF RestEnds, Heeds
  <1>3. ASSUME WaitInv, SleepEnds PROVE WaitInv'
    <2>0. /\ wpc = "sleep" /\ UNCHANGED <<now, asked, builds, cancelAt>> /\ lookFaults \in Nat
          /\ WaitTypes /\ wpc \in Waiting /\ asked' # NoId
      BY <1>3 DEF SleepEnds, WaitInv, WaitTypes, WaitTypeOK, Waiting
    <2>1. CASE /\ IF Overdue THEN WaitEnds("unavailable") ELSE Call("get") /\ UNCHANGED waitEnd
               /\ (cancelAt = NoId /\ UNCHANGED lookFaults) \/ lookFaults' = lookFaults + 1
      <3>1. World /\ (cancelAt = NoId \/ lookFaults' > 0)
        BY <2>0, <2>1 DEF World, WaitTypes, WaitTypeOK
      <3>2. CASE Overdue
        <4>1. CancelIsNew(now)'
          BY <2>0, <3>1 DEF CancelIsNew
        <4> QED BY <1>3, <2>0, <2>1, <3>1, <3>2, <4>1, EndKeeps
      <3>3. CASE ~Overdue
        BY <1>3, <2>0, <2>1, <3>1, <3>3, CallKeeps DEF Calling
      <3> QED BY <3>2, <3>3
    <2>2. CASE WaitEnds("cancelled") /\ UNCHANGED lookFaults
      <3>1. World
        BY <2>0, <2>2 DEF World, WaitTypes, WaitTypeOK
      <3> QED BY <1>3, <2>0, <2>2, <3>1, EndKeeps
    <2> QED BY <1>3, <2>1, <2>2 DEF SleepEnds, Heeds
  <1> QED BY <1>1, <1>2, <1>3

\* The GET, and what follows the wait.
LEMMA GetsKeep == WaitInv /\ (GetAnswered \/ GetFails \/ NoteCountryWarning) => WaitInv'
  <1> USE WaitLimits
  <1>0. ASSUME WaitInv, wpc = "get", UNCHANGED <<now, asked, builds, cancelAt, lookFaults>>
        PROVE  /\ World /\ wpc \in Calling /\ wpc \in Waiting /\ asked' = asked /\ asked \in BuildIds
               /\ CancelIsNew(now)'
    <2>1. World /\ wpc \in Calling /\ wpc \in Waiting /\ asked \in BuildIds
      BY <1>0 DEF World, WaitInv, WaitTypes, WaitTypeOK, Calling, Waiting
    <2> QED BY <1>0, <2>1, CallIsShort DEF CancelIsNew
  <1>1. ASSUME WaitInv, GetAnswered PROVE WaitInv'
    <2>1. /\ wpc = "get" /\ UNCHANGED <<now, asked, builds, cancelAt, lookFaults>>
          /\ Answered(asked, builds[asked])
      BY <1>1 DEF GetAnswered
    <2>2. /\ World /\ wpc \in Calling /\ asked' = asked /\ asked \in BuildIds
          /\ builds[asked] \in BuildStates
      BY <1>0, <1>1, <2>1 DEF WaitInv, WaitTypes
    <2>3. builds[asked] \in {"done", "up_to_date"} => builds'[asked] = "done"
      BY <2>1, <2>2 DEF BuildStates
    <2> QED BY <1>1, <2>1, <2>2, <2>3, AnswerKeeps
  <1>2. ASSUME WaitInv, GetFails PROVE WaitInv'
    <2>1. /\ wpc = "get" /\ UNCHANGED <<now, asked, builds, cancelAt, lookFaults>>
      BY <1>2 DEF GetFails
    <2>2. World /\ wpc \in Waiting /\ asked' # NoId /\ CancelIsNew(now)'
      BY <1>0, <1>2, <2>1
    <2>3. CASE WaitEnds("unavailable")
      BY <1>2, <2>2, <2>3, EndKeeps
    <2>4. CASE Sleep /\ UNCHANGED waitEnd
      BY <1>2, <2>2, <2>4, SleepKeeps
    <2> QED BY <1>2, <2>3, <2>4 DEF GetFails, PollAgain
  <1>3. ASSUME WaitInv, NoteCountryWarning PROVE WaitInv'
    <2>0. /\ wpc = "warn" /\ wpc' = "graph"
          /\ UNCHANGED <<now, until, asked, waitEnd, builds, cancelAt, lookFaults>>
      BY <1>3 DEF NoteCountryWarning
    <2>1. WaitTypes' /\ InTime' /\ OutcomeIsLast'
      BY <1>3, <2>0 DEF WaitInv, WaitTypes, WaitTypeOK, InTime, OutcomeIsLast, DoneIsTheAsked,
         Waiting, Calling
    <2>2. Heeded'
      BY <1>3, <2>0 DEF WaitInv, Heeded, CancelIsNew, Calling
    <2> QED BY <2>1, <2>2 DEF WaitInv
  <1> QED BY <1>1, <1>2, <1>3

\* The module goes on with its builds: one that is done stays done.
LEMMA BuildsKeep == \A b \in BuildIds : WaitInv /\ ModuleBuilds(b) => WaitInv'
  <1> SUFFICES ASSUME NEW b \in BuildIds, WaitInv, ModuleBuilds(b) PROVE WaitInv'
    OBVIOUS
  <1> USE WaitLimits DEF WaitInv
  <1>0. UNCHANGED <<wpc, now, until, asked, waitEnd, cancelAt, lookFaults>>
    BY DEF ModuleBuilds
  <1>1. /\ builds' \in [BuildIds -> BuildStates]
        /\ \A d \in BuildIds : builds[d] = "done" => builds'[d] = "done"
    BY DEF ModuleBuilds, WaitTypes, BuildStates
  <1>2. WaitTypes'
    BY <1>0, <1>1 DEF WaitTypes, WaitTypeOK
  <1>3. InTime' /\ Heeded'
    BY <1>0 DEF InTime, Heeded, CancelIsNew
  <1>4. OutcomeIsLast'
    BY <1>0, <1>1 DEF OutcomeIsLast, DoneIsTheAsked, WaitTypes, WaitTypeOK
  <1> QED BY <1>2, <1>3, <1>4

\* Every step of the wait, and every step of the others, keeps its invariant.
LEMMA WaitSteps == WaitInv /\ (WaitNext \/ UNCHANGED waitVars) => WaitInv'
  <1> SUFFICES ASSUME WaitInv, WaitNext \/ UNCHANGED waitVars PROVE WaitInv'
    OBVIOUS
  <1>1. CASE UNCHANGED waitVars
    BY <1>1 DEF waitVars, WaitInv, WaitTypes, WaitTypeOK, InTime, OutcomeIsLast, DoneIsTheAsked,
       Heeded, CancelIsNew
  <1>2. CASE WaitNext
    BY <1>2, PassesKeeps, CancelKeeps, PostsKeep, LooksKeep, GetsKeep, BuildsKeep
       DEF WaitNext, WaitStep
  <1> QED BY <1>1, <1>2

\* What the run checks of the wait follows.
LEMMA WaitIsHeard == WaitInv => WaitTypeOK /\ DoneIsTheAsked /\ CancelHeeded
  BY DEF WaitInv, WaitTypes, OutcomeIsLast, Heeded, CancelIsNew, CancelHeeded

-----------------------------------------------------------------------------
(* The extracts: what an actor has in hand *)

Places == {"idle", "next", "head", "extract", "open", "link", "known", "lock", "again", "child", "put"}
Extracting == {"again", "child"}
Jobs == [pc : Places, left : SUBSET Stops, feed : Stops \cup {Nobody}, sha : [Stops -> Files],
         fd : Files, down : BOOLEAN, window : BOOLEAN, retries : Nat]

\* A job on a feed has one; from the verified link on, its file is the one opened, and the
\* pass before a build looks in the cache only.
JobOf(a, j) ==
    /\ j.pc \notin {"idle", "next"} => j.feed \in Stops /\ j.feed \notin j.left
    /\ j.pc \in {"lock", "again", "child"} \/ (j.pc = "known" /\ a # "build") => j.sha[j.feed] = j.fd
    /\ a = "build" => j.pc \in {"idle", "next", "head", "extract", "known", "put"}

JobsInv == job \in [Actors -> Jobs] /\ \A a \in Actors : JobOf(a, job[a])

\* The cache and the failures, and who works on them: the owner of the lock.
Reasons == CountedReasons \cup RememberedReasons \cup {"none"}
StoreTypes ==
    /\ cache \in [Stops -> [Files -> Files]] /\ lock \in Actors \cup {Nobody}
    /\ failed \in [Stops -> [file : Files, reason : Reasons, tries : 0..Tries]]
    /\ \A f \in Stops, v \in Files : cache[f][v] \in {0, v}
    /\ \A f \in Stops, v, w \in Files : cache[f][v] # 0 /\ cache[f][w] # 0 => v = w
OwnerExtracts == \A a \in Actors : job[a].pc \in Extracting <=> lock = a
StoreInv == StoreTypes /\ OwnerExtracts /\ NoWastedExtraction

\* What the module holds and the page says of it.
Pages == [state : {"none", "skipped", "unavailable", "held", "refused", "sent", "ready"}, file : Files]
HeldInv ==
    /\ holds \in [Stops -> [Files -> Files]] /\ told \in [Stops -> Pages] /\ SentIsHeld
    /\ \A f \in Stops, v \in Files : holds[f][v] \in {0, v}

\* The files of a feed are queued for a pass in the order they are placed and named.
SlotsInv ==
    /\ slot \in [Stops -> Files] /\ fetched \in [Stops -> Files] /\ due \in [Stops -> Files]
    /\ \A f \in Stops : due[f] <= fetched[f] /\ fetched[f] <= slot[f]
    /\ refresh \in Stops \cup {Nobody} /\ late \subseteq Stops

\* A queued file is told, or a pass will tell it: the one that waits, or the one that has it in
\* hand. Otherwise an older file was told since, by a build's pass that has told all it had, or
\* the sender's last pass left it untold.
Behind(a, f) == f \in TodoOf(job[a]) /\ job[a].sha[f] < due[f]
PageInv ==
    \A f \in Stops :
        /\ Behind("pass", f) => passWaits
        /\ \/ told[f].file >= due[f] \/ passWaits \/ f \in TodoOf(job["pass"])
           \/ f \in late /\ ~Behind("build", f)
           \/ f \in untold

ExtractsInv == JobsInv /\ StoreInv /\ HeldInv /\ SlotsInv /\ PageInv

\* The bounds are numbers, and nobody is neither a feed nor an actor.
LEMMA ExtractLimits ==
    /\ MaxFiles \in Nat /\ Tries \in Nat /\ Tries > 0 /\ CallRetries \in Nat
    /\ Nobody \notin Stops /\ Nobody \notin Actors /\ Files = 0..MaxFiles /\ Files \subseteq Nat
    /\ {0, 1} \subseteq Files /\ Passes \subseteq Actors /\ "warm" \in Actors /\ "stray" \in Actors
    /\ Passes = {"pass", "build"} /\ Actors = {"pass", "build", "warm", "stray"}
  BY ExtractsAssumption DEF Files, Actors, Passes

\* A set whose members are all the same has at most one.
LEMMA OneAtMost ==
    ASSUME NEW S, \A x, y \in S : x = y
    PROVE  Cardinality(S) <= 1
  <1>1. CASE S = {}
    BY <1>1, FS_EmptySet
  <1>2. CASE S # {}
    <2>1. PICK x : S = {x}
      BY <1>2
    <2> QED BY <2>1, FS_Singleton
  <1> QED BY <1>1, <1>2

\* A resting actor has nothing in hand.
LEMMA RestIsJob ==
    /\ Resting \in Jobs /\ Resting.pc = "idle" /\ Resting.left = {} /\ TodoOf(Resting) = {}
    /\ \A a \in Actors : JobOf(a, Resting)
  <1>1. [f \in Stops |-> 0] \in [Stops -> Files]
    BY ExtractLimits
  <1>2. Resting \in Jobs /\ Resting.pc = "idle" /\ Resting.left = {}
    BY <1>1, ExtractLimits DEF Resting, Jobs, Places
  <1> QED BY <1>2 DEF JobOf, TodoOf

\* What is left of an actor's job once it is done with its feed.
FeedOver(a, j) ==
    /\ j \in Jobs /\ JobOf(a, j) /\ j.pc \in {"idle", "next"}
    /\ a \in Passes => j.pc = "next" /\ j.left = job[a].left /\ j.sha = job[a].sha

\* An actor done with its feed has the others left, and a pass the files it read.
LEMMA DoneIsJob ==
    ASSUME JobsInv, NEW a \in Actors
    PROVE  FeedOver(a, Done(a))
  <1>1. job[a] \in Jobs /\ JobOf(a, job[a])
    BY DEF JobsInv
  <1>2. CASE a = "stray"
    BY <1>2, RestIsJob, ExtractLimits DEF Done, FeedOver
  <1>3. CASE a # "stray"
    <2>1. Resting.sha \in [Stops -> Files]
      BY RestIsJob DEF Jobs
    <2>2. Done(a) = [job[a] EXCEPT !.pc = "next", !.feed = Nobody, !.fd = 0, !.retries = 0,
                        !.sha = IF a = "warm" THEN Resting.sha ELSE @]
      BY <1>3 DEF Done
    <2> HIDE DEF Resting
    <2>3. Done(a) \in Jobs /\ Done(a).pc = "next" /\ Done(a).left = job[a].left
          /\ (a # "warm" => Done(a).sha = job[a].sha)
      BY <1>1, <2>1, <2>2, ExtractLimits, ZenonT(60) DEF Jobs, Places
    <2> QED BY <2>3, ExtractLimits DEF JobOf, FeedOver
  <1> QED BY <1>2, <1>3

\* Nor is it kept from ending by what it learnt of the module.
LEMMA DownIsOver ==
    ASSUME ExtractsInv, NEW a \in Passes
    PROVE  FeedOver(a, [Done(a) EXCEPT !.down = TRUE]) /\ FeedOver(a, [Done(a) EXCEPT !.window = TRUE])
  <1>1. FeedOver(a, Done(a))
    BY DoneIsJob, ExtractLimits DEF ExtractsInv
  <1> HIDE DEF Done
  <1>2. Done(a) \in Jobs /\ Done(a).pc = "next"
    BY <1>1 DEF FeedOver
  <1>3. ASSUME NEW j \in {[Done(a) EXCEPT !.down = TRUE], [Done(a) EXCEPT !.window = TRUE]}
        PROVE  j \in Jobs /\ j.pc = "next" /\ j.left = Done(a).left /\ j.sha = Done(a).sha
    BY <1>2 DEF Jobs
  <1> QED BY <1>1, <1>3, ExtractLimits DEF FeedOver, JobOf

\* One actor's job changes.
LEMMA JobChanges ==
    ASSUME JobsInv, NEW a \in Actors, NEW j \in Jobs, JobOf(a, j), job' = [job EXCEPT ![a] = j]
    PROVE  JobsInv' /\ job'[a] = j /\ \A b \in Actors \ {a} : job'[b] = job[b]
  BY DEF JobsInv

\* An actor that extracts neither before nor after leaves the store alone.
LEMMA StoreStays ==
    ASSUME JobsInv, StoreInv, NEW a \in Actors, UNCHANGED <<cache, failed, lock>>,
           \A b \in Actors \ {a} : job'[b] = job[b],
           job[a].pc \notin Extracting, job'[a].pc \notin Extracting
    PROVE  StoreInv'
  <1>1. StoreTypes'
    BY DEF StoreInv, StoreTypes
  <1>2. OwnerExtracts'
    BY DEF StoreInv, OwnerExtracts
  <1>3. NoWastedExtraction'
    BY DEF StoreInv, NoWastedExtraction, Known, HasFile, Remembered, Extracting
  <1> QED BY <1>1, <1>2, <1>3 DEF StoreInv

\* The owner of the lock gives it up: nobody extracts.
LEMMA StoreIsFree ==
    ASSUME JobsInv, StoreInv, NEW a \in Actors, StoreTypes', lock' = Nobody,
           \A b \in Actors \ {a} : job'[b] = job[b],
           job[a].pc \in Extracting, job'[a].pc \notin Extracting
    PROVE  StoreInv'
  <1>1. \A b \in Actors : job'[b].pc \notin Extracting
    BY DEF StoreInv, OwnerExtracts
  <1>2. OwnerExtracts'
    BY <1>1, ExtractLimits DEF OwnerExtracts
  <1>3. NoWastedExtraction'
    BY <1>1 DEF NoWastedExtraction, Extracting
  <1> QED BY <1>2, <1>3 DEF StoreInv

\* What a page shows: a step that records nothing, changes no queue and takes no feed away
\* from the pass keeps it.
LEMMA PageStays ==
    ASSUME PageInv, UNCHANGED <<due, passWaits, told, late, untold>>,
           TodoOf(job'["pass"]) = TodoOf(job["pass"]),
           \A f \in TodoOf(job["pass"]) : job'["pass"].sha[f] = job["pass"].sha[f],
           TodoOf(job'["build"]) \subseteq TodoOf(job["build"]),
           \A f \in TodoOf(job'["build"]) : job'["build"].sha[f] = job["build"].sha[f]
    PROVE  PageInv'
  <1> SUFFICES ASSUME NEW f \in Stops
               PROVE  /\ Behind("pass", f)' => passWaits'
                      /\ \/ told'[f].file >= due'[f] \/ passWaits' \/ f \in TodoOf(job'["pass"])
                         \/ f \in late' /\ ~Behind("build", f)'
                         \/ f \in untold'
    BY DEF PageInv
  <1>1. Behind("pass", f)' => Behind("pass", f)
    BY DEF Behind
  <1>2. Behind("build", f)' => Behind("build", f)
    BY DEF Behind
  <1> QED BY <1>1, <1>2 DEF PageInv

\* The actors that are no pass have no part in it.
LEMMA PageOfOthers ==
    ASSUME PageInv, UNCHANGED <<due, passWaits, told, late, untold>>,
           \A a \in Passes : job'[a] = job[a]
    PROVE  PageInv'
  <1>1. job'["pass"] = job["pass"] /\ job'["build"] = job["build"]
    BY ExtractLimits
  <1> QED BY <1>1, PageStays

\* A pass records the outcome of a feed it had in hand.
LEMMA PageRecords ==
    ASSUME JobsInv, HeldInv, SlotsInv, PageInv, UNCHANGED <<due, passWaits>>,
           NEW a \in Passes, NEW g \in TodoOf(job[a]), g \in Stops, NEW state, Record(a, g, state),
           \A b \in Passes \ {a} : job'[b] = job[b],
           TodoOf(job'[a]) = TodoOf(job[a]) \ {g}, job'[a].sha = job[a].sha
    PROVE  PageInv'
  <1> SUFFICES ASSUME NEW f \in Stops
               PROVE  /\ Behind("pass", f)' => passWaits'
                      /\ \/ told'[f].file >= due'[f] \/ passWaits' \/ f \in TodoOf(job'["pass"])
                         \/ f \in late' /\ ~Behind("build", f)'
                         \/ f \in untold'
    BY DEF PageInv
  <1>0. /\ told \in [Stops -> Pages] /\ due[f] \in Nat /\ job[a] \in Jobs
        /\ told[f].file \in Nat /\ job[a].sha[f] \in Nat
    <2>1. told \in [Stops -> Pages] /\ due[f] \in Nat
      BY ExtractLimits DEF HeldInv, SlotsInv
    <2>2. told[f].file \in Nat
      BY <2>1, ExtractLimits DEF Pages
    <2>3. job[a] \in Jobs
      BY ExtractLimits DEF JobsInv
    <2>4. job[a].sha[f] \in Nat
      BY <2>3, ExtractLimits DEF Jobs
    <2> QED BY <2>1, <2>2, <2>3, <2>4
  <1>1. \/ /\ told' = [told EXCEPT ![g] = [state |-> state, file |-> job[a].sha[g]]]
           /\ late' = IF job[a].sha[g] < told[g].file THEN late \cup {g} ELSE late \ {g}
           /\ untold' = untold
        \/ /\ told' = told /\ late' = late
           /\ untold' = IF a = "pass" THEN untold \cup {g} ELSE untold
    BY DEF Record
  <1>2. \A b \in Passes : TodoOf(job'[b]) \subseteq TodoOf(job[b]) /\ job'[b].sha = job[b].sha
    OBVIOUS
  <1>3. \A b \in Passes : Behind(b, f)' => Behind(b, f)
    BY <1>2 DEF Behind
  <1>4. "pass" \in Passes /\ "build" \in Passes /\ Passes = {"pass", "build"}
    BY ExtractLimits
  <1>5. /\ Behind("pass", f) => passWaits
        /\ \/ told[f].file >= due[f] \/ passWaits \/ f \in TodoOf(job["pass"])
           \/ f \in late /\ ~Behind("build", f)
           \/ f \in untold
    BY DEF PageInv
  <1>6. CASE f # g
    <2>1. told'[f] = told[f] /\ (f \in late' <=> f \in late) /\ (f \in untold => f \in untold')
      BY <1>0, <1>1, <1>6
    <2>2. f \in TodoOf(job["pass"]) => f \in TodoOf(job'["pass"])
      BY <1>4, <1>6
    <2> QED BY <1>3, <1>4, <1>5, <2>1, <2>2
  <1>7. CASE /\ f = g /\ told' = told /\ late' = late
             /\ untold' = IF a = "pass" THEN untold \cup {g} ELSE untold
    <2>1. CASE a = "pass"
      <3>1. f \in untold' /\ (Behind("pass", f)' => passWaits')
        BY <1>3, <1>4, <1>5, <1>7, <2>1
      <3> QED BY <3>1
    <2>2. CASE a = "build"
      <3>1. f \in TodoOf(job["pass"]) => f \in TodoOf(job'["pass"])
        BY <1>4, <2>2
      <3> QED BY <1>3, <1>4, <1>5, <1>7, <2>2, <3>1
    <2> QED BY <1>4, <2>1, <2>2
  <1>8. CASE /\ f = g /\ told' = [told EXCEPT ![g] = [state |-> state, file |-> job[a].sha[g]]]
             /\ late' = IF job[a].sha[g] < told[g].file THEN late \cup {g} ELSE late \ {g}
             /\ untold' = untold
    <2>1. told'[f].file = job[a].sha[f]
      BY <1>0, <1>8
    <2>2. CASE job[a].sha[f] >= due[f]
      BY <1>3, <1>4, <1>5, <1>8, <2>1, <2>2
    <2>3. CASE job[a].sha[f] < due[f] /\ a = "pass"
      <3>1. Behind("pass", f)
        BY <1>8, <2>3 DEF Behind
      <3> QED BY <1>3, <1>4, <1>5, <1>8, <3>1
    <2>4. CASE job[a].sha[f] < due[f] /\ a = "build"
      <3>1. Behind("build", f) /\ ~Behind("build", f)'
        BY <1>8, <2>4 DEF Behind
      <3>2. f \in TodoOf(job["pass"]) => f \in TodoOf(job'["pass"])
        BY <1>4, <2>4
      <3>3. told[f].file >= due[f] => f \in late'
        BY <1>0, <1>8, <2>4
      <3> QED BY <1>3, <1>4, <1>5, <1>8, <3>1, <3>2, <3>3
    <2> QED BY <1>0, <1>4, <2>2, <2>3, <2>4
  <1> QED BY <1>1, <1>6, <1>7, <1>8

\* The module forgets nothing, and the page stays as it is.
LEMMA HeldStays ==
    ASSUME HeldInv, told' = told, holds' \in [Stops -> [Files -> Files]],
           \A f \in Stops, v \in Files : holds'[f][v] \in {0, v} /\ (holds[f][v] # 0 => holds'[f][v] # 0)
    PROVE  HeldInv'
  <1>1. SentIsHeld'
    <2> SUFFICES ASSUME NEW f \in Stops, told[f].state \in {"sent", "held"}
                 PROVE  holds'[f][told[f].file] # 0
      BY DEF SentIsHeld
    <2>1. told[f].file \in Files /\ holds[f][told[f].file] # 0
      BY DEF HeldInv, Pages, SentIsHeld
    <2> QED BY <2>1
  <1> QED BY <1>1 DEF HeldInv

\* What is recorded is true of the module.
LEMMA HeldRecords ==
    ASSUME JobsInv, HeldInv, NEW a \in Actors, NEW g \in Stops, NEW state, Record(a, g, state),
           state \in {"skipped", "unavailable", "held", "refused", "sent", "ready"},
           holds' \in [Stops -> [Files -> Files]],
           \A f \in Stops, v \in Files : holds'[f][v] \in {0, v} /\ (holds[f][v] # 0 => holds'[f][v] # 0),
           state \in {"sent", "held"} => holds'[g][job[a].sha[g]] # 0
    PROVE  HeldInv'
  <1>0. \/ told' = told \/ told' = [told EXCEPT ![g] = [state |-> state, file |-> job[a].sha[g]]]
    BY DEF Record
  <1> SUFFICES ASSUME told' = [told EXCEPT ![g] = [state |-> state, file |-> job[a].sha[g]]]
               PROVE  HeldInv'
    BY <1>0, HeldStays
  <1>1. job[a].sha[g] \in Files /\ told \in [Stops -> Pages]
    BY DEF HeldInv, JobsInv, Jobs
  <1>2. told' \in [Stops -> Pages]
    BY <1>1 DEF Pages
  <1>3. SentIsHeld'
    <2> SUFFICES ASSUME NEW f \in Stops, told'[f].state \in {"sent", "held"}
                 PROVE  holds'[f][told'[f].file] # 0
      BY DEF SentIsHeld
    <2>1. CASE f = g
      BY <1>1, <2>1
    <2>2. CASE f # g
      <3>1. told'[f] = told[f] /\ told[f].file \in Files
        BY <1>1, <2>2 DEF Pages
      <3> QED BY <3>1 DEF HeldInv, SentIsHeld
    <2> QED BY <2>1, <2>2
  <1> QED BY <1>2, <1>3 DEF HeldInv

\* The files, their names and the queue stay as they are.
LEMMA SlotsStay ==
    SlotsInv /\ UNCHANGED <<slot, fetched, due, refresh>> /\ late' \subseteq Stops => SlotsInv'
  BY DEF SlotsInv

\* A feed ends: an actor with a feed in hand is done with it, and a pass records it.
LEMMA FeedIsDone ==
    ASSUME ExtractsInv, NEW a \in Actors, job[a].pc \notin {"idle", "next"}, NEW state,
           NEW j, FeedOver(a, j), job' = [job EXCEPT ![a] = j],
           IF a \in Passes THEN Record(a, job[a].feed, state) ELSE UNCHANGED <<told, late, untold>>,
           UNCHANGED <<slot, fetched, due, refresh, passWaits>>,
           state \in {"skipped", "unavailable", "held", "refused", "sent", "ready"},
           holds' \in [Stops -> [Files -> Files]],
           \A f \in Stops, v \in Files : holds'[f][v] \in {0, v} /\ (holds[f][v] # 0 => holds'[f][v] # 0),
           state \in {"sent", "held"} => holds'[job[a].feed][job[a].sha[job[a].feed]] # 0
    PROVE  /\ JobsInv' /\ HeldInv' /\ SlotsInv' /\ PageInv' /\ job'[a].pc \in {"idle", "next"}
           /\ \A b \in Actors \ {a} : job'[b] = job[b]
  <1> USE DEF ExtractsInv
  <1>1. /\ job[a] \in Jobs /\ JobOf(a, job[a])
        /\ job[a].feed \in Stops /\ job[a].feed \notin job[a].left
    BY DEF JobsInv, JobOf
  <1>2. JobsInv' /\ job'[a] = j /\ \A b \in Actors \ {a} : job'[b] = job[b]
    BY JobChanges DEF FeedOver
  <1>3. job'[a].pc \in {"idle", "next"}
    BY <1>2 DEF FeedOver
  <1>4. CASE a \in Passes
    <2>1. Record(a, job[a].feed, state)
      BY <1>4
    <2>2. HeldInv'
      BY <1>1, <2>1, HeldRecords
    <2>3. late' \subseteq Stops
      BY <1>1, <2>1 DEF Record, SlotsInv
    <2>4. /\ TodoOf(job[a]) = job[a].left \cup {job[a].feed}
          /\ TodoOf(job'[a]) = job[a].left /\ job'[a].sha = job[a].sha
      BY <1>2, <1>4 DEF TodoOf, FeedOver
    <2>5. PageInv'
      <3>1. /\ job[a].feed \in TodoOf(job[a])
            /\ TodoOf(job'[a]) = TodoOf(job[a]) \ {job[a].feed}
        BY <1>1, <2>4
      <3>2. \A b \in Passes \ {a} : job'[b] = job[b]
        BY <1>2, ExtractLimits
      <3> QED BY <1>1, <1>4, <2>1, <2>4, <3>1, <3>2, PageRecords
    <2> QED BY <1>2, <1>3, <2>2, <2>3, <2>5, SlotsStay
  <1>5. CASE a \notin Passes
    <2>1. UNCHANGED <<told, late, untold>> /\ \A b \in Passes : job'[b] = job[b]
      BY <1>2, <1>5, ExtractLimits
    <2>2. late' \subseteq Stops
      BY <2>1 DEF SlotsInv
    <2> QED BY <1>2, <1>3, <2>1, <2>2, HeldStays, SlotsStay, PageOfOthers
  <1> QED BY <1>4, <1>5

\* An actor goes on with the feed in hand.
LEMMA FeedGoesOn ==
    ASSUME ExtractsInv, NEW a \in Actors, NEW j \in Jobs, JobOf(a, j), job' = [job EXCEPT ![a] = j],
           UNCHANGED <<slot, fetched, due, refresh, passWaits, told, late, untold, holds>>,
           a \in Passes => /\ TodoOf(j) = TodoOf(job[a])
                           /\ \A f \in TodoOf(j) : j.sha[f] = job[a].sha[f]
    PROVE  /\ JobsInv' /\ HeldInv' /\ SlotsInv' /\ PageInv' /\ job'[a] = j
           /\ \A b \in Actors \ {a} : job'[b] = job[b]
  <1> USE DEF ExtractsInv
  <1>1. JobsInv' /\ job'[a] = j /\ \A b \in Actors \ {a} : job'[b] = job[b]
    BY JobChanges
  <1>2. HeldInv' /\ SlotsInv'
    <2>1. late' \subseteq Stops
      BY DEF SlotsInv
    <2>2. HeldInv'
      BY HeldStays DEF HeldInv
    <2> QED BY <2>1, <2>2, SlotsStay
  <1>3. PageInv'
    <2>1. \A b \in Passes : /\ TodoOf(job'[b]) = TodoOf(job[b])
                            /\ \A f \in TodoOf(job[b]) : job'[b].sha[f] = job[b].sha[f]
      BY <1>1, ExtractLimits
    <2>2. "pass" \in Passes /\ "build" \in Passes
      BY ExtractLimits
    <2> QED BY <2>1, <2>2, PageStays
  <1> QED BY <1>1, <1>2, <1>3

\* A step of an actor that does not extract: it goes on with its feed.
LEMMA GoesOnKeeps ==
    ASSUME ExtractsInv, NEW a \in Actors, NEW j \in Jobs, JobOf(a, j), job' = [job EXCEPT ![a] = j],
           UNCHANGED <<slot, fetched, due, refresh, passWaits, told, late, untold, holds, cache, failed, lock>>,
           a \in Passes => /\ TodoOf(j) = TodoOf(job[a])
                           /\ \A f \in TodoOf(j) : j.sha[f] = job[a].sha[f],
           job[a].pc \notin Extracting, j.pc \notin Extracting
    PROVE  ExtractsInv'
  <1>1. /\ JobsInv' /\ HeldInv' /\ SlotsInv' /\ PageInv' /\ job'[a] = j
        /\ \A b \in Actors \ {a} : job'[b] = job[b]
    BY FeedGoesOn
  <1>2. StoreInv'
    BY <1>1, StoreStays DEF ExtractsInv
  <1> QED BY <1>1, <1>2 DEF ExtractsInv

\* And a step that ends it, whatever its outcome.
LEMMA EndsKeeps ==
    ASSUME ExtractsInv, NEW a \in Actors, job[a].pc \notin {"idle", "next"} \cup Extracting, NEW state,
           NEW j, FeedOver(a, j), job' = [job EXCEPT ![a] = j],
           IF a \in Passes THEN Record(a, job[a].feed, state) ELSE UNCHANGED <<told, late, untold>>,
           UNCHANGED <<slot, fetched, due, refresh, passWaits, cache, failed, lock>>,
           state \in {"skipped", "unavailable", "held", "refused", "sent", "ready"},
           holds' \in [Stops -> [Files -> Files]],
           \A f \in Stops, v \in Files : holds'[f][v] \in {0, v} /\ (holds[f][v] # 0 => holds'[f][v] # 0),
           state \in {"sent", "held"} => holds'[job[a].feed][job[a].sha[job[a].feed]] # 0
    PROVE  ExtractsInv'
  <1>1. /\ JobsInv' /\ HeldInv' /\ SlotsInv' /\ PageInv' /\ job'[a].pc \in {"idle", "next"}
        /\ \A b \in Actors \ {a} : job'[b] = job[b]
    BY FeedIsDone
  <1>2. StoreInv'
    BY <1>1, StoreStays DEF ExtractsInv, Extracting
  <1> QED BY <1>1, <1>2 DEF ExtractsInv

\* A feed that ends with nothing new at the module, whoever has the lock.
LEMMA EndsAnyway ==
    ASSUME ExtractsInv, NEW a \in Actors, job[a].pc \notin {"idle", "next"},
           NEW state \in {"skipped", "unavailable", "refused", "ready"}, FeedEnds(a, state),
           UNCHANGED <<slot, fetched, due, refresh, passWaits, holds>>
    PROVE  /\ JobsInv' /\ HeldInv' /\ SlotsInv' /\ PageInv' /\ job'[a].pc \in {"idle", "next"}
           /\ \A b \in Actors \ {a} : job'[b] = job[b]
  <1>1. FeedOver(a, Done(a))
    BY DoneIsJob DEF ExtractsInv
  <1>2. /\ holds' \in [Stops -> [Files -> Files]]
        /\ \A f \in Stops, v \in Files : holds'[f][v] \in {0, v} /\ (holds[f][v] # 0 => holds'[f][v] # 0)
    BY DEF ExtractsInv, HeldInv
  <1>3. /\ job' = [job EXCEPT ![a] = Done(a)]
        /\ IF a \in Passes THEN Record(a, job[a].feed, state) ELSE UNCHANGED <<told, late, untold>>
    BY DEF FeedEnds, page
  <1> QED BY <1>1, <1>2, <1>3, FeedIsDone

\* The same of an actor without the lock.
LEMMA EndsStill ==
    ASSUME ExtractsInv, NEW a \in Actors, job[a].pc \notin {"idle", "next"} \cup Extracting,
           NEW state \in {"skipped", "unavailable", "refused", "ready"}, FeedEnds(a, state),
           UNCHANGED <<slot, fetched, due, refresh, passWaits, cache, failed, lock, holds>>
    PROVE  ExtractsInv'
  <1>1. FeedOver(a, Done(a))
    BY DoneIsJob DEF ExtractsInv
  <1>2. /\ holds' \in [Stops -> [Files -> Files]]
        /\ \A f \in Stops, v \in Files : holds'[f][v] \in {0, v} /\ (holds[f][v] # 0 => holds'[f][v] # 0)
    BY DEF ExtractsInv, HeldInv
  <1>3. /\ job' = [job EXCEPT ![a] = Done(a)]
        /\ IF a \in Passes THEN Record(a, job[a].feed, state) ELSE UNCHANGED <<told, late, untold>>
    BY DEF FeedEnds, page
  <1> QED BY <1>1, <1>2, <1>3, EndsKeeps

\* A feed whose refresh places, names and queues a new file.
LEMMA SlotsKeep ==
    ExtractsInv /\ ((\E f \in Stops : PlaceFile(f)) \/ SaveFetchState \/ QueueExtracts) => ExtractsInv'
  <1> USE ExtractLimits DEF ExtractsInv, page
  <1>0. ASSUME JobsInv, StoreInv, HeldInv, UNCHANGED <<job, cache, failed, lock, holds, told>>
        PROVE  JobsInv' /\ StoreInv' /\ HeldInv'
    <2>1. JobsInv'
      BY <1>0 DEF JobsInv, JobOf
    <2>2. StoreInv'
      BY <1>0, ZenonT(60) DEF StoreInv, StoreTypes, OwnerExtracts, NoWastedExtraction, Known, HasFile, Remembered
    <2> QED BY <1>0, <2>1, <2>2 DEF HeldInv, SentIsHeld
  <1>1. ASSUME ExtractsInv, NEW f \in Stops, PlaceFile(f) PROVE ExtractsInv'
    <2>1. UNCHANGED <<fetched, due, job, cache, failed, lock, holds, told, passWaits, late, untold>>
          /\ slot[f] \in 1 .. MaxFiles - 1 /\ slot' = [slot EXCEPT ![f] = @ + 1] /\ refresh' = f
      BY <1>1 DEF PlaceFile
    <2>2. SlotsInv'
      <3>1. slot' \in [Stops -> Files] /\ \A g \in Stops : slot[g] <= slot'[g]
        <4>1. slot \in [Stops -> Files] /\ slot[f] + 1 \in Files
          BY <1>1, <2>1 DEF SlotsInv
        <4>2. \A g \in Stops : slot'[g] = IF g = f THEN slot[f] + 1 ELSE slot[g]
          BY <2>1, <4>1
        <4>3. \A g \in Stops : slot[g] \in Nat
          BY <4>1
        <4>4. \A g \in Stops : slot[g] <= slot'[g]
          BY <4>2, <4>3
        <4> QED BY <2>1, <4>1, <4>4
      <3>2. \A g \in Stops : slot[g] \in Nat /\ slot'[g] \in Nat /\ fetched[g] \in Nat
        BY <1>1, <3>1 DEF SlotsInv
      <3>3. \A g \in Stops : fetched[g] <= slot'[g]
        BY <1>1, <3>1, <3>2 DEF SlotsInv
      <3> QED BY <1>1, <2>1, <3>1, <3>3 DEF SlotsInv
    <2>3. PageInv'
      BY <1>1, <2>1 DEF PageInv, Behind
    <2> QED BY <1>0, <1>1, <2>1, <2>2, <2>3
  <1>2. ASSUME ExtractsInv, SaveFetchState PROVE ExtractsInv'
    <2>1. /\ UNCHANGED <<slot, due, job, cache, failed, lock, holds, told, passWaits, late, untold, refresh>>
          /\ fetched' = [fetched EXCEPT ![refresh] = slot[refresh]] /\ refresh \in Stops
      BY <1>2 DEF SaveFetchState, bounds, SlotsInv
    <2>2. SlotsInv'
      <3>1. fetched' \in [Stops -> Files] /\ \A g \in Stops : fetched[g] <= fetched'[g] /\ fetched'[g] <= slot[g]
        BY <1>2, <2>1 DEF SlotsInv
      <3>2. \A g \in Stops : fetched'[g] \in Nat /\ due[g] \in Nat /\ fetched[g] \in Nat
        BY <1>2, <3>1 DEF SlotsInv
      <3>3. \A g \in Stops : due[g] <= fetched'[g]
        BY <1>2, <3>1, <3>2 DEF SlotsInv
      <3> QED BY <1>2, <2>1, <3>1, <3>3 DEF SlotsInv
    <2>3. PageInv'
      BY <1>2, <2>1 DEF PageInv, Behind
    <2> QED BY <1>0, <1>2, <2>1, <2>2, <2>3
  <1>3. ASSUME ExtractsInv, QueueExtracts PROVE ExtractsInv'
    <2>1. /\ UNCHANGED <<slot, fetched, job, cache, failed, lock, holds, told, late>>
          /\ refresh \in Stops /\ refresh' = Nobody /\ passWaits'
          /\ due' = [due EXCEPT ![refresh] = fetched[refresh]]
      BY <1>3 DEF QueueExtracts, SlotsInv
    <2>2. SlotsInv'
      BY <1>3, <2>1 DEF SlotsInv
    <2>3. PageInv'
      BY <2>1 DEF PageInv
    <2> QED BY <1>0, <1>3, <2>1, <2>2, <2>3
  <1> QED BY <1>1, <1>2, <1>3

\* The warm thread takes its feeds, and the passes read the session's.
LEMMA StartsKeep ==
    ExtractsInv /\ (StartWarm \/ (\E f \in Stops : WarmFeed(f)) \/ \E a \in Passes : StartPass(a))
        => ExtractsInv'
  <1> USE ExtractLimits DEF page
  <1>1. ASSUME ExtractsInv, StartWarm PROVE ExtractsInv'
    <2> DEFINE j == [Resting EXCEPT !.pc = "next", !.left = Stops]
    <2>1. /\ job' = [job EXCEPT !["warm"] = j] /\ job["warm"].pc = "idle"
          /\ UNCHANGED <<slot, fetched, due, refresh, passWaits, told, late, untold, holds, cache, failed, lock>>
      BY <1>1 DEF StartWarm, bounds
    <2>2. j \in Jobs /\ j.pc = "next"
      BY RestIsJob DEF Jobs, Places
    <2>3. JobOf("warm", j) /\ "warm" \notin Passes
      BY <2>2 DEF JobOf
    <2> HIDE DEF j
    <2> QED BY <1>1, <2>1, <2>2, <2>3, GoesOnKeeps DEF Extracting
  <1>2. ASSUME ExtractsInv, NEW f \in Stops, WarmFeed(f) PROVE ExtractsInv'
    <2>1. /\ job["warm"].pc = "next" /\ f \in job["warm"].left
          /\ UNCHANGED <<slot, fetched, due, refresh, passWaits, told, late, untold, holds, cache, failed, lock>>
          /\ job["warm"] \in Jobs /\ "warm" \notin Passes
      BY <1>2 DEF WarmFeed, bounds, ExtractsInv, JobsInv
    <2>2. CASE fetched[f] = 0 \/ Known(f, fetched[f])
      <3> DEFINE j == [job["warm"] EXCEPT !.left = @ \ {f}]
      <3>1. job' = [job EXCEPT !["warm"] = j]
        BY <1>2, <2>2 DEF WarmFeed
      <3>2. j \in Jobs /\ j.pc = "next"
        BY <2>1 DEF Jobs
      <3>3. JobOf("warm", j)
        BY <3>2 DEF JobOf
      <3> HIDE DEF j
      <3> QED BY <1>2, <2>1, <3>1, <3>2, <3>3, GoesOnKeeps DEF Extracting
    <2>3. CASE ~(fetched[f] = 0 \/ Known(f, fetched[f]))
      <3> DEFINE j == [job["warm"] EXCEPT !.left = @ \ {f}, !.feed = f, !.pc = "open"]
      <3>1. job' = [job EXCEPT !["warm"] = j]
        BY <1>2, <2>3 DEF WarmFeed
      <3>2. j \in Jobs /\ j.pc = "open" /\ j.feed \in Stops /\ j.feed \notin j.left
        BY <2>1 DEF Jobs, Places
      <3>3. JobOf("warm", j)
        BY <3>2 DEF JobOf
      <3> HIDE DEF j
      <3> QED BY <1>2, <2>1, <3>1, <3>2, <3>3, GoesOnKeeps DEF Extracting
    <2> QED BY <2>2, <2>3
  \* A pass that cannot read the feeds leaves them all untold.
  <1>3. ASSUME ExtractsInv, NEW a \in Passes, job[a].pc = "idle",
               UNCHANGED <<slot, fetched, due, refresh, told, late, holds, cache, failed, lock, job>>,
               untold' = IF a = "pass" THEN Stops ELSE untold,
               a = "build" => passWaits' = passWaits
        PROVE  ExtractsInv'
    <2>1. CASE a = "pass"
      <3>1. TodoOf(job["pass"]) = {}
        BY <1>3, <2>1 DEF TodoOf
      <3>2. \A f \in Stops : ~Behind("pass", f)' /\ f \in untold'
        BY <1>3, <2>1, <3>1 DEF Behind
      <3>3. PageInv'
        BY <3>2 DEF PageInv
      <3>4. JobsInv' /\ HeldInv' /\ SlotsInv'
        BY <1>3 DEF ExtractsInv, JobsInv, HeldInv, SentIsHeld, SlotsInv
      <3>5. StoreInv'
        BY <1>3, StoreStays, <2>1 DEF ExtractsInv, Extracting
      <3> QED BY <3>3, <3>4, <3>5 DEF ExtractsInv
    <2>2. CASE a = "build"
      <3>1. JobsInv' /\ HeldInv' /\ SlotsInv'
        BY <1>3 DEF ExtractsInv, JobsInv, HeldInv, SentIsHeld, SlotsInv
      <3>2. StoreInv'
        BY <1>3, StoreStays, <2>2 DEF ExtractsInv, Extracting
      <3>3. PageInv'
        BY <1>3, <2>2, PageOfOthers DEF ExtractsInv
      <3> QED BY <3>1, <3>2, <3>3 DEF ExtractsInv
    <2> QED BY <2>1, <2>2
  <1>4. ASSUME ExtractsInv, NEW a \in Passes, StartPass(a), Untold(a, {}),
               job' = [job EXCEPT ![a] =
                          [Resting EXCEPT !.pc = "next", !.left = Stops, !.sha = SessionFeeds]]
        PROVE  ExtractsInv'
    <2> DEFINE j == [Resting EXCEPT !.pc = "next", !.left = Stops, !.sha = fetched]
    <2>0. ExtractsInv
      BY <1>4
    <2> USE DEF ExtractsInv
    <2>1. /\ job' = [job EXCEPT ![a] = j] /\ job[a].pc = "idle" /\ a \in Actors
          /\ UNCHANGED <<slot, fetched, due, refresh, told, late, holds, cache, failed, lock>>
          /\ a = "build" => passWaits' = passWaits /\ untold' = untold
      BY <1>4 DEF StartPass, SessionFeeds, Untold
    <2>2. j \in Jobs /\ j.pc = "next" /\ j.left = Stops /\ j.sha = fetched
      <3>1. fetched \in [Stops -> Files] /\ Resting \in Jobs
        BY <2>0, RestIsJob DEF SlotsInv
      <3> HIDE DEF Resting
      <3> QED BY <3>1 DEF Jobs, Places
    <2>3. JobOf(a, j) /\ TodoOf(j) = Stops
      BY <2>2 DEF JobOf, TodoOf
    <2> HIDE DEF j
    <2>4. JobsInv' /\ job'[a] = j /\ \A b \in Actors \ {a} : job'[b] = job[b]
      BY <2>0, <2>1, <2>2, <2>3, JobChanges
    <2>5. StoreInv'
      BY <2>0, <2>1, <2>2, <2>4, StoreStays DEF Extracting
    <2>6. HeldInv' /\ SlotsInv'
      BY <2>0, <2>1 DEF HeldInv, SentIsHeld, SlotsInv
    <2>7. PageInv'
      <3> SUFFICES ASSUME NEW f \in Stops
                   PROVE  /\ Behind("pass", f)' => passWaits'
                          /\ \/ told'[f].file >= due'[f] \/ passWaits' \/ f \in TodoOf(job'["pass"])
                             \/ f \in late' /\ ~Behind("build", f)'
                             \/ f \in untold'
        BY DEF PageInv
      <3>1. f \in TodoOf(job'[a]) /\ ~Behind(a, f)'
        <4>1. due[f] <= fetched[f] /\ due[f] \in Nat /\ fetched[f] \in Nat
          BY <2>0 DEF SlotsInv
        <4> QED BY <2>1, <2>2, <2>3, <2>4, <4>1 DEF Behind
      <3>2. CASE a = "pass"
        BY <3>1, <3>2
      <3>3. CASE a = "build"
        <4>1. job'["pass"] = job["pass"]
          BY <2>4, <3>3
        <4>2. Behind("pass", f)' => Behind("pass", f)
          BY <2>1, <4>1 DEF Behind
        <4> QED BY <2>0, <2>1, <3>1, <3>3, <4>1, <4>2 DEF PageInv
      <3> QED BY <3>2, <3>3
    <2> QED BY <2>4, <2>5, <2>6, <2>7
  <1>5. ASSUME ExtractsInv, NEW a \in Passes, StartPass(a) PROVE ExtractsInv'
    <2>1. /\ job[a].pc = "idle"
          /\ UNCHANGED <<slot, fetched, due, refresh, told, late, holds, cache, failed, lock>>
          /\ a = "build" => passWaits' = passWaits
      BY <1>5 DEF StartPass
    <2>2. \/ /\ job' = [job EXCEPT ![a] =
                             [Resting EXCEPT !.pc = "next", !.left = Stops, !.sha = SessionFeeds]]
             /\ Untold(a, {})
          \/ Untold(a, Stops) /\ job' = job
      BY <1>5 DEF StartPass
    <2> QED BY <1>3, <1>4, <1>5, <2>1, <2>2 DEF Untold
  <1> QED BY <1>1, <1>2, <1>5

\* The passes and the warm thread go from feed to feed.
LEMMA FeedsKeep ==
    \A a \in Actors :
        ExtractsInv /\ ((\E f \in Stops : a \in Passes /\ PassFeed(a, f)) \/ ActorEnds(a)) => ExtractsInv'
  <1> USE ExtractLimits DEF page
  <1>1. ASSUME ExtractsInv, NEW a \in Passes, NEW f \in Stops, PassFeed(a, f) PROVE ExtractsInv'
    <2>0. /\ job[a].pc = "next" /\ f \in job[a].left /\ a \in Actors /\ job[a] \in Jobs
          /\ JobOf(a, job[a])
          /\ UNCHANGED <<slot, fetched, due, refresh, passWaits, holds, cache, failed, lock>>
      BY <1>1 DEF PassFeed, bounds, ExtractsInv, JobsInv
    <2>1. CASE job[a].down \/ job[a].sha[f] = 0
      <3> DEFINE j == [job[a] EXCEPT !.left = @ \ {f}]
                 state == IF job[a].sha[f] = 0 THEN "skipped" ELSE "unavailable"
      <3>1. job' = [job EXCEPT ![a] = j] /\ Record(a, f, state)
        BY <1>1, <2>1 DEF PassFeed
      <3>2. j \in Jobs /\ j.pc = "next" /\ j.left = job[a].left \ {f} /\ j.sha = job[a].sha
        BY <2>0 DEF Jobs
      <3>3. JobOf(a, j)
        BY <3>2 DEF JobOf
      <3>4. state \in {"skipped", "unavailable"}
        OBVIOUS
      <3> HIDE DEF j, state
      <3>5. JobsInv' /\ job'[a] = j /\ \A b \in Actors \ {a} : job'[b] = job[b]
        BY <1>1, <2>0, <3>1, <3>2, <3>3, JobChanges DEF ExtractsInv
      <3>6. StoreInv'
        BY <1>1, <2>0, <3>2, <3>5, StoreStays DEF ExtractsInv, Extracting
      <3>7. HeldInv'
        BY <1>1, <2>0, <3>1, <3>4, HeldRecords DEF ExtractsInv, HeldInv
      <3>8. SlotsInv'
        <4>1. late' \subseteq Stops
          BY <1>1, <3>1 DEF Record, ExtractsInv, SlotsInv
        <4> QED BY <1>1, <2>0, <4>1, SlotsStay DEF ExtractsInv
      <3>9. PageInv'
        <4>1. /\ TodoOf(job[a]) = job[a].left /\ TodoOf(job'[a]) = TodoOf(job[a]) \ {f}
              /\ job'[a].sha = job[a].sha
          BY <2>0, <3>2, <3>5 DEF TodoOf
        <4>2. \A b \in Passes \ {a} : job'[b] = job[b]
          BY <3>5
        <4> QED BY <1>1, <2>0, <3>1, <4>1, <4>2, PageRecords DEF ExtractsInv
      <3> QED BY <3>5, <3>6, <3>7, <3>8, <3>9 DEF ExtractsInv
    <2>2. CASE ~(job[a].down \/ job[a].sha[f] = 0)
      <3> DEFINE j == [job[a] EXCEPT !.left = @ \ {f}, !.feed = f, !.retries = CallRetries, !.pc = "head"]
      <3>1. job' = [job EXCEPT ![a] = j] /\ UNCHANGED <<told, late, untold>>
        BY <1>1, <2>2 DEF PassFeed
      <3>2. /\ j \in Jobs /\ j.pc = "head" /\ j.left = job[a].left \ {f} /\ j.sha = job[a].sha
            /\ j.feed = f
        BY <2>0 DEF Jobs, Places
      <3>3. JobOf(a, j) /\ TodoOf(j) = TodoOf(job[a])
        BY <2>0, <3>2 DEF JobOf, TodoOf
      <3> HIDE DEF j
      <3> QED BY <1>1, <2>0, <3>1, <3>2, <3>3, GoesOnKeeps DEF Extracting
    <2> QED BY <2>1, <2>2
  <1>2. ASSUME ExtractsInv, NEW a \in Actors, ActorEnds(a) PROVE ExtractsInv'
    <2>0. /\ (job[a].pc = "next" /\ job[a].left = {}) \/ a = "build"
          /\ job' = [job EXCEPT ![a] = Resting]
          /\ UNCHANGED <<slot, fetched, due, refresh, passWaits, told, late, untold, holds, cache, failed, lock>>
      BY <1>2 DEF ActorEnds, bounds
    <2>1. JobsInv' /\ job'[a] = Resting /\ \A b \in Actors \ {a} : job'[b] = job[b]
      BY <1>2, <2>0, RestIsJob, JobChanges DEF ExtractsInv
    <2>2. StoreInv'
      <3>1. job[a].pc \notin Extracting
        BY <1>2, <2>0 DEF ExtractsInv, JobsInv, JobOf, Extracting
      <3>2. Resting.pc = "idle"
        BY RestIsJob
      <3> HIDE DEF Resting
      <3>3. job'[a].pc \notin Extracting
        BY <2>1, <3>2 DEF Extracting
      <3> QED BY <1>2, <2>0, <2>1, <3>1, <3>3, StoreStays DEF ExtractsInv
    <2>3. HeldInv' /\ SlotsInv'
      BY <1>2, <2>0 DEF ExtractsInv, HeldInv, SentIsHeld, SlotsInv
    <2>4. PageInv'
      <3>1. TodoOf(Resting) = {} /\ (a # "build" => TodoOf(job[a]) = {})
        BY <2>0, RestIsJob DEF TodoOf
      <3>2. TodoOf(job'["pass"]) = TodoOf(job["pass"])
        BY <2>1, <3>1
      <3>3. \A f \in TodoOf(job["pass"]) : job'["pass"].sha[f] = job["pass"].sha[f]
        BY <2>1, <3>1
      <3>4. TodoOf(job'["build"]) \subseteq TodoOf(job["build"])
        BY <2>1, <3>1
      <3>5. \A f \in TodoOf(job'["build"]) : job'["build"].sha[f] = job["build"].sha[f]
        BY <2>1, <3>1
      <3> QED BY <1>2, <2>0, <3>2, <3>3, <3>4, <3>5, PageStays DEF ExtractsInv
    <2> QED BY <2>1, <2>2, <2>3, <2>4 DEF ExtractsInv
  <1> QED BY <1>1, <1>2

\* An actor moves to another place of its work on the same feed.
LEMMA PlaceKeeps ==
    ASSUME ExtractsInv, NEW a \in Actors, job[a].pc \notin {"idle", "next"} \cup Extracting,
           NEW j \in Jobs, job' = [job EXCEPT ![a] = j],
           j.pc \notin {"idle", "next"} \cup Extracting,
           j.left = job[a].left, j.feed = job[a].feed, j.sha = job[a].sha,
           UNCHANGED <<slot, fetched, due, refresh, passWaits, told, late, untold, holds, cache, failed, lock>>,
           j.pc = "lock" \/ (j.pc = "known" /\ a # "build") => j.sha[j.feed] = j.fd,
           a = "build" => j.pc \in {"head", "extract", "known", "put"}
    PROVE  ExtractsInv'
  <1>1. JobOf(a, job[a])
    BY DEF ExtractsInv, JobsInv
  <1>2. JobOf(a, j) /\ TodoOf(j) = TodoOf(job[a])
    BY <1>1 DEF JobOf, TodoOf, Extracting
  <1> QED BY <1>1, <1>2, GoesOnKeeps

\* HEAD, its retries and its failures.
LEMMA HeadKeeps ==
    \A a \in Actors : ExtractsInv /\ (AskHeld(a) \/ (a \in Passes /\ CallFails(a))) => ExtractsInv'
  <1> USE ExtractLimits DEF page
  <1>1. ASSUME ExtractsInv, NEW a \in Actors, AskHeld(a) PROVE ExtractsInv'
    <2>0. /\ job[a].pc = "head" /\ job[a] \in Jobs
          /\ UNCHANGED <<slot, fetched, due, refresh, passWaits, holds, cache, failed, lock>>
      BY <1>1, SMTT(30) DEF AskHeld, bounds, ExtractsInv, JobsInv
    <2>1. CASE holds[job[a].feed][job[a].sha[job[a].feed]] # 0
      <3>1. FeedEnds(a, "held") /\ FeedOver(a, Done(a))
        BY <1>1, <2>1, DoneIsJob DEF AskHeld, ExtractsInv
      <3>2. /\ holds' \in [Stops -> [Files -> Files]]
            /\ \A f \in Stops, v \in Files :
                    holds'[f][v] \in {0, v} /\ (holds[f][v] # 0 => holds'[f][v] # 0)
        BY <1>1, <2>0 DEF ExtractsInv, HeldInv
      <3>3. /\ job' = [job EXCEPT ![a] = Done(a)]
            /\ IF a \in Passes THEN Record(a, job[a].feed, "held") ELSE UNCHANGED <<told, late, untold>>
        BY <3>1 DEF FeedEnds
      <3> QED BY <1>1, <2>0, <2>1, <3>1, <3>2, <3>3, EndsKeeps DEF Extracting
    <2>2. CASE holds[job[a].feed][job[a].sha[job[a].feed]] = 0
      <3> DEFINE j == [job[a] EXCEPT !.pc = "extract", !.retries = 0]
      <3>1. job' = [job EXCEPT ![a] = j] /\ UNCHANGED <<told, late, untold>>
        BY <1>1, <2>2 DEF AskHeld
      <3>2. /\ j \in Jobs /\ j.pc = "extract" /\ j.left = job[a].left /\ j.feed = job[a].feed
            /\ j.sha = job[a].sha
        BY <2>0 DEF Jobs, Places
      <3> HIDE DEF j
      <3> QED BY <1>1, <2>0, <3>1, <3>2, PlaceKeeps DEF Extracting
    <2> QED BY <2>1, <2>2
  <1>2. ASSUME ExtractsInv, NEW a \in Passes, CallFails(a) PROVE ExtractsInv'
    <2>0. /\ job[a].pc \in {"head", "put"} /\ job[a] \in Jobs /\ a \in Actors /\ JobOf(a, job[a])
          /\ UNCHANGED <<slot, fetched, due, refresh, passWaits, holds, cache, failed, lock>>
      BY <1>2 DEF CallFails, bounds, ExtractsInv, JobsInv
    <2>1. CASE RetryCall(a)
      <3> DEFINE j == [job[a] EXCEPT !.retries = @ - 1]
      <3>1. job' = [job EXCEPT ![a] = j] /\ UNCHANGED <<told, late, untold>> /\ job[a].retries > 0
        BY <2>1 DEF RetryCall
      <3>2. job[a].retries - 1 \in Nat
        BY <2>0, <3>1 DEF Jobs
      <3>3. /\ j \in Jobs /\ j.pc = job[a].pc /\ j.left = job[a].left /\ j.feed = job[a].feed
            /\ j.sha = job[a].sha /\ j.fd = job[a].fd
        BY <2>0, <3>2 DEF Jobs
      <3>4. JobOf(a, j) /\ TodoOf(j) = TodoOf(job[a])
        BY <2>0, <3>3 DEF JobOf, TodoOf
      <3> HIDE DEF j
      <3> QED BY <1>2, <2>0, <3>1, <3>3, <3>4, GoesOnKeeps DEF Extracting
    <2>2. CASE ModuleDown(a)
      <3> DEFINE j == [Done(a) EXCEPT !.down = TRUE]
      <3>1. job' = [job EXCEPT ![a] = j] /\ Record(a, job[a].feed, "unavailable")
        BY <2>2 DEF ModuleDown
      <3>2. FeedOver(a, j)
        BY <1>2, <2>0, DownIsOver
      <3>3. /\ holds' \in [Stops -> [Files -> Files]]
            /\ \A f \in Stops, v \in Files :
                    holds'[f][v] \in {0, v} /\ (holds[f][v] # 0 => holds'[f][v] # 0)
        BY <1>2, <2>0 DEF ExtractsInv, HeldInv
      <3> HIDE DEF j
      <3> QED BY <1>2, <2>0, <3>1, <3>2, <3>3, EndsKeeps DEF Extracting
    <2>3. CASE FeedRefused(a)
      BY <1>2, <2>0, <2>3, EndsStill DEF FeedRefused, Extracting
    <2> QED BY <1>2, <2>1, <2>2, <2>3 DEF CallFails
  <1> QED BY <1>1, <1>2

\* Whether to extract, and the verified link to the slot.
LEMMA LinkKeeps ==
    \A a \in Actors : ExtractsInv /\ (BeginExtract(a) \/ OpenSlot(a) \/ LinkSnapshot(a)) => ExtractsInv'
  <1> USE ExtractLimits DEF page
  <1>1. ASSUME ExtractsInv, NEW a \in Actors, BeginExtract(a) PROVE ExtractsInv'
    <2>0. /\ job[a].pc = "extract" /\ job[a] \in Jobs
          /\ UNCHANGED <<slot, fetched, due, refresh, passWaits, holds, cache, failed, lock>>
      BY <1>1 DEF BeginExtract, bounds, ExtractsInv, JobsInv
    <2>1. ASSUME NEW state \in {"unavailable", "skipped"}, FeedEnds(a, state) PROVE ExtractsInv'
      BY <1>1, <2>0, <2>1, EndsStill DEF Extracting
    <2>2. ASSUME Goto(a, IF a = "build" THEN "known" ELSE "open"), UNCHANGED <<told, late, untold>>
          PROVE  ExtractsInv'
      <3> DEFINE p == IF a = "build" THEN "known" ELSE "open"
                 j == [job[a] EXCEPT !.pc = p]
      <3>1. job' = [job EXCEPT ![a] = j] /\ UNCHANGED <<told, late, untold>>
        BY <2>2 DEF Goto
      <3>2. /\ j \in Jobs /\ j.pc = p /\ j.left = job[a].left /\ j.feed = job[a].feed
            /\ j.sha = job[a].sha
        BY <2>0 DEF Jobs, Places
      <3>3. /\ p \notin {"idle", "next"} \cup Extracting /\ p # "lock" /\ (p = "known" => a = "build")
            /\ (a = "build" => p = "known")
        BY DEF Extracting
      <3> HIDE DEF j, p
      <3> QED BY <1>1, <2>0, <3>1, <3>2, <3>3, PlaceKeeps DEF Extracting
    <2> QED BY <1>1, <2>1, <2>2 DEF BeginExtract
  <1>2. ASSUME ExtractsInv, NEW a \in Actors, OpenSlot(a) PROVE ExtractsInv'
    <2> DEFINE j == [job[a] EXCEPT !.fd = slot[job[a].feed], !.pc = "link"]
    <2>0. /\ job[a].pc = "open" /\ job[a] \in Jobs /\ JobOf(a, job[a]) /\ job' = [job EXCEPT ![a] = j]
          /\ UNCHANGED <<slot, fetched, due, refresh, passWaits, told, late, untold, holds, cache, failed, lock>>
      BY <1>2 DEF OpenSlot, bounds, ExtractsInv, JobsInv
    <2>1. slot[job[a].feed] \in Files /\ a # "build"
      BY <1>2, <2>0 DEF ExtractsInv, SlotsInv, JobOf
    <2>2. /\ j \in Jobs /\ j.pc = "link" /\ j.left = job[a].left /\ j.feed = job[a].feed
          /\ j.sha = job[a].sha
      BY <2>0, <2>1 DEF Jobs, Places
    <2> HIDE DEF j
    <2> QED BY <1>2, <2>0, <2>1, <2>2, PlaceKeeps DEF Extracting
  <1>3. ASSUME ExtractsInv, NEW a \in Actors, LinkSnapshot(a) PROVE ExtractsInv'
    <2> DEFINE f == job[a].feed
    <2>0. /\ job[a].pc = "link" /\ job[a] \in Jobs /\ JobOf(a, job[a]) /\ f \in Stops /\ a # "build"
          /\ UNCHANGED <<slot, fetched, due, refresh, passWaits, holds, cache, failed, lock>>
      BY <1>3 DEF LinkSnapshot, bounds, ExtractsInv, JobsInv, JobOf
    <2>1. CASE SameFile(a) /\ Verified(a) /\ AskedFor(a)
      <3> DEFINE j == [job[a] EXCEPT !.pc = "known", !.sha = [@ EXCEPT ![f] = fetched[f]]]
      <3>1. job' = [job EXCEPT ![a] = j] /\ UNCHANGED <<told, late, untold>>
        <4>1. job \in [Actors -> Jobs]
          BY <1>3 DEF ExtractsInv, JobsInv
        <4>2. job' = [job EXCEPT ![a].pc = "known", ![a].sha[f] = fetched[f]] /\ UNCHANGED <<told, late, untold>>
          BY <1>3, <2>1 DEF LinkSnapshot
        <4>3. job[a].sha \in [Stops -> Files] /\ DOMAIN job = Actors
          BY <2>0, <4>1 DEF Jobs
        <4> HIDE DEF f
        <4>4. job'[a] = j
          BY <2>0, <4>1, <4>2, <4>3 DEF Jobs
        <4>5. DOMAIN job' = Actors /\ \A b \in Actors \ {a} : job'[b] = job[b]
          BY <4>2, <4>3
        <4> QED BY <4>1, <4>2, <4>4, <4>5, ZenonT(60)
      <3>2. fetched[f] \in Files /\ fetched[f] = job[a].fd /\ job[a].sha \in [Stops -> Files]
        BY <1>3, <2>0, <2>1 DEF Verified, ExtractsInv, SlotsInv, Jobs
      <3>3. /\ j \in Jobs /\ j.pc = "known" /\ j.left = job[a].left /\ j.feed = f
            /\ j.sha = [job[a].sha EXCEPT ![f] = fetched[f]] /\ j.fd = job[a].fd
        BY <2>0, <3>2 DEF Jobs, Places
      <3>4. JobOf(a, j) /\ TodoOf(j) = TodoOf(job[a])
        BY <2>0, <3>2, <3>3 DEF JobOf, TodoOf
      <3>5. a \in Passes => j.sha = job[a].sha
        <4>1. a \in Passes => job[a].sha[f] = fetched[f]
          BY <2>1, <3>2 DEF AskedFor
        <4> HIDE DEF j, f
        <4> QED BY <3>2, <3>3, <4>1
      <3> HIDE DEF j, f
      <3> QED BY <1>3, <2>0, <3>1, <3>3, <3>4, <3>5, GoesOnKeeps DEF Extracting
    <2>2. CASE ~(SameFile(a) /\ Verified(a) /\ AskedFor(a))
      <3>1. FeedEnds(a, "skipped")
        BY <1>3, <2>2 DEF LinkSnapshot
      <3> QED BY <1>3, <2>0, <3>1, EndsStill DEF Extracting
    <2> QED BY <2>1, <2>2
  <1> QED BY <1>1, <1>2, <1>3

\* An actor that has its extract goes on to send it, or is done.
LEMMA HasExtractKeeps ==
    ASSUME ExtractsInv, NEW a \in Actors, job[a].pc \notin {"idle", "next"}, HasExtract(a),
           UNCHANGED <<slot, fetched, due, refresh, passWaits, holds>>
    PROVE  /\ JobsInv' /\ HeldInv' /\ SlotsInv' /\ PageInv' /\ job'[a].pc \notin Extracting
           /\ \A b \in Actors \ {a} : job'[b] = job[b]
  <1>0. job[a] \in Jobs /\ JobOf(a, job[a])
    BY DEF ExtractsInv, JobsInv
  <1>1. CASE a \in Passes
    <2> DEFINE j == [job[a] EXCEPT !.pc = "put", !.retries = CallRetries]
    <2>1. job' = [job EXCEPT ![a] = j] /\ UNCHANGED <<told, late, untold>>
      BY <1>1 DEF HasExtract, page
    <2>2. /\ j \in Jobs /\ j.pc = "put" /\ j.left = job[a].left /\ j.feed = job[a].feed
          /\ j.sha = job[a].sha
      BY <1>0, ExtractLimits DEF Jobs, Places
    <2>3. JobOf(a, j) /\ TodoOf(j) = TodoOf(job[a])
      BY <1>0, <2>2 DEF JobOf, TodoOf
    <2> HIDE DEF j
    <2>4. /\ JobsInv' /\ HeldInv' /\ SlotsInv' /\ PageInv' /\ job'[a] = j
          /\ \A b \in Actors \ {a} : job'[b] = job[b]
      BY <2>1, <2>2, <2>3, FeedGoesOn
    <2> QED BY <2>2, <2>4 DEF Extracting
  <1>2. CASE a \notin Passes
    <2>1. FeedEnds(a, "ready")
      BY <1>2 DEF HasExtract
    <2> QED BY <2>1, EndsAnyway DEF Extracting
  <1> QED BY <1>1, <1>2

\* The looks at the cache, and the lock of the machine.
LEMMA LooksKeepStore ==
    \A a \in Actors : ExtractsInv /\ (FirstLook(a) \/ TakeLock(a) \/ SecondLook(a)) => ExtractsInv'
  <1> USE ExtractLimits DEF page
  <1>1. ASSUME ExtractsInv, NEW a \in Actors, FirstLook(a) PROVE ExtractsInv'
    <2>0. /\ job[a].pc = "known" /\ job[a] \in Jobs /\ JobOf(a, job[a])
          /\ UNCHANGED <<slot, fetched, due, refresh, passWaits, holds, cache, failed, lock>>
      BY <1>1 DEF FirstLook, bounds, ExtractsInv, JobsInv
    <2>1. CASE HasExtract(a)
      <3>1. /\ JobsInv' /\ HeldInv' /\ SlotsInv' /\ PageInv' /\ job'[a].pc \notin Extracting
            /\ \A b \in Actors \ {a} : job'[b] = job[b]
        BY <1>1, <2>0, <2>1, HasExtractKeeps
      <3>2. StoreInv'
        BY <1>1, <2>0, <3>1, StoreStays DEF ExtractsInv, Extracting
      <3> QED BY <3>1, <3>2 DEF ExtractsInv
    <2>2. CASE FeedEnds(a, "skipped")
      BY <1>1, <2>0, <2>2, EndsStill DEF Extracting
    <2>3. CASE Goto(a, "lock") /\ UNCHANGED <<told, late, untold>> /\ a # "build"
      <3> DEFINE j == [job[a] EXCEPT !.pc = "lock"]
      <3>1. job' = [job EXCEPT ![a] = j] /\ UNCHANGED <<told, late, untold>>
        BY <2>3 DEF Goto
      <3>2. /\ j \in Jobs /\ j.pc = "lock" /\ j.left = job[a].left /\ j.feed = job[a].feed
            /\ j.sha = job[a].sha /\ j.fd = job[a].fd
        BY <2>0 DEF Jobs, Places
      <3>3. j.sha[j.feed] = j.fd
        BY <2>0, <2>3, <3>2 DEF JobOf
      <3> HIDE DEF j
      <3> QED BY <1>1, <2>0, <2>3, <3>1, <3>2, <3>3, PlaceKeeps DEF Extracting
    <2> QED BY <1>1, <2>1, <2>2, <2>3 DEF FirstLook
  <1>2. ASSUME ExtractsInv, NEW a \in Actors, TakeLock(a) PROVE ExtractsInv'
    <2>0. /\ job[a].pc = "lock" /\ job[a] \in Jobs /\ JobOf(a, job[a])
          /\ UNCHANGED <<slot, fetched, due, refresh, passWaits, holds, cache, failed>>
      BY <1>2 DEF TakeLock, bounds, ExtractsInv, JobsInv
    <2>1. CASE lock = Nobody /\ lock' = a /\ Goto(a, "again") /\ UNCHANGED <<told, late, untold>>
      <3> DEFINE j == [job[a] EXCEPT !.pc = "again"]
      <3>1. job' = [job EXCEPT ![a] = j] /\ UNCHANGED <<told, late, untold>>
        BY <2>1 DEF Goto
      <3>2. /\ j \in Jobs /\ j.pc = "again" /\ j.left = job[a].left /\ j.feed = job[a].feed
            /\ j.sha = job[a].sha /\ j.fd = job[a].fd
        BY <2>0 DEF Jobs, Places
      <3>3. JobOf(a, j) /\ TodoOf(j) = TodoOf(job[a])
        BY <2>0, <3>2 DEF JobOf, TodoOf
      <3> HIDE DEF j
      <3>4. /\ JobsInv' /\ HeldInv' /\ SlotsInv' /\ PageInv' /\ job'[a] = j
            /\ \A b \in Actors \ {a} : job'[b] = job[b]
        BY <1>2, <2>0, <3>1, <3>2, <3>3, FeedGoesOn
      <3>5. StoreInv'
        <4>1. \A b \in Actors : job[b].pc \notin Extracting
          BY <1>2, <2>1 DEF ExtractsInv, StoreInv, OwnerExtracts
        <4>2. OwnerExtracts'
          BY <2>1, <3>2, <3>4, <4>1 DEF OwnerExtracts, Extracting
        <4>3. StoreTypes'
          BY <1>2, <2>0, <2>1 DEF ExtractsInv, StoreInv, StoreTypes
        <4>4. ASSUME NEW b \in Actors PROVE job'[b].pc # "child"
          BY <3>2, <3>4, <4>1 DEF Extracting
        <4> QED BY <4>2, <4>3, <4>4 DEF StoreInv, NoWastedExtraction
      <3> QED BY <3>4, <3>5 DEF ExtractsInv
    <2>2. CASE FeedEnds(a, "skipped") /\ UNCHANGED lock
      BY <1>2, <2>0, <2>2, EndsStill DEF Extracting
    <2> QED BY <1>2, <2>1, <2>2 DEF TakeLock
  <1>3. ASSUME ExtractsInv, NEW a \in Actors, SecondLook(a) PROVE ExtractsInv'
    <2>0. /\ job[a].pc = "again" /\ job[a] \in Jobs /\ JobOf(a, job[a])
          /\ UNCHANGED <<slot, fetched, due, refresh, passWaits, holds, cache, failed>>
      BY <1>3 DEF SecondLook, bounds, ExtractsInv, JobsInv
    <2>1. CASE HasExtract(a) /\ lock' = Nobody
      <3>1. /\ JobsInv' /\ HeldInv' /\ SlotsInv' /\ PageInv' /\ job'[a].pc \notin Extracting
            /\ \A b \in Actors \ {a} : job'[b] = job[b]
        BY <1>3, <2>0, <2>1, HasExtractKeeps
      <3>2. StoreTypes'
        BY <1>3, <2>0, <2>1 DEF ExtractsInv, StoreInv, StoreTypes
      <3>3. StoreInv'
        BY <1>3, <2>0, <2>1, <3>1, <3>2, StoreIsFree DEF ExtractsInv, Extracting
      <3> QED BY <3>1, <3>3 DEF ExtractsInv
    <2>2. CASE FeedEnds(a, "skipped") /\ lock' = Nobody
      <3>1. /\ JobsInv' /\ HeldInv' /\ SlotsInv' /\ PageInv' /\ job'[a].pc \notin Extracting
            /\ \A b \in Actors \ {a} : job'[b] = job[b]
        BY <1>3, <2>0, <2>2, EndsAnyway DEF Extracting
      <3>2. StoreTypes'
        BY <1>3, <2>0, <2>2 DEF ExtractsInv, StoreInv, StoreTypes
      <3>3. StoreInv'
        BY <1>3, <2>0, <2>2, <3>1, <3>2, StoreIsFree DEF ExtractsInv, Extracting
      <3> QED BY <3>1, <3>3 DEF ExtractsInv
    <2>3. CASE /\ Goto(a, "child") /\ UNCHANGED <<told, late, untold, lock>>
               /\ ~Known(job[a].feed, job[a].sha[job[a].feed])
      <3> DEFINE j == [job[a] EXCEPT !.pc = "child"]
      <3>1. job' = [job EXCEPT ![a] = j] /\ UNCHANGED <<told, late, untold>>
        BY <2>3 DEF Goto
      <3>2. /\ j \in Jobs /\ j.pc = "child" /\ j.left = job[a].left /\ j.feed = job[a].feed
            /\ j.sha = job[a].sha /\ j.fd = job[a].fd
        BY <2>0 DEF Jobs, Places
      <3>3. JobOf(a, j) /\ TodoOf(j) = TodoOf(job[a])
        BY <2>0, <3>2 DEF JobOf, TodoOf
      <3> HIDE DEF j
      <3>4. /\ JobsInv' /\ HeldInv' /\ SlotsInv' /\ PageInv' /\ job'[a] = j
            /\ \A b \in Actors \ {a} : job'[b] = job[b]
        BY <1>3, <2>0, <3>1, <3>2, <3>3, FeedGoesOn
      <3>5. StoreInv'
        <4>1. UNCHANGED <<cache, failed, lock>>
          BY <2>0, <2>3
        <4>2. OwnerExtracts'
          BY <1>3, <2>0, <3>2, <3>4, <4>1 DEF ExtractsInv, StoreInv, OwnerExtracts, Extracting
        <4>3. StoreTypes'
          BY <1>3, <4>1 DEF ExtractsInv, StoreInv, StoreTypes
        <4>4. NoWastedExtraction'
          <5> SUFFICES ASSUME NEW b \in Actors, job'[b].pc = "child"
                       PROVE  ~Known(job[b].feed, job[b].sha[job[b].feed])'
            BY DEF NoWastedExtraction
          <5>1. job'[b].feed = job[b].feed /\ job'[b].sha = job[b].sha
            BY <3>2, <3>4
          <5>2. ~Known(job[b].feed, job[b].sha[job[b].feed])
            BY <1>3, <2>3, <3>4 DEF ExtractsInv, StoreInv, NoWastedExtraction
          <5> QED BY <4>1, <5>1, <5>2 DEF Known, HasFile, Remembered
        <4> QED BY <4>2, <4>3, <4>4 DEF StoreInv
      <3> QED BY <3>4, <3>5 DEF ExtractsInv
    <2> QED BY <1>3, <2>1, <2>2, <2>3 DEF SecondLook
  <1> QED BY <1>1, <1>2, <1>3

\* What the extraction leaves: one extract of the feed, of the file its name says, or a failure.
LEMMA ChildKeeps ==
    \A a \in Actors : ExtractsInv /\ (ChildExtracts(a) \/ ChildFails(a)) => ExtractsInv'
  <1> USE ExtractLimits DEF page
  <1>0. ASSUME ExtractsInv, NEW a \in Actors, job[a].pc = "child"
        PROVE  /\ job[a].feed \in Stops /\ job[a].sha[job[a].feed] \in Files
               /\ job[a].sha[job[a].feed] = job[a].fd
               /\ ~Known(job[a].feed, job[a].sha[job[a].feed])
    <2>1. job[a] \in Jobs /\ JobOf(a, job[a])
      BY <1>0 DEF ExtractsInv, JobsInv
    <2>2. job[a].feed \in Stops /\ job[a].sha[job[a].feed] = job[a].fd
      BY <1>0, <2>1 DEF JobOf
    <2>3. job[a].fd \in Files
      BY <2>1 DEF Jobs
    <2> QED BY <1>0, <2>2, <2>3 DEF ExtractsInv, StoreInv, NoWastedExtraction
  <1>1. ASSUME ExtractsInv, NEW a \in Actors, ChildExtracts(a) PROVE ExtractsInv'
    <2> DEFINE f == job[a].feed
               v == job[a].sha[f]
    <2>0. /\ job[a].pc = "child" /\ HasExtract(a) /\ lock' = Nobody
          /\ cache' = Pruned(f, v, job[a].fd) /\ failed' = [failed EXCEPT ![f] = NoFailure]
          /\ UNCHANGED <<slot, fetched, due, refresh, passWaits, holds>>
      BY <1>1 DEF ChildExtracts, bounds
    <2>1. f \in Stops /\ v \in Files /\ job[a].fd = v
      BY <1>0, <1>1, <2>0
    <2>2. /\ JobsInv' /\ HeldInv' /\ SlotsInv' /\ PageInv' /\ job'[a].pc \notin Extracting
          /\ \A b \in Actors \ {a} : job'[b] = job[b]
      BY <1>1, <2>0, HasExtractKeeps
    <2>3. StoreTypes'
      <3> HIDE DEF f, v
      <3>1. StoreTypes
        BY <1>1 DEF ExtractsInv, StoreInv
      <3>2. cache' = [cache EXCEPT ![f] = [w \in Files |-> IF w = v THEN v ELSE 0]]
        BY <2>0, <2>1 DEF Pruned
      <3>3. cache' \in [Stops -> [Files -> Files]]
        BY <2>1, <3>1, <3>2 DEF StoreTypes
      <3>4. \A g \in Stops, w \in Files : cache'[g][w] \in {0, w}
        BY <2>1, <3>1, <3>2 DEF StoreTypes
      <3>5. \A g \in Stops, w, x \in Files : cache'[g][w] # 0 /\ cache'[g][x] # 0 => w = x
        BY <2>1, <3>1, <3>2 DEF StoreTypes
      <3>6. failed' \in [Stops -> [file : Files, reason : Reasons, tries : 0..Tries]]
        <4>1. NoFailure \in [file : Files, reason : Reasons, tries : 0..Tries]
          BY DEF NoFailure, Reasons
        <4> HIDE DEF NoFailure
        <4> QED BY <2>0, <3>1, <4>1 DEF StoreTypes
      <3> QED BY <2>0, <3>3, <3>4, <3>5, <3>6 DEF StoreTypes
    <2>4. StoreInv'
      BY <1>1, <2>0, <2>2, <2>3, StoreIsFree DEF ExtractsInv, Extracting
    <2> QED BY <2>2, <2>4 DEF ExtractsInv
  <1>2. ASSUME ExtractsInv, NEW a \in Actors, ChildFails(a) PROVE ExtractsInv'
    <2> DEFINE f == job[a].feed
               v == job[a].sha[f]
    <2>0. /\ job[a].pc = "child" /\ FeedEnds(a, "skipped") /\ lock' = Nobody
          /\ UNCHANGED <<slot, fetched, due, refresh, passWaits, holds>>
      BY <1>2 DEF ChildFails, bounds
    <2>1. PICK reason \in CountedReasons \cup RememberedReasons \cup OtherReasons :
                Remember(f, v, reason)
      BY <1>2 DEF ChildFails
    <2>2. f \in Stops /\ v \in Files /\ ~Known(f, v)
      BY <1>0, <1>2, <2>0
    <2>3. /\ JobsInv' /\ HeldInv' /\ SlotsInv' /\ PageInv' /\ job'[a].pc \notin Extracting
          /\ \A b \in Actors \ {a} : job'[b] = job[b]
      BY <1>2, <2>0, EndsAnyway DEF Extracting
    <2>4. StoreTypes'
      <3> HIDE DEF f, v
      <3>1. StoreTypes
        BY <1>2 DEF ExtractsInv, StoreInv
      <3> DEFINE Kinds2 == [file : Files, reason : Reasons, tries : 0..Tries]
      <3>2. CASE reason \in OtherReasons
        <4>1. NoFailure \in Kinds2
          BY DEF NoFailure, Reasons
        <4> HIDE DEF NoFailure
        <4> DEFINE counted == failed[f].file = v /\ failed[f].tries > 0
        <4>3. cache' = cache /\ failed' = [failed EXCEPT ![f] = IF counted THEN NoFailure ELSE @]
          BY <2>1, <3>2 DEF Remember
        <4>4. failed \in [Stops -> Kinds2]
          BY <3>1 DEF StoreTypes
        <4> DEFINE rest == IF counted THEN NoFailure ELSE failed[f]
        <4>5. failed' = [failed EXCEPT ![f] = rest]
          BY <4>3
        <4>6. rest \in Kinds2
          BY ONLY <2>2, <4>1, <4>4
        <4> HIDE DEF rest, Kinds2
        <4>2. cache' = cache /\ failed' \in [Stops -> Kinds2]
          BY <2>2, <4>3, <4>4, <4>5, <4>6
        <4> QED BY <2>0, <3>1, <4>2 DEF StoreTypes, Kinds2
      <3>3. CASE reason \notin OtherReasons
        <4> DEFINE same == failed[f].file = v /\ failed[f].reason = reason
                   n == IF reason \notin CountedReasons THEN 0
                        ELSE IF same THEN failed[f].tries + 1 ELSE 1
                   row == [file |-> v, reason |-> reason, tries |-> n]
        <4>1. failed' = [failed EXCEPT ![f] = row] /\ cache' = Pruned(f, 0, 0)
          BY <2>1, <3>3 DEF Remember
        <4>2. failed[f].tries \in 0..Tries
          BY <2>2, <3>1 DEF StoreTypes
        <4>3. same /\ reason \in CountedReasons => failed[f].tries < Tries
          BY <2>2, <4>2 DEF Known, Remembered
        <4>4. n \in 0..Tries
          BY <4>2, <4>3
        <4>5. reason \in Reasons
          BY <3>3 DEF Reasons
        <4> HIDE DEF n
        <4>6. row \in Kinds2
          BY <2>2, <4>4, <4>5
        <4> HIDE DEF row
        <4>7. failed' \in [Stops -> Kinds2]
          BY <2>2, <3>1, <4>1, <4>6 DEF StoreTypes
        <4>8. cache' = [cache EXCEPT ![f] = [w \in Files |-> 0]]
          BY <4>1 DEF Pruned
        <4>9. /\ cache' \in [Stops -> [Files -> Files]]
              /\ \A g \in Stops, w \in Files : cache'[g][w] \in {0, w}
              /\ \A g \in Stops, w, x \in Files : cache'[g][w] # 0 /\ cache'[g][x] # 0 => w = x
          BY <2>2, <3>1, <4>8 DEF StoreTypes
        <4> QED BY <2>0, <4>7, <4>9 DEF StoreTypes
      <3> QED BY <3>2, <3>3
    <2>5. StoreInv'
      BY <1>2, <2>0, <2>3, <2>4, StoreIsFree DEF ExtractsInv, Extracting
    <2> QED BY <2>3, <2>5 DEF ExtractsInv
  <1> QED BY <1>1, <1>2

\* A pass leaves its extraction behind: the stray goes on where it was, with the lock it had.
LEMMA GiveUpKeeps == ExtractsInv /\ GiveUp => ExtractsInv'
  <1> SUFFICES ASSUME ExtractsInv, GiveUp PROVE ExtractsInv'
    OBVIOUS
  <1> USE ExtractLimits DEF page
  <1> DEFINE s == [job["pass"] EXCEPT !.left = {}, !.retries = 0]
             d == Done("pass")
             f == job["pass"].feed
  <1>0. /\ job["pass"].pc \in {"lock", "again", "child"} /\ job["stray"].pc = "idle"
        /\ job' = [job EXCEPT !["stray"] = s, !["pass"] = d] /\ Record("pass", f, "skipped")
        /\ lock' = IF lock = "pass" THEN "stray" ELSE lock
        /\ UNCHANGED <<slot, fetched, due, refresh, passWaits, holds, cache, failed>>
    BY DEF GiveUp, bounds
  <1>1. job["pass"] \in Jobs /\ JobOf("pass", job["pass"]) /\ f \in Stops /\ f \notin job["pass"].left
    BY <1>0 DEF ExtractsInv, JobsInv, JobOf
  <1>2. /\ s \in Jobs /\ s.pc = job["pass"].pc /\ s.feed = f /\ s.left = {}
        /\ s.sha = job["pass"].sha /\ s.fd = job["pass"].fd
    BY <1>1 DEF Jobs
  <1>3. JobOf("stray", s)
    BY <1>0, <1>1, <1>2 DEF JobOf
  <1>4. FeedOver("pass", d) /\ d \in Jobs /\ JobOf("pass", d) /\ d.pc = "next"
        /\ d.left = job["pass"].left /\ d.sha = job["pass"].sha
    BY DoneIsJob DEF ExtractsInv, FeedOver
  <1> HIDE DEF s, d, f
  <1>5. /\ job'["stray"] = s /\ job'["pass"] = d /\ JobsInv'
        /\ \A b \in Actors \ {"pass", "stray"} : job'[b] = job[b]
    BY <1>0, <1>2, <1>3, <1>4 DEF ExtractsInv, JobsInv
  <1>6. StoreInv'
    <2>1. lock # "stray" /\ lock' \in Actors \cup {Nobody}
      BY <1>0 DEF ExtractsInv, StoreInv, StoreTypes, OwnerExtracts, Extracting
    <2>2. OwnerExtracts'
      BY <1>0, <1>2, <1>4, <1>5, <2>1, ZenonT(60) DEF ExtractsInv, StoreInv, OwnerExtracts, Extracting
    <2>3. StoreTypes'
      BY <1>0, <2>1 DEF ExtractsInv, StoreInv, StoreTypes
    <2>4. NoWastedExtraction'
      <3> SUFFICES ASSUME NEW b \in Actors, job'[b].pc = "child"
                   PROVE  ~Known(job[b].feed, job[b].sha[job[b].feed])'
        BY DEF NoWastedExtraction
      <3>1. PICK c \in Actors : job[c].pc = "child" /\ job'[b].feed = job[c].feed
                                /\ job'[b].sha = job[c].sha
        BY <1>2, <1>4, <1>5 DEF f
      <3>2. ~Known(job[c].feed, job[c].sha[job[c].feed])
        BY <3>1 DEF ExtractsInv, StoreInv, NoWastedExtraction
      <3> QED BY <1>0, <3>1, <3>2 DEF Known, HasFile, Remembered
    <2> QED BY <2>2, <2>3, <2>4 DEF StoreInv
  <1>7. HeldInv'
    BY <1>0, <1>1, HeldRecords DEF ExtractsInv, HeldInv
  <1>8. SlotsInv'
    <2>1. late' \subseteq Stops
      BY <1>0, <1>1 DEF Record, ExtractsInv, SlotsInv
    <2> QED BY <1>0, <2>1, SlotsStay DEF ExtractsInv
  <1>9. PageInv'
    <2>1. /\ f \in TodoOf(job["pass"]) /\ TodoOf(job'["pass"]) = TodoOf(job["pass"]) \ {f}
      BY <1>0, <1>1, <1>4, <1>5 DEF TodoOf, f
    <2>2. \A b \in Passes \ {"pass"} : job'[b] = job[b]
      BY <1>5
    <2>3. job'["pass"].sha = job["pass"].sha
      BY <1>4, <1>5
    <2> QED BY <1>0, <1>1, <2>1, <2>2, <2>3, PageRecords DEF ExtractsInv
  <1> QED BY <1>5, <1>6, <1>7, <1>8, <1>9 DEF ExtractsInv

\* What a pass that sends has in hand, and what the module holds.
LEMMA PutHas ==
    ASSUME ExtractsInv, NEW a \in Actors, job[a].pc = "put"
    PROVE  /\ job[a].feed \in Stops /\ job[a].sha[job[a].feed] \in Files
           /\ holds \in [Stops -> [Files -> Files]]
           /\ cache[job[a].feed][job[a].sha[job[a].feed]] \in Files
           /\ \A g \in Stops, w \in Files : holds[g][w] \in {0, w} /\ cache[g][w] \in {0, w}
  <1>1. job[a] \in Jobs /\ JobOf(a, job[a])
    BY DEF ExtractsInv, JobsInv
  <1>2. job[a].feed \in Stops
    BY <1>1 DEF JobOf
  <1>3. job[a].sha[job[a].feed] \in Files
    BY <1>1, <1>2 DEF Jobs
  <1>4. /\ holds \in [Stops -> [Files -> Files]] /\ cache \in [Stops -> [Files -> Files]]
        /\ \A g \in Stops, w \in Files : holds[g][w] \in {0, w}
        /\ \A g \in Stops, w \in Files : cache[g][w] \in {0, w}
    BY DEF ExtractsInv, HeldInv, StoreInv, StoreTypes
  <1> QED BY <1>2, <1>3, <1>4, ZenonT(60)

\* What a PUT adds to what the module holds.
LEMMA PutGives ==
    ASSUME ExtractsInv, NEW a \in Actors, job[a].pc = "put",
           HasFile(job[a].feed, job[a].sha[job[a].feed]),
           holds' = [holds EXCEPT ![job[a].feed][job[a].sha[job[a].feed]] =
                        cache[job[a].feed][job[a].sha[job[a].feed]]]
    PROVE  /\ holds' \in [Stops -> [Files -> Files]] /\ holds'[job[a].feed][job[a].sha[job[a].feed]] # 0
           /\ \A g \in Stops, w \in Files :
                holds'[g][w] \in {0, w} /\ (holds[g][w] # 0 => holds'[g][w] # 0)
  <1> DEFINE f == job[a].feed
             v == job[a].sha[f]
             x == cache[f][v]
  <1>1. /\ f \in Stops /\ v \in Files /\ x \in Files /\ x # 0 /\ x \in {0, v}
        /\ holds \in [Stops -> [Files -> Files]]
        /\ \A g \in Stops, w \in Files : holds[g][w] \in {0, w}
    BY PutHas DEF HasFile
  <1>2. holds' = [holds EXCEPT ![f][v] = x]
    OBVIOUS
  <1> HIDE DEF f, v, x
  <1>3. \A g \in Stops, w \in Files : holds'[g][w] = IF g = f /\ w = v THEN x ELSE holds[g][w]
    BY <1>1, <1>2
  <1>4. holds' \in [Stops -> [Files -> Files]]
    BY ONLY <1>1, <1>2, SMTT(30)
  <1>5. holds'[f][v] # 0 /\ \A g \in Stops, w \in Files :
                  holds'[g][w] \in {0, w} /\ (holds[g][w] # 0 => holds'[g][w] # 0)
    BY <1>1, <1>3, ZenonT(60)
  <1> QED BY <1>4, <1>5 DEF f, v

\* The PUT: the module is given what the cache has under that name.
LEMMA PutsKeep ==
    \A a \in Actors :
        ExtractsInv /\ (Put(a) \/ (a \in Passes /\ (PutAnswerLost(a) \/ PutRefusedFull(a)))) => ExtractsInv'
  <1> USE ExtractLimits DEF page
  <1>1. ASSUME ExtractsInv, NEW a \in Actors, Put(a) PROVE ExtractsInv'
    <2>0. /\ job[a].pc = "put"
          /\ UNCHANGED <<slot, fetched, due, refresh, passWaits, cache, failed, lock>>
      BY <1>1 DEF Put, bounds
    <2>1. CASE ~HasFile(job[a].feed, job[a].sha[job[a].feed])
      <3>1. FeedEnds(a, "skipped") /\ UNCHANGED holds
        BY <1>1, <2>1 DEF Put
      <3> QED BY <1>1, <2>0, <3>1, EndsStill DEF Extracting
    <2>2. CASE HasFile(job[a].feed, job[a].sha[job[a].feed])
      <3> DEFINE state == PutAnswer(job[a].feed, job[a].sha[job[a].feed])
      <3>1. /\ FeedEnds(a, state)
            /\ holds' = [holds EXCEPT ![job[a].feed][job[a].sha[job[a].feed]] =
                            cache[job[a].feed][job[a].sha[job[a].feed]]]
        BY <1>1, <2>2 DEF Put
      <3>2. state \in {"sent", "held"}
        BY DEF PutAnswer
      <3> HIDE DEF state
      <3>3. FeedOver(a, Done(a))
        BY <1>1, DoneIsJob DEF ExtractsInv
      <3>4. /\ job' = [job EXCEPT ![a] = Done(a)]
            /\ IF a \in Passes THEN Record(a, job[a].feed, state) ELSE UNCHANGED <<told, late, untold>>
        BY <3>1 DEF FeedEnds
      <3>5. /\ holds' \in [Stops -> [Files -> Files]] /\ holds'[job[a].feed][job[a].sha[job[a].feed]] # 0
            /\ \A g \in Stops, w \in Files :
                    holds'[g][w] \in {0, w} /\ (holds[g][w] # 0 => holds'[g][w] # 0)
        BY <1>1, <2>0, <2>2, <3>1, PutGives, ZenonT(60)
      <3> QED BY <1>1, <2>0, <3>2, <3>3, <3>4, <3>5, EndsKeeps, Zenon DEF Extracting
    <2> QED BY <2>1, <2>2
  <1>2. ASSUME ExtractsInv, NEW a \in Passes, PutAnswerLost(a) PROVE ExtractsInv'
    <2> DEFINE j == [Done(a) EXCEPT !.down = TRUE]
    <2>0. /\ job[a].pc = "put" /\ cache[job[a].feed][job[a].sha[job[a].feed]] # 0 /\ a \in Actors
          /\ holds' \in {holds, [holds EXCEPT ![job[a].feed][job[a].sha[job[a].feed]] =
                                    cache[job[a].feed][job[a].sha[job[a].feed]]]}
          /\ job' = [job EXCEPT ![a] = j] /\ Record(a, job[a].feed, "unavailable")
          /\ UNCHANGED <<slot, fetched, due, refresh, passWaits, cache, failed, lock>>
      BY <1>2 DEF PutAnswerLost, ModuleDown, MaybeTaken, bounds
    <2>1. FeedOver(a, j)
      BY <1>2, DownIsOver
    <2>2. /\ holds' \in [Stops -> [Files -> Files]]
          /\ \A g \in Stops, w \in Files :
                    holds'[g][w] \in {0, w} /\ (holds[g][w] # 0 => holds'[g][w] # 0)
      <3>1. CASE holds' = holds
        BY PutHas, <1>2, <2>0, <3>1
      <3>2. CASE holds' # holds
        BY <1>2, <2>0, <3>2, PutGives, ZenonT(60) DEF HasFile
      <3> QED BY <3>1, <3>2
    <2> HIDE DEF j
    <2> QED BY <1>2, <2>0, <2>1, <2>2, EndsKeeps, ZenonT(60) DEF Extracting
  <1>3. ASSUME ExtractsInv, NEW a \in Passes, PutRefusedFull(a) PROVE ExtractsInv'
    <2> DEFINE j == [Done(a) EXCEPT !.window = TRUE]
    <2>0. /\ job[a].pc = "put" /\ a \in Actors
          /\ job' = [job EXCEPT ![a] = j] /\ Record(a, job[a].feed, "unavailable")
          /\ UNCHANGED <<slot, fetched, due, refresh, passWaits, cache, failed, lock, holds>>
      BY <1>3 DEF PutRefusedFull, bounds
    <2>1. FeedOver(a, j)
      BY <1>3, DownIsOver
    <2>2. /\ holds' \in [Stops -> [Files -> Files]]
          /\ \A g \in Stops, w \in Files :
                    holds'[g][w] \in {0, w} /\ (holds[g][w] # 0 => holds'[g][w] # 0)
      BY PutHas, <1>3, <2>0
    <2> HIDE DEF j
    <2> QED BY <1>3, <2>0, <2>1, <2>2, EndsKeeps DEF Extracting
  <1> QED BY <1>1, <1>2, <1>3

\* A pass that raises leaves what it had not told untold; the module may have taken a file.
LEMMA RaisesKeep == \A a \in Passes : ExtractsInv /\ PassRaises(a) => ExtractsInv'
  <1> USE ExtractLimits
  <1> SUFFICES ASSUME ExtractsInv, NEW a \in Passes, PassRaises(a) PROVE ExtractsInv'
    OBVIOUS
  <1>0. /\ job[a].pc \in {"next", "head", "extract", "put"} /\ a \in Actors
        /\ job' = [job EXCEPT ![a] = Resting]
        /\ untold' = IF a = "pass" THEN untold \cup TodoOf(job[a]) ELSE untold
        /\ UNCHANGED <<slot, fetched, due, refresh, passWaits, told, late, cache, failed, lock>>
    BY DEF PassRaises, Untold, bounds
  <1>1. JobsInv' /\ job'[a] = Resting /\ \A b \in Actors \ {a} : job'[b] = job[b]
    BY <1>0, RestIsJob, JobChanges DEF ExtractsInv
  <1>2. Resting.pc = "idle" /\ TodoOf(Resting) = {}
    BY RestIsJob
  <1> HIDE DEF Resting
  <1>3. StoreInv'
    BY <1>0, <1>1, <1>2, StoreStays DEF ExtractsInv, Extracting
  <1>4. HeldInv'
    <2>1. CASE holds' = holds
      BY <1>0, <2>1, HeldStays DEF ExtractsInv, HeldInv
    <2>2. CASE holds' # holds
      <3>1. /\ job[a].pc = "put" /\ HasFile(job[a].feed, job[a].sha[job[a].feed])
            /\ holds' = [holds EXCEPT ![job[a].feed][job[a].sha[job[a].feed]] =
                            cache[job[a].feed][job[a].sha[job[a].feed]]]
        BY <2>2 DEF PassRaises, MaybeTaken
      <3>2. /\ holds' \in [Stops -> [Files -> Files]]
            /\ \A g \in Stops, w \in Files :
                    holds'[g][w] \in {0, w} /\ (holds[g][w] # 0 => holds'[g][w] # 0)
        BY <1>0, <3>1, PutGives
      <3> QED BY <1>0, <3>2, HeldStays DEF ExtractsInv
    <2> QED BY <2>1, <2>2
  <1>5. SlotsInv'
    BY <1>0 DEF ExtractsInv, SlotsInv
  <1>6. PageInv'
    <2> SUFFICES ASSUME NEW f \in Stops
                 PROVE  /\ Behind("pass", f)' => passWaits'
                        /\ \/ told'[f].file >= due'[f] \/ passWaits' \/ f \in TodoOf(job'["pass"])
                           \/ f \in late' /\ ~Behind("build", f)'
                           \/ f \in untold'
      BY DEF PageInv
    <2>1. \A b \in Passes : Behind(b, f)' => Behind(b, f)
      BY <1>0, <1>1, <1>2 DEF Behind
    <2>2. f \in TodoOf(job["pass"]) => f \in TodoOf(job'["pass"]) \/ f \in untold'
      BY <1>0, <1>1
    <2>3. "pass" \in Passes /\ "build" \in Passes /\ (f \in untold => f \in untold')
      BY <1>0
    <2> QED BY <1>0, <2>1, <2>2, <2>3 DEF ExtractsInv, PageInv
  <1> QED BY <1>1, <1>3, <1>4, <1>5, <1>6 DEF ExtractsInv

\* The web process dies: its pass, if one ran, waits again.
LEMMA RestartKeeps == ExtractsInv /\ WebRestarts => ExtractsInv'
  <1> SUFFICES ASSUME ExtractsInv, WebRestarts PROVE ExtractsInv'
    OBVIOUS
  <1> USE ExtractLimits DEF page
  <1>0. /\ lock' = Nobody /\ refresh' = Nobody
        /\ job' = [a \in Actors |-> IF a = "build" THEN job[a] ELSE Resting]
        /\ UNCHANGED <<slot, fetched, due, told, late, holds, cache, failed>>
        /\ \/ passWaits' = (passWaits \/ job["pass"].pc # "idle") /\ untold' = untold
           \/ /\ passWaits' = FALSE
              /\ untold' = IF passWaits \/ job["pass"].pc # "idle" THEN Stops ELSE untold
    BY DEF WebRestarts
  <1>1. JobsInv'
    BY <1>0, RestIsJob DEF ExtractsInv, JobsInv
  <1>2. \A a \in Actors : job'[a].pc \notin Extracting
    <2>1. job["build"].pc \notin Extracting
      BY DEF ExtractsInv, JobsInv, JobOf, Extracting
    <2>2. Resting.pc = "idle"
      BY RestIsJob
    <2> HIDE DEF Resting
    <2> QED BY <1>0, <2>1, <2>2 DEF Extracting
  <1>3. StoreInv'
    <2>1. StoreTypes'
      BY <1>0 DEF ExtractsInv, StoreInv, StoreTypes
    <2>2. OwnerExtracts'
      BY <1>0, <1>2 DEF OwnerExtracts
    <2>3. NoWastedExtraction'
      BY <1>2 DEF NoWastedExtraction, Extracting
    <2> QED BY <2>1, <2>2, <2>3 DEF StoreInv
  <1>4. HeldInv' /\ SlotsInv'
    BY <1>0 DEF ExtractsInv, HeldInv, SentIsHeld, SlotsInv
  <1>5. PageInv'
    <2> SUFFICES ASSUME NEW f \in Stops
                 PROVE  /\ Behind("pass", f)' => passWaits'
                        /\ \/ told'[f].file >= due'[f] \/ passWaits' \/ f \in TodoOf(job'["pass"])
                           \/ f \in late' /\ ~Behind("build", f)'
                           \/ f \in untold'
      BY DEF PageInv
    <2>1. TodoOf(job'["pass"]) = {} /\ job'["build"] = job["build"]
      <3>1. job'["pass"] = Resting /\ job'["build"] = job["build"]
        BY <1>0
      <3> QED BY <3>1, RestIsJob
    <2>2. ~Behind("pass", f)' /\ (Behind("build", f)' <=> Behind("build", f))
      BY <1>0, <2>1 DEF Behind
    <2>3. CASE job["pass"].pc # "idle" \/ passWaits
      BY <1>0, <2>2, <2>3
    <2>4. CASE job["pass"].pc = "idle" /\ ~passWaits
      <3>1. TodoOf(job["pass"]) = {}
        BY <2>4 DEF TodoOf
      <3> QED BY <1>0, <2>2, <2>4, <3>1 DEF ExtractsInv, PageInv
    <2> QED BY <2>3, <2>4
  <1> QED BY <1>1, <1>3, <1>4, <1>5 DEF ExtractsInv

\* Nothing is extracted, sent or told at the start, and what was fetched waits.
LEMMA ExtractsStart == ExtractInit => ExtractsInv
  <1> SUFFICES ASSUME ExtractInit PROVE ExtractsInv
    OBVIOUS
  <1> USE ExtractLimits DEF page
  <1>0. /\ slot \in [Stops -> {0, 1}] /\ fetched = slot /\ due = slot /\ passWaits = TRUE /\ late = {} /\ untold = {}
        /\ cache = [f \in Stops |-> [v \in Files |-> IF f \in Cached /\ v = slot[f] THEN v ELSE 0]]
        /\ holds = [f \in Stops |-> [v \in Files |-> 0]] /\ failed = [f \in Stops |-> NoFailure]
        /\ told = [f \in Stops |-> [state |-> "none", file |-> 0]]
        /\ lock = Nobody /\ job = [a \in Actors |-> Resting] /\ refresh = Nobody
    BY DEF ExtractInit
  <1>1. slot \in [Stops -> Files]
    BY <1>0
  <1>2. JobsInv /\ \A a \in Actors : job[a].pc \notin Extracting
    <2> HIDE DEF Resting
    <2> QED BY <1>0, RestIsJob DEF JobsInv, Extracting
  <1>3. StoreInv
    <2>1. NoFailure \in [file : Files, reason : Reasons, tries : 0..Tries]
      BY DEF NoFailure, Reasons
    <2> HIDE DEF NoFailure
    <2>2. StoreTypes
      BY <1>0, <1>1, <2>1 DEF StoreTypes
    <2>3. OwnerExtracts
      BY <1>0, <1>2 DEF OwnerExtracts
    <2>4. NoWastedExtraction
      BY <1>2 DEF NoWastedExtraction, Extracting
    <2> QED BY <2>2, <2>3, <2>4 DEF StoreInv
  <1>4. HeldInv
    BY <1>0 DEF HeldInv, SentIsHeld, Pages
  <1>5. SlotsInv
    BY <1>0, <1>1 DEF SlotsInv
  <1>6. PageInv
    BY <1>0 DEF PageInv
  <1> QED BY <1>2, <1>3, <1>4, <1>5, <1>6 DEF ExtractsInv

\* Every step of the extracts, and every step of the others, keeps their invariant.
LEMMA ExtractsStep == ExtractsInv /\ (ExtractNext \/ UNCHANGED extractVars) => ExtractsInv'
  <1> SUFFICES ASSUME ExtractsInv, ExtractNext \/ UNCHANGED extractVars PROVE ExtractsInv'
    OBVIOUS
  <1>1. CASE UNCHANGED extractVars
    <2>1. UNCHANGED <<slot, fetched, cache, failed, holds, told, lock, job, refresh, passWaits, due, late, untold>>
      BY <1>1 DEF extractVars
    <2>2. JobsInv' /\ HeldInv' /\ SlotsInv' /\ PageInv'
      BY <2>1 DEF ExtractsInv, JobsInv, HeldInv, SentIsHeld, SlotsInv, PageInv, Behind
    <2>3. StoreInv'
      BY <2>1 DEF ExtractsInv, StoreInv, StoreTypes, OwnerExtracts, NoWastedExtraction, Known,
         HasFile, Remembered
    <2> QED BY <2>2, <2>3 DEF ExtractsInv
  <1>2. CASE ExtractNext
    <2>1. CASE (\E f \in Stops : PlaceFile(f)) \/ SaveFetchState \/ QueueExtracts
      BY <2>1, SlotsKeep
    <2>2. CASE StartWarm \/ \E a \in Passes : StartPass(a)
      BY <2>2, StartsKeep
    <2>3. ASSUME NEW a \in Actors, ActorStep(a) PROVE ExtractsInv'
      BY <2>3, StartsKeep, FeedsKeep, HeadKeeps, LinkKeeps, LooksKeepStore, ChildKeeps, PutsKeep
         DEF ActorStep
    <2>4. ASSUME NEW a \in Passes,
                 CallFails(a) \/ PutAnswerLost(a) \/ PutRefusedFull(a) \/ PassRaises(a)
          PROVE  ExtractsInv'
      BY <2>4, HeadKeeps, PutsKeep, RaisesKeep, ExtractLimits
    <2>5. ASSUME NEW a \in Actors, ChildFails(a) PROVE ExtractsInv'
      BY <2>5, ChildKeeps
    <2> QED BY <1>2, <2>1, <2>2, <2>3, <2>4, <2>5, GiveUpKeeps, RestartKeeps DEF ExtractNext
  <1> QED BY <1>1, <1>2

\* What the run checks of the extracts follows.
LEMMA ExtractsTrue == ExtractsInv => ExtractsAreTrue
  <1> SUFFICES ASSUME ExtractsInv PROVE ExtractsAreTrue
    OBVIOUS
  <1> USE ExtractLimits
  <1>1. ExtractTypeOK
    <2>1. /\ slot \in [Stops -> Files] /\ fetched \in [Stops -> Files]
          /\ cache \in [Stops -> [Files -> Files]] /\ holds \in [Stops -> [Files -> Files]]
          /\ \A f \in Stops : failed[f].file \in Files /\ failed[f].tries \in 0..Tries
          /\ lock \in Actors \cup {Nobody} /\ refresh \in Stops \cup {Nobody}
      BY DEF ExtractsInv, SlotsInv, StoreInv, StoreTypes, HeldInv
    <2>2. \A f \in Stops : Cardinality({v \in Files : cache[f][v] # 0}) <= 1
      <3> TAKE f \in Stops
      <3>1. \A v, w \in {u \in Files : cache[f][u] # 0} : v = w
        BY DEF ExtractsInv, StoreInv, StoreTypes
      <3> QED BY <3>1, OneAtMost
    <2>3. \A a \in Actors : job[a].pc \in Extracting <=> lock = a
      BY DEF ExtractsInv, StoreInv, OwnerExtracts
    <2>4. (lock # Nobody) = (\E a \in Actors : job[a].pc \in {"again", "child"})
      BY <2>1, <2>3 DEF Extracting
    <2>5. Cardinality({a \in Actors : job[a].pc \in {"again", "child"}}) <= 1
      <3>1. \A a, b \in {c \in Actors : job[c].pc \in {"again", "child"}} : a = b
        BY <2>3 DEF Extracting
      <3> QED BY <3>1, OneAtMost
    <2> QED BY <2>1, <2>2, <2>4, <2>5 DEF ExtractTypeOK
  <1>2. LabelIsContent
    BY DEF ExtractsInv, StoreInv, StoreTypes, HeldInv, LabelIsContent
  <1>3. NoWastedExtraction /\ SentIsHeld
    BY DEF ExtractsInv, StoreInv, HeldInv
  <1>4. QuietIsTold
    <2> SUFFICES ASSUME ~passWaits, \A a \in Passes : job[a].pc = "idle", NEW f \in Stops
                 PROVE  told[f].file >= due[f] \/ f \in late \/ f \in untold
      BY DEF QuietIsTold
    <2>1. TodoOf(job["pass"]) = {}
      BY DEF TodoOf
    <2> QED BY <2>1 DEF ExtractsInv, PageInv
  <1> QED BY <1>1, <1>2, <1>3, <1>4 DEF ExtractsAreTrue

-----------------------------------------------------------------------------
(* Lists and their members in a set *)

\* The least element of a set of naturals is one (Min).
LEMMA SmallestOf ==
    ASSUME NEW S \in SUBSET Nat, S # {}
    PROVE  Min(S) \in S /\ \A y \in S : Min(S) <= y
  <1>1. PICK x \in S : \A y \in S : ~(<<y, x>> \in OpToRel(<, Nat))
    BY NatLessThanWellFounded, WFMin
  <1>2. \A y \in S : ~(y < x)
    BY <1>1, Zenon DEF OpToRel
  <1>3. \A y \in S : x <= y
    BY <1>2
  <1> QED BY <1>3 DEF Min

\* Each of a list's members is at a place of another, in the order of the places.
InOrder(at, m, s, of) ==
    \A i \in 1..Len(m) : /\ m[i] = s[at[i]] /\ s[at[i]] \in of
                         /\ \A j \in 1..Len(m) : i < j => at[i] < at[j]

\* What the members among the first `n` of a list are: a part of it in its order.
PartOf(m, s, n, of) ==
    /\ m \in Seq(Range(s)) /\ Len(m) <= n
    /\ \A k \in 1..n : s[k] \in of => \E i \in 1..Len(m) : m[i] = s[k]
    /\ \E at \in [1..Len(m) -> 1..n] : InOrder(at, m, s, of)

\* One place of the list more.
LEMMA PartGrows ==
    ASSUME NEW s, s \in Seq(Range(s)), NEW of, NEW n \in 1..Len(s), NEW m, PartOf(m, s, n - 1, of)
    PROVE  /\ s[n] \in of => PartOf(Append(m, s[n]), s, n, of)
           /\ s[n] \notin of => PartOf(m, s, n, of)
  <1>0. n \in Nat /\ n # 0 /\ Len(s) \in Nat /\ s[n] \in Range(s) /\ DOMAIN s = 1..Len(s)
    BY DEF Range
  <1>1. m \in Seq(Range(s)) /\ Len(m) \in Nat /\ Len(m) <= n - 1
    BY DEF PartOf
  <1>2. PICK at \in [1..Len(m) -> 1..(n - 1)] :
          \A i \in 1..Len(m) : /\ m[i] = s[at[i]] /\ s[at[i]] \in of
                               /\ \A j \in 1..Len(m) : i < j => at[i] < at[j]
    BY DEF PartOf, InOrder
  <1>3. \A k \in 1..(n - 1) : s[k] \in of => \E i \in 1..Len(m) : m[i] = s[k]
    BY DEF PartOf
  <1>4. \A k \in 1..n : k \in 1..(n - 1) \/ k = n
    BY <1>0
  <1>5. ASSUME s[n] \in of PROVE PartOf(Append(m, s[n]), s, n, of)
    <2> DEFINE l == Len(m)
               new == Append(m, s[n])
               to == [i \in 1..(l + 1) |-> IF i = l + 1 THEN n ELSE at[i]]
    <2>1. /\ new \in Seq(Range(s)) /\ Len(new) = l + 1 /\ new[l + 1] = s[n]
          /\ \A i \in 1..l : new[i] = m[i]
      BY <1>0, <1>1
    <2>2. \A i \in 1..l : i \in 1..(l + 1) /\ i # l + 1 /\ to[i] = at[i] /\ at[i] \in 1..(n - 1)
      <3> TAKE i \in 1..l
      <3>1. l \in Nat /\ i \in 1..(l + 1) /\ i # l + 1
        BY <1>1
      <3>2. at[i] \in 1..(n - 1)
        BY <1>2
      <3> QED BY <3>1, <3>2
    <2>3. to[l + 1] = n /\ l + 1 \in 1..(l + 1)
      BY <1>1
    <2>4. \A i \in 1..(l + 1) : i \in 1..l \/ i = l + 1
      BY <1>1
    <2> HIDE DEF new, to
    <2>5. \A i \in 1..(l + 1) : to[i] \in 1..n
      <3>1. n \in 1..n /\ 1..(n - 1) \subseteq 1..n
        BY <1>0
      <3>2. \A i \in 1..l : to[i] \in 1..n
        BY <2>2, <3>1, Zenon
      <3> QED BY <2>3, <2>4, <3>1, <3>2, Zenon
    <2>6. to \in [1..(l + 1) -> 1..n]
      BY <2>5 DEF to
    <2>7. \A k \in 1..n : s[k] \in of => \E i \in 1..(l + 1) : new[i] = s[k]
      <3> TAKE k \in 1..n
      <3>1. CASE k = n
        BY <2>1, <2>3, <3>1
      <3>2. CASE k \in 1..(n - 1)
        <4>1. s[k] \in of => \E i \in 1..l : m[i] = s[k]
          BY <1>3, <3>2
        <4> QED BY <2>1, <2>2, <4>1
      <3> QED BY <1>4, <3>1, <3>2
    <2>8. ASSUME NEW i \in 1..(l + 1)
          PROVE  /\ new[i] = s[to[i]] /\ s[to[i]] \in of
                 /\ \A j \in 1..(l + 1) : i < j => to[i] < to[j]
      <3>1. CASE i = l + 1
        BY <1>1, <1>5, <2>1, <2>3, <3>1
      <3>2. CASE i \in 1..l
        <4>1. new[i] = s[to[i]] /\ s[to[i]] \in of
          BY <1>2, <2>1, <2>2, <3>2
        <4>2. ASSUME NEW j \in 1..(l + 1), i < j PROVE to[i] < to[j]
          <5>1. CASE j \in 1..l
            BY <1>2, <2>2, <3>2, <4>2, <5>1
          <5>2. CASE j = l + 1
            BY <1>0, <2>2, <2>3, <3>2, <5>2
          <5> QED BY <2>4, <5>1, <5>2
        <4> QED BY <4>1, <4>2
      <3> QED BY <2>4, <3>1, <3>2
    <2>9. Len(new) <= n
      BY <1>0, <1>1, <2>1
    <2>10. 1..Len(new) = 1..(l + 1)
      BY <2>1
    <2>11. InOrder(to, new, s, of)
      BY <2>8, <2>10 DEF InOrder
    <2>12. PartOf(new, s, n, of)
      BY <2>1, <2>6, <2>7, <2>9, <2>10, <2>11 DEF PartOf
    <2> QED BY <2>12 DEF new
  <1>6. ASSUME s[n] \notin of PROVE PartOf(m, s, n, of)
    <2>1. at \in [1..Len(m) -> 1..n] /\ Len(m) <= n
      BY <1>0, <1>1, <1>2
    <2>2. \A k \in 1..n : s[k] \in of => \E i \in 1..Len(m) : m[i] = s[k]
      BY <1>3, <1>4, <1>6
    <2>3. InOrder(at, m, s, of)
      BY <1>2 DEF InOrder
    <2> QED BY <1>1, <2>1, <2>2, <2>3 DEF PartOf
  <1> QED BY <1>5, <1>6

\* The lists of the members among the first of a list.
Builds(f, N, s, of) ==
    f = [n \in 0..N |->
           IF n = 0 THEN <<>> ELSE IF s[n] \in of THEN Append(f[n - 1], s[n]) ELSE f[n - 1]]

LEMMA MembersAreBuilt == ASSUME NEW N \in Nat, NEW s, NEW of PROVE \E f : Builds(f, N, s, of)
  <1> DEFINE S == {n \in Nat : ~\E f : Builds(f, n, s, of)}
  <1> SUFFICES ASSUME S # {} PROVE FALSE
    OBVIOUS
  <1>1. Min(S) \in S /\ \A n \in S : Min(S) <= n
    <2>1. S \in SUBSET Nat
      OBVIOUS
    <2> HIDE DEF S
    <2> QED BY <2>1, SmallestOf
  <1>2. PICK top \in S : \A n \in S : top <= n
    BY <1>1
  <1>3. top \in Nat /\ ~\E f : Builds(f, top, s, of)
    OBVIOUS
  <1>4. CASE top = 0
    <2>1. Builds([n \in 0..0 |-> <<>>], 0, s, of)
      BY DEF Builds
    <2> QED BY <1>3, <1>4, <2>1
  <1>5. CASE top # 0
    <2>1. top - 1 \in Nat /\ top - 1 \notin S
      BY <1>2, <1>3, <1>5
    <2>2. PICK f : Builds(f, top - 1, s, of)
      BY <2>1
    <2> DEFINE next(m, n) == IF s[n] \in of THEN Append(m, s[n]) ELSE m
               g == [n \in 0..top |-> IF n = top THEN next(f[top - 1], top) ELSE f[n]]
    <2> HIDE DEF S
    <2>3. ASSUME NEW n \in 0..top PROVE g[n] = IF n = 0 THEN <<>> ELSE next(g[n - 1], n)
      <3>1. CASE n = top
        <4>1. g[n - 1] = f[top - 1] /\ n # 0
          BY <1>3, <1>5, <3>1
        <4> QED BY <3>1, <4>1
      <3>2. CASE n # top
        <4>1. n \in 0..(top - 1)
          BY <1>3, <3>2
        <4>2. f[n] = IF n = 0 THEN <<>> ELSE next(f[n - 1], n)
          BY <2>2, <4>1 DEF Builds
        <4>3. g[n] = f[n] /\ (n # 0 => g[n - 1] = f[n - 1])
          BY <1>3, <3>2, <4>1
        <4> QED BY <4>2, <4>3
      <3> QED BY <3>1, <3>2
    <2>4. g = [n \in 0..top |-> g[n]]
      OBVIOUS
    <2> HIDE DEF g
    <2>5. Builds(g, top, s, of)
      BY <2>3, <2>4 DEF Builds
    <2> QED BY <1>3, <2>5
  <1> QED BY <1>4, <1>5

\* The members of a list that are in a set are a part of it, in its order.
LEMMA MembersPart ==
    ASSUME NEW s, s \in Seq(Range(s)), NEW of
    PROVE  PartOf(Members(s, of), s, Len(s), of)
  <1> DEFINE f == CHOOSE g : Builds(g, Len(s), s, of)
             S == {n \in 0..Len(s) : ~PartOf(f[n], s, n, of)}
  <1>0. Len(s) \in Nat
    OBVIOUS
  <1>1. Builds(f, Len(s), s, of)
    BY <1>0, MembersAreBuilt
  <1>2. Members(s, of) = f[Len(s)]
    BY DEF Members, Builds
  <1> HIDE DEF f
  <1>3. ASSUME S # {} PROVE FALSE
    <2>1. Min(S) \in S /\ \A n \in S : Min(S) <= n
      <3>1. S \in SUBSET Nat
        BY <1>0
      <3> HIDE DEF S
      <3> QED BY <1>3, <3>1, SmallestOf
    <2>2. PICK top \in S : \A n \in S : top <= n
      BY <2>1
    <2>3. top \in 0..Len(s) /\ ~PartOf(f[top], s, top, of)
      OBVIOUS
    <2>4. CASE top = 0
      <3>1. f[0] = <<>>
        BY <1>0, <1>1 DEF Builds
      <3>2. <<>> \in Seq(Range(s)) /\ Len(<<>>) = 0 /\ 1..0 = {}
        OBVIOUS
      <3> DEFINE m == <<>>
                 none == [i \in 1..0 |-> 1]
      <3>3. m \in Seq(Range(s)) /\ Len(m) <= 0 /\ 1..Len(m) = {} /\ 1..0 = {}
        BY <3>2
      <3>4. none \in [1..Len(m) -> 1..0]
        BY <3>3
      <3> HIDE DEF m, none
      <3>5. InOrder(none, m, s, of)
        BY <3>3 DEF InOrder
      <3>6. PartOf(m, s, 0, of)
        BY <3>3, <3>4, <3>5 DEF PartOf
      <3> QED BY <2>3, <2>4, <3>1, <3>6 DEF m
    <2>5. CASE top # 0
      <3>1. top - 1 \in 0..Len(s) /\ top - 1 \notin S /\ top \in 1..Len(s)
        BY <1>0, <2>2, <2>3, <2>5
      <3>2. PartOf(f[top - 1], s, top - 1, of)
        BY <3>1
      <3> HIDE DEF S
      <3>3. f[top] = IF s[top] \in of THEN Append(f[top - 1], s[top]) ELSE f[top - 1]
        <4> DEFINE next(m, n) == IF s[n] \in of THEN Append(m, s[n]) ELSE m
        <4>1. \A n \in 0..Len(s) : f[n] = IF n = 0 THEN <<>> ELSE next(f[n - 1], n)
          <5> HIDE DEF next
          <5>1. f = [n \in 0..Len(s) |-> IF n = 0 THEN <<>> ELSE next(f[n - 1], n)]
            BY <1>1 DEF Builds, next
          <5> QED BY <5>1
        <4>2. top \in 0..Len(s)
          BY <1>0, <3>1
        <4> QED BY <2>5, <4>1, <4>2
      <3> QED BY <2>3, <3>1, <3>2, <3>3, PartGrows
    <2> QED BY <2>4, <2>5
  <1>4. Len(s) \in 0..Len(s)
    BY <1>0
  <1> QED BY <1>2, <1>3, <1>4

-----------------------------------------------------------------------------
(* The stations of OEBB stop numbers *)

Numbers == UNION {Range(codes) : codes \in NumberLists}

\* An entry of the cache is what the module said of its number, and expires with it.
Entries ==
    {e \in [series : StopSeries, code : Numbers, expires : Nat,
            station : [of : StopSeries, code : Numbers, at : Nat]] :
        /\ e.station.of = e.series /\ e.station.code = e.code
        /\ e.expires = e.station.at + StopTtl}

\* The cache is in the order of the answers and holds a number of a series once.
Ordered(c) ==
    \A i, j \in DOMAIN c : i < j =>
        c[i].expires <= c[j].expires /\ <<c[i].series, c[i].code>> # <<c[j].series, c[j].code>>
CacheHolds(c, t) ==
    /\ c \in Seq(Entries) /\ Len(c) <= StopCap /\ Ordered(c)
    /\ \A i \in DOMAIN c : c[i].station.at <= t

\* A request: what is left to ask are numbers, each once, and the rest has stations.
StationsFit(r) ==
    \A c \in DOMAIN r.stations : /\ r.stations[c].of = r.series /\ r.stations[c].code = c
                                 /\ r.stations[c].at + StopTtl > r.since
RequestKnown(r, t) ==
    /\ DOMAIN r = {"at", "series", "stations", "todo", "asked", "since"}
    /\ r.since \in Nat /\ r.since <= t /\ r.series \in StopSeries
    /\ r.todo \in Seq(Numbers) /\ IsInjective(r.todo)
    /\ r.at = "asking" => r.todo # <<>>
    /\ r.at = "ok" => r.todo = <<>>
    /\ DOMAIN r.stations \cup Range(r.todo) = Range(r.asked)
    /\ DOMAIN r.stations \cap Range(r.todo) = {}
    /\ StationsFit(r)

StopsInv ==
    /\ stopTime \in Nat /\ stopSeries \in StopSeries /\ CacheHolds(stopCache, stopTime)
    /\ DOMAIN resolving = StopRequests
    /\ \A q \in StopRequests : RequestKnown(resolving[q], stopTime)

\* An answer goes last in the cache, in the place of an older one of its number, and the
\* oldest goes past the cap (_remember_oebb_stop).
LEMMA NumberKept ==
    ASSUME NEW t \in Nat, CacheHolds(stopCache, t), NEW series \in StopSeries, NEW code \in Numbers
    PROVE  CacheHolds(StopRemembered(series, code, [of |-> series, code |-> code, at |-> t], t), t)
  <1> DEFINE station == [of |-> series, code |-> code, at |-> t]
             entry == [series |-> series, code |-> code, station |-> station,
                       expires |-> t + StopTtl]
             others == {e \in Range(stopCache) : ~(e.series = series /\ e.code = code)}
             m == Members(stopCache, others)
             all == Append(m, entry)
  <1>1. /\ stopCache \in Seq(Entries) /\ Len(stopCache) <= StopCap /\ Len(stopCache) \in Nat
        /\ DOMAIN stopCache = 1..Len(stopCache) /\ StopCap \in Nat \ {0} /\ StopTtl \in Nat
        /\ Ordered(stopCache) /\ \A i \in DOMAIN stopCache : stopCache[i].station.at <= t
    BY StopsAssumption DEF CacheHolds
  <1>2. stopCache \in Seq(Range(stopCache)) /\ \A e \in Range(stopCache) : e \in Entries
    BY <1>1 DEF Range
  <1>3. PartOf(m, stopCache, Len(stopCache), others)
    BY <1>2, MembersPart
  <1>4. entry \in Entries /\ entry.expires = t + StopTtl /\ entry.station.at = t
    BY <1>1 DEF Entries
  <1>5. \A e \in Entries : /\ e.expires \in Nat /\ e.station.at \in Nat
                           /\ e.expires = e.station.at + StopTtl
    BY DEF Entries
  <1>6. entry.series = series /\ entry.code = code
    OBVIOUS
  <1>7. \A e \in others : ~(e.series = series /\ e.code = code)
    OBVIOUS
  <1>8. StopRemembered(series, code, station, t) = IF Len(all) > StopCap THEN Tail(all) ELSE all
    BY DEF StopRemembered
  <1> HIDE DEF m, others, entry, station
  <1>9. m \in Seq(Entries) /\ Len(m) \in Nat /\ Len(m) <= StopCap /\ DOMAIN m = 1..Len(m)
    <2>1. m \in Seq(Range(stopCache)) /\ Len(m) <= Len(stopCache)
      BY <1>3 DEF PartOf
    <2> QED BY <1>1, <1>2, <2>1
  <1>10. PICK at \in [1..Len(m) -> 1..Len(stopCache)] : InOrder(at, m, stopCache, others)
    BY <1>3 DEF PartOf
  <1>11. \A i \in 1..Len(m) : /\ m[i] \in Entries /\ m[i] \in others /\ m[i].station.at <= t
                              /\ ~(m[i].series = series /\ m[i].code = code)
                              /\ m[i].expires <= t + StopTtl
    <2>1. \A i \in 1..Len(m) : m[i] = stopCache[at[i]] /\ m[i] \in others /\ at[i] \in DOMAIN stopCache
      BY <1>1, <1>10 DEF InOrder
    <2>2. \A i \in 1..Len(m) : m[i] \in Entries /\ m[i].station.at <= t
      <3>1. \A j \in DOMAIN stopCache : stopCache[j] \in Entries /\ stopCache[j].station.at <= t
        BY <1>1
      <3> QED BY <2>1, <3>1
    <2>3. ASSUME NEW i \in 1..Len(m) PROVE m[i].expires <= t + StopTtl
      <3> DEFINE e == m[i]
      <3>1. /\ e.expires = e.station.at + StopTtl /\ e.station.at \in Nat
            /\ e.station.at <= t
        BY <1>5, <2>2
      <3> HIDE DEF e
      <3>2. e.expires <= t + StopTtl
        BY <1>1, <3>1
      <3> QED BY <3>2 DEF e
    <2> QED BY <1>7, <2>1, <2>2, <2>3
  <1>12. \A i, j \in 1..Len(m) : i < j =>
           m[i].expires <= m[j].expires /\ <<m[i].series, m[i].code>> # <<m[j].series, m[j].code>>
    <2>1. \A i, j \in 1..Len(m) : i < j =>
            /\ m[i] = stopCache[at[i]] /\ m[j] = stopCache[at[j]] /\ at[i] < at[j]
            /\ at[i] \in DOMAIN stopCache /\ at[j] \in DOMAIN stopCache
      BY <1>1, <1>10 DEF InOrder
    <2> QED BY <1>1, <2>1 DEF Ordered
  <1> DEFINE l == Len(m)
  <1>13. /\ all \in Seq(Entries) /\ Len(all) = l + 1 /\ all[l + 1] = entry
         /\ \A i \in 1..l : all[i] = m[i]
    BY <1>4, <1>9
  <1>14. \A i \in 1..(l + 1) : i \in 1..l \/ i = l + 1
    BY <1>9
  <1> HIDE DEF all
  <1>15. ASSUME NEW i \in 1..(l + 1), NEW j \in 1..(l + 1), i < j
         PROVE  /\ all[i].expires <= all[j].expires
                /\ <<all[i].series, all[i].code>> # <<all[j].series, all[j].code>>
    <2>1. i \in 1..l
      BY <1>9, <1>15
    <2>2. CASE j \in 1..l
      BY <1>12, <1>13, <1>15, <2>1, <2>2
    <2>3. CASE j = l + 1
      <3>1. all[i] = m[i] /\ all[j] = entry
        BY <1>13, <2>1, <2>3
      <3> QED BY <1>4, <1>6, <1>11, <2>1, <3>1
    <2> QED BY <1>14, <2>2, <2>3
  <1>16. \A i \in 1..(l + 1) : all[i].station.at <= t
    <2>1. \A i \in 1..l : all[i].station.at <= t
      BY <1>11, <1>13
    <2> QED BY <1>4, <1>13, <1>14, <2>1
  <1>17. CASE Len(all) <= StopCap
    <2>1. DOMAIN all = 1..(l + 1)
      BY <1>13
    <2>2. StopRemembered(series, code, station, t) = all
      BY <1>1, <1>8, <1>9, <1>13, <1>17
    <2> QED BY <1>13, <1>15, <1>16, <1>17, <2>1, <2>2 DEF CacheHolds, Ordered, station
  <1>18. CASE ~(Len(all) <= StopCap)
    <2> DEFINE rest == Tail(all)
    <2>1. /\ rest \in Seq(Entries) /\ Len(rest) = l /\ DOMAIN rest = 1..l
          /\ \A i \in 1..l : rest[i] = all[i + 1] /\ i + 1 \in 1..(l + 1)
      BY <1>9, <1>13
    <2>2. StopRemembered(series, code, station, t) = rest
      BY <1>1, <1>8, <1>9, <1>13, <1>18
    <2> HIDE DEF rest
    <2>3. Ordered(rest)
      <3>1. ASSUME NEW i \in 1..l, NEW j \in 1..l, i < j
            PROVE  /\ rest[i].expires <= rest[j].expires
                   /\ <<rest[i].series, rest[i].code>> # <<rest[j].series, rest[j].code>>
        <4>1. /\ i + 1 \in 1..(l + 1) /\ j + 1 \in 1..(l + 1) /\ i + 1 < j + 1
              /\ rest[i] = all[i + 1] /\ rest[j] = all[j + 1]
          BY <1>9, <2>1, <3>1
        <4> QED BY <1>15, <4>1
      <3> QED BY <2>1, <3>1 DEF Ordered
    <2>4. \A i \in DOMAIN rest : rest[i].station.at <= t
      BY <1>16, <2>1
    <2> QED BY <1>9, <2>1, <2>2, <2>3, <2>4 DEF CacheHolds, station
  <1> QED BY <1>17, <1>18

\* What the cache has for some numbers is theirs, and not yet expired (_cached_oebb_stops).
LEMMA CachedFit ==
    ASSUME NEW t \in Nat, CacheHolds(stopCache, t), NEW series, NEW codes, NEW c,
           c \in DOMAIN CachedStops(series, codes, t)
    PROVE  LET station == CachedStops(series, codes, t)[c]
           IN /\ c \in Range(codes) /\ station.of = series /\ station.code = c
              /\ station.at + StopTtl > t
  <1> DEFINE fresh == {x \in Range(codes) :
                         \E i \in EntriesOf(series, x) : FreshStop(stopCache[i], t)}
             place(x) == CHOOSE i \in EntriesOf(series, x) : TRUE
  <1>1. CachedStops(series, codes, t) = [x \in fresh |-> stopCache[place(x)].station]
    BY DEF CachedStops
  <1>2. c \in fresh
    BY <1>1
  <1>3. PICK i \in EntriesOf(series, c) : FreshStop(stopCache[i], t)
    BY <1>2
  <1>4. place(c) \in EntriesOf(series, c)
    BY <1>3
  <1>5. \A k \in DOMAIN stopCache : stopCache[k] \in Entries
    BY DEF CacheHolds
  <1>6. place(c) = i
    <2> DEFINE k == place(c)
    <2>1. /\ i \in DOMAIN stopCache /\ k \in DOMAIN stopCache
          /\ stopCache[i].series = stopCache[k].series /\ stopCache[i].code = stopCache[k].code
      BY <1>3, <1>4 DEF EntriesOf
    <2>2. i \in Nat /\ k \in Nat
      BY <2>1 DEF CacheHolds
    <2> HIDE DEF k
    <2>3. ~(i < k) /\ ~(k < i)
      BY <2>1 DEF CacheHolds, Ordered
    <2>4. i = k
      BY <2>2, <2>3
    <2> QED BY <2>4 DEF k
  <1>7. /\ stopCache[i].station.of = series /\ stopCache[i].station.code = c
        /\ stopCache[i].expires = stopCache[i].station.at + StopTtl
    BY <1>3, <1>5 DEF EntriesOf, Entries
  <1>8. CachedStops(series, codes, t)[c] = stopCache[i].station
    BY <1>1, <1>2, <1>6
  <1> QED BY <1>2, <1>3, <1>7, <1>8 DEF FreshStop

\* The members of a list of distinct numbers are distinct, and are those in the set.
LEMMA MembersAre ==
    ASSUME NEW s, s \in Seq(Range(s)), IsInjective(s), NEW of
    PROVE  /\ Members(s, of) \in Seq(Range(s)) /\ IsInjective(Members(s, of))
           /\ Range(Members(s, of)) = Range(s) \cap of
  <1> DEFINE m == Members(s, of)
  <1>1. PartOf(m, s, Len(s), of)
    BY MembersPart
  <1> HIDE DEF m
  <1>2. /\ m \in Seq(Range(s)) /\ DOMAIN m = 1..Len(m) /\ DOMAIN s = 1..Len(s)
        /\ Len(m) \in Nat /\ Len(s) \in Nat
        /\ \A k \in 1..Len(s) : s[k] \in of => \E i \in 1..Len(m) : m[i] = s[k]
    BY <1>1 DEF PartOf
  <1>3. PICK at \in [1..Len(m) -> 1..Len(s)] : InOrder(at, m, s, of)
    BY <1>1 DEF PartOf
  <1>4. \A i \in 1..Len(m) : m[i] = s[at[i]] /\ at[i] \in 1..Len(s) /\ m[i] \in of
    BY <1>3 DEF InOrder
  <1>5. IsInjective(m)
    <2>1. ASSUME NEW i \in 1..Len(m), NEW j \in 1..Len(m), m[i] = m[j] PROVE i = j
      <3>1. at[i] = at[j]
        BY <1>2, <1>4, <2>1 DEF IsInjective
      <3>2. ~(i < j) /\ ~(j < i)
        BY <1>2, <1>3, <1>4, <3>1 DEF InOrder
      <3> QED BY <1>2, <3>2
    <2> QED BY <1>2, <2>1 DEF IsInjective
  <1>6. Range(m) = Range(s) \cap of
    <2>1. ASSUME NEW x \in Range(m) PROVE x \in Range(s) /\ x \in of
      BY <1>2, <1>4, <2>1 DEF Range
    <2>2. ASSUME NEW x \in Range(s), x \in of PROVE x \in Range(m)
      BY <1>2, <2>2 DEF Range
    <2> QED BY <2>1, <2>2
  <1> QED BY <1>2, <1>5, <1>6 DEF m

\* Time passes and a request stays what it is; so does the cache.
LEMMA Later ==
    ASSUME NEW t \in Nat, NEW u \in Nat, t <= u
    PROVE  /\ \A r : RequestKnown(r, t) => RequestKnown(r, u)
           /\ \A c : CacheHolds(c, t) => CacheHolds(c, u)
  <1>1. ASSUME NEW r, RequestKnown(r, t) PROVE RequestKnown(r, u)
    <2>1. r.since \in Nat /\ r.since <= u
      BY <1>1 DEF RequestKnown
    <2> QED BY <1>1, <2>1 DEF RequestKnown
  <1>2. ASSUME NEW c, CacheHolds(c, t) PROVE CacheHolds(c, u)
    <2>1. \A i \in DOMAIN c : c[i].station.at \in Nat /\ c[i].station.at <= t
      BY <1>2 DEF CacheHolds, Entries
    <2>2. \A i \in DOMAIN c : c[i].station.at <= u
      BY <2>1
    <2> QED BY <1>2, <2>2 DEF CacheHolds
  <1> QED BY <1>1, <1>2

\* A step that changes one request, and may add to the cache at the time it is.
LEMMA OneRequest ==
    ASSUME StopsInv, NEW q \in StopRequests, NEW r,
           resolving' = [resolving EXCEPT ![q] = r], RequestKnown(r, stopTime),
           UNCHANGED <<stopTime, stopSeries>>, CacheHolds(stopCache', stopTime)
    PROVE  StopsInv'
  <1>1. DOMAIN resolving' = StopRequests /\ \A p \in StopRequests : RequestKnown(resolving'[p], stopTime)
    BY DEF StopsInv
  <1> QED BY <1>1 DEF StopsInv

\* A request begins with what the cache has, and has the rest to ask.
LEMMA ResolveBegins == ASSUME StopsInv, NEW q \in StopRequests, BeginResolve(q) PROVE StopsInv'
  <1>1. PICK codes \in NumberLists :
          LET refused == stopSeries \in RefusedSeries
              found == IF refused THEN <<>> ELSE CachedStops(stopSeries, codes, stopTime)
              todo == Members(codes, Range(codes) \ DOMAIN found)
              Is(at) == resolving' = [resolving EXCEPT ![q] =
                [at |-> at, series |-> stopSeries, stations |-> found, todo |-> todo,
                 asked |-> codes, since |-> stopTime]]
          IN \/ refused /\ Is("unavailable")
             \/ ~refused /\ todo = <<>> /\ Is("ok")
             \/ ~refused /\ todo # <<>> /\ (Is("asking") \/ Is("unavailable"))
    BY DEF BeginResolve
  <1>2. UNCHANGED <<stopTime, stopSeries, stopCache>>
    BY DEF BeginResolve
  <1> DEFINE refused == stopSeries \in RefusedSeries
             found == IF refused THEN <<>> ELSE CachedStops(stopSeries, codes, stopTime)
             todo == Members(codes, Range(codes) \ DOMAIN found)
             r(at) == [at |-> at, series |-> stopSeries, stations |-> found, todo |-> todo,
                       asked |-> codes, since |-> stopTime]
  <1>3. \E at \in {"unavailable", "ok", "asking"} :
          /\ resolving' = [resolving EXCEPT ![q] = r(at)]
          /\ at = "ok" => todo = <<>>
          /\ at = "asking" => todo # <<>>
    <2> HIDE DEF found, todo
    <2> QED BY <1>1 DEF found, todo
  <1>4. /\ stopTime \in Nat /\ stopSeries \in StopSeries /\ CacheHolds(stopCache, stopTime)
        /\ codes \in Seq(Range(codes)) /\ IsInjective(codes)
    BY StopsAssumption DEF StopsInv
  <1>5. \A c \in DOMAIN found :
          /\ c \in Range(codes) /\ found[c].of = stopSeries /\ found[c].code = c
          /\ found[c].at + StopTtl > stopTime
    <2>1. CASE refused
      BY <2>1
    <2>2. CASE ~refused
      <3>1. found = CachedStops(stopSeries, codes, stopTime)
        BY <2>2
      <3> HIDE DEF found
      <3> QED BY <1>4, <3>1, CachedFit
    <2> QED BY <2>1, <2>2
  <1> HIDE DEF found
  <1>6. /\ todo \in Seq(Range(codes)) /\ IsInjective(todo)
        /\ Range(todo) = Range(codes) \cap (Range(codes) \ DOMAIN found)
    BY <1>4, MembersAre
  <1> HIDE DEF todo
  <1>7. /\ DOMAIN found \cup Range(todo) = Range(codes)
        /\ DOMAIN found \cap Range(todo) = {}
    BY <1>5, <1>6
  <1>8. todo \in Seq(Numbers)
    <2>1. Range(codes) \subseteq Numbers
      BY DEF Numbers
    <2> QED BY <1>6, <2>1
  <1>9. ASSUME NEW at, at = "ok" => todo = <<>>, at = "asking" => todo # <<>>
        PROVE  RequestKnown(r(at), stopTime)
    <2>1. StationsFit(r(at))
      BY <1>5 DEF StationsFit
    <2>2. r(at).stations = found /\ r(at).todo = todo /\ r(at).asked = codes /\ r(at).at = at
            /\ r(at).since = stopTime /\ r(at).series = stopSeries
            /\ DOMAIN r(at) = {"at", "series", "stations", "todo", "asked", "since"}
      OBVIOUS
    <2> HIDE DEF r
    <2> QED BY <1>4, <1>6, <1>7, <1>8, <1>9, <2>1, <2>2 DEF RequestKnown
  <1>10. PICK at \in {"unavailable", "ok", "asking"} :
          /\ resolving' = [resolving EXCEPT ![q] = r(at)]
          /\ at = "ok" => todo = <<>>
          /\ at = "asking" => todo # <<>>
    BY <1>3
  <1>11. RequestKnown(r(at), stopTime)
    BY <1>9, <1>10
  <1> HIDE DEF r
  <1> QED BY <1>2, <1>4, <1>10, <1>11, OneRequest

\* The module's answer is the station of the number at hand, and the rest is left to ask.
LEMMA NumberAnswered == ASSUME StopsInv, NEW q \in StopRequests, StopAnswered(q) PROVE StopsInv'
  <1> DEFINE r == resolving[q]
             code == Head(r.todo)
             station == [of |-> r.series, code |-> code, at |-> stopTime]
             rest == Tail(r.todo)
             stations == [c \in DOMAIN r.stations \cup {code} |->
                             IF c = code THEN station ELSE r.stations[c]]
             new == [r EXCEPT !.stations = stations, !.todo = rest,
                              !.at = IF rest = <<>> THEN "ok" ELSE "asking"]
  <1>1. /\ r.at = "asking" /\ resolving' = [resolving EXCEPT ![q] = new]
        /\ stopCache' = StopRemembered(r.series, code, station, stopTime)
        /\ UNCHANGED <<stopTime, stopSeries>>
    BY DEF StopAnswered
  <1>2. RequestKnown(r, stopTime) /\ stopTime \in Nat /\ CacheHolds(stopCache, stopTime)
    BY DEF StopsInv
  <1>3. r.todo \in Seq(Numbers) /\ r.todo # <<>> /\ IsInjective(r.todo) /\ r.series \in StopSeries
    BY <1>1, <1>2 DEF RequestKnown
  <1>4. /\ code \in Numbers /\ rest \in Seq(Numbers) /\ code = r.todo[1] /\ 1 \in DOMAIN r.todo
        /\ Len(rest) = Len(r.todo) - 1 /\ Len(r.todo) \in Nat /\ Len(r.todo) # 0
        /\ DOMAIN r.todo = 1..Len(r.todo) /\ DOMAIN rest = 1..Len(rest)
        /\ \A i \in 1..Len(rest) : rest[i] = r.todo[i + 1] /\ i + 1 \in DOMAIN r.todo
    BY <1>3
  <1>5. CacheHolds(stopCache', stopTime)
    BY <1>1, <1>2, <1>3, <1>4, NumberKept
  <1> HIDE DEF r, code, rest
  <1>6. IsInjective(rest) /\ code \notin Range(rest)
    <2>1. ASSUME NEW i \in 1..Len(rest), NEW j \in 1..Len(rest), rest[i] = rest[j] PROVE i = j
      <3>1. /\ i + 1 \in DOMAIN r.todo /\ j + 1 \in DOMAIN r.todo
            /\ r.todo[i + 1] = r.todo[j + 1]
        BY <1>4, <2>1
      <3>2. i + 1 = j + 1
        BY <1>3, <3>1 DEF IsInjective
      <3> QED BY <3>2
    <2>2. ASSUME NEW i \in 1..Len(rest) PROVE rest[i] # code
      <3>1. i + 1 # 1
        BY <1>4
      <3> QED BY <1>3, <1>4, <3>1 DEF IsInjective
    <2> QED BY <1>4, <2>1, <2>2 DEF IsInjective, Range
  <1>7. Range(r.todo) = Range(rest) \cup {code}
    <2>1. ASSUME NEW i \in DOMAIN r.todo, i # 1 PROVE r.todo[i] \in Range(rest)
      <3>1. i - 1 \in 1..Len(rest) /\ (i - 1) + 1 = i
        BY <1>4, <2>1
      <3> QED BY <1>4, <3>1 DEF Range
    <2>2. ASSUME NEW x \in Range(r.todo) PROVE x \in Range(rest) \cup {code}
      <3>1. PICK i \in DOMAIN r.todo : x = r.todo[i]
        BY <2>2 DEF Range
      <3> QED BY <1>4, <2>1, <3>1
    <2>3. ASSUME NEW x \in Range(rest) PROVE x \in Range(r.todo)
      BY <1>4, <2>3 DEF Range
    <2>4. code \in Range(r.todo)
      BY <1>4 DEF Range
    <2> QED BY <2>2, <2>3, <2>4
  <1>8. DOMAIN stations = DOMAIN r.stations \cup {code}
    OBVIOUS
  <1>9. /\ DOMAIN stations \cup Range(rest) = Range(r.asked)
        /\ DOMAIN stations \cap Range(rest) = {}
    <2> HIDE DEF stations
    <2> QED BY <1>2, <1>6, <1>7, <1>8 DEF RequestKnown
  <1>10. /\ new.stations = stations /\ new.todo = rest /\ new.asked = r.asked
         /\ new.since = r.since /\ new.series = r.series
         /\ new.at = IF rest = <<>> THEN "ok" ELSE "asking"
         /\ DOMAIN new = {"at", "series", "stations", "todo", "asked", "since"}
    <2> HIDE DEF stations
    <2> QED BY <1>2 DEF RequestKnown
  <1>11. \A c \in DOMAIN stations : /\ stations[c].of = r.series /\ stations[c].code = c
                                    /\ stations[c].at + StopTtl > r.since
    <2>1. ASSUME NEW c \in DOMAIN r.stations, c # code
          PROVE  /\ stations[c] = r.stations[c] /\ r.stations[c].of = r.series
                 /\ r.stations[c].code = c /\ r.stations[c].at + StopTtl > r.since
      BY <1>2, <2>1 DEF RequestKnown, StationsFit
    <2>2. stations[code] = station /\ stopTime + StopTtl > r.since
      BY <1>2, StopsAssumption DEF RequestKnown
    <2> QED BY <1>8, <2>1, <2>2
  <1> HIDE DEF new, stations
  <1>12. StationsFit(new)
    BY <1>10, <1>11 DEF StationsFit
  <1>13. RequestKnown(new, stopTime)
    BY <1>2, <1>4, <1>6, <1>9, <1>10, <1>12 DEF RequestKnown
  <1> QED BY <1>1, <1>5, <1>13, OneRequest

\* No step loses a number asked, mixes two series or disorders the cache.
LEMMA StopsStep == StopsInv /\ [StopsNext]_stopVars => StopsInv'
  <1> SUFFICES ASSUME StopsInv, StopsNext \/ UNCHANGED stopVars PROVE StopsInv'
    OBVIOUS
  <1>1. ASSUME NEW q \in StopRequests, BeginResolve(q) PROVE StopsInv'
    BY <1>1, ResolveBegins
  <1>2. ASSUME NEW q \in StopRequests, StopAnswered(q) PROVE StopsInv'
    BY <1>2, NumberAnswered
  <1>3. ASSUME NEW q \in StopRequests, CallFailed(q) PROVE StopsInv'
    <2> DEFINE r == resolving[q]
    <2>1. PICK status \in {"limited", "unavailable"} :
            resolving' = [resolving EXCEPT ![q] = FailedResolve(r, status)]
      BY <1>3 DEF CallFailed
    <2>2. RequestKnown(r, stopTime) /\ CacheHolds(stopCache, stopTime)
            /\ UNCHANGED <<stopTime, stopSeries, stopCache>>
      BY <1>3 DEF CallFailed, StopsInv
    <2> HIDE DEF r
    <2> DEFINE new == FailedResolve(r, status)
    <2>3. /\ new.stations = r.stations /\ new.todo = r.todo /\ new.asked = r.asked
          /\ new.since = r.since /\ new.series = r.series /\ new.at = status
          /\ DOMAIN new = DOMAIN r
      BY <2>2 DEF FailedResolve, RequestKnown
    <2> HIDE DEF new
    <2>4. RequestKnown(new, stopTime)
      BY <2>1, <2>2, <2>3 DEF RequestKnown, StationsFit
    <2> QED BY <2>1, <2>2, <2>4, OneRequest DEF new
  <1>4. CASE EditSeries
    BY <1>4 DEF EditSeries, StopsInv
  <1>5. CASE StopsTick
    <2>1. stopTime' = stopTime + 1 /\ UNCHANGED <<stopSeries, stopCache, resolving>>
      BY <1>5 DEF StopsTick
    <2>2. stopTime \in Nat /\ stopTime' \in Nat /\ stopTime <= stopTime'
      BY <2>1 DEF StopsInv
    <2> QED BY <2>1, <2>2, Later DEF StopsInv
  <1>6. CASE UNCHANGED stopVars
    BY <1>6 DEF stopVars, StopsInv
  <1> QED BY <1>1, <1>2, <1>3, <1>4, <1>5, <1>6 DEF StopsNext

\* At first no request has begun and the cache is empty.
LEMMA StopsStart == StopsInit => StopsInv
  <1> SUFFICES ASSUME StopsInit PROVE StopsInv
    OBVIOUS
  <1>1. CacheHolds(<<>>, 0)
    BY StopsAssumption DEF CacheHolds, Ordered
  <1>2. Unasked.series \in StopSeries
    BY DEF StopsInit, Unasked
  <1>3. /\ Unasked.at = "idle" /\ Unasked.stations = <<>> /\ Unasked.todo = <<>>
        /\ Unasked.asked = <<>> /\ Unasked.since = 0
        /\ DOMAIN Unasked = {"at", "series", "stations", "todo", "asked", "since"}
    BY DEF Unasked
  <1>4. RequestKnown(Unasked, 0)
    BY <1>2, <1>3 DEF RequestKnown, StationsFit, IsInjective, Range
  <1> QED BY <1>1, <1>4 DEF StopsInit, StopsInv

\* The answer is what was asked, of its series, and the oldest goes first.
LEMMA StopsAreTrue == StopsInv => AskedIsAccounted /\ StationOfItsSeries /\ OldestGoesFirst
  BY DEF StopsInv, RequestKnown, StationsFit, CacheHolds, Ordered, AskedIsAccounted,
         StationOfItsSeries, OldestGoesFirst

-----------------------------------------------------------------------------
(* Sets put in order, and lists cut *)

\* The values of a function on a finite set are finitely many.
LEMMA FinitelyMany ==
    ASSUME NEW S, IsFiniteSet(S), NEW f PROVE IsFiniteSet({f[x] : x \in S})
  <1> DEFINE g == [x \in S |-> f[x]]
  <1>1. g \in Surjection(S, {f[x] : x \in S})
    BY DEF Surjection
  <1> QED BY <1>1, FS_Surjection

\* A finite set put in order is a list of its elements, each once (SetToSeq).
LEMMA PutInOrder ==
    ASSUME NEW S, IsFiniteSet(S)
    PROVE  LET s == SetToSeq(S) IN s \in Seq(S) /\ IsInjective(s) /\ Range(s) = S
  <1> DEFINE n == Cardinality(S)
  <1>1. n \in Nat
    BY FS_CardinalityType
  <1>2. ExistsBijection(1..n, S)
    BY FS_CardinalityType
  <1>3. \E f \in [1..n -> S] : IsInjective(f)
    BY <1>2 DEF ExistsBijection, Bijection, Injection
  <1> DEFINE s == SetToSeq(S)
  <1>4. s \in [1..n -> S] /\ IsInjective(s)
    BY <1>3 DEF SetToSeq
  <1>5. IsFiniteSet(1..n) /\ Cardinality(1..n) = n
    BY <1>1, FS_Interval
  <1> HIDE DEF s
  <1>6. s \in Injection(1..n, S)
    BY <1>4 DEF Injection
  <1>7. s \in Surjection(1..n, S)
    <2> HIDE DEF n
    <2> QED BY <1>5, <1>6, FS_Injection DEF n
  <1>8. Range(s) = S
    BY <1>4, <1>7 DEF Surjection, Range
  <1> QED BY <1>1, <1>4, <1>8 DEF s

\* Multiples of a number are at least that number apart.
LEMMA MultiplesApart ==
    \A n \in Nat : \A p, q \in Nat : p < q => n * p + n <= n * q /\ n * p \in Nat /\ n * q \in Nat
  <1> TAKE n \in Nat
  <1> TAKE p \in Nat, q \in Nat
  <1> HAVE p < q
  <1>1. q - p - 1 \in Nat /\ q = p + 1 + (q - p - 1)
    OBVIOUS
  <1> DEFINE d == q - p - 1
  <1>2. n * q = n * p + n + n * d
    BY <1>1
  <1>3. n * d \in Nat /\ n * p \in Nat
    BY <1>1
  <1> QED BY <1>2, <1>3

\* Every place of a list is in one slice of it.
LEMMA SliceOfPlace ==
    ASSUME NEW n \in Nat \ {0}, NEW x \in Nat \ {0}
    PROVE  \E q \in Nat : q <= x /\ n * q \in Nat /\ n * q + 1 <= x /\ x <= n * q + n
  <1> DEFINE S == {q \in Nat : x <= n * q + n}
  <1>1. x \in S
    <2>1. n * x >= x
      <3>1. n - 1 \in Nat /\ (n - 1) * x \in Nat /\ n * x = (n - 1) * x + x
        OBVIOUS
      <3> QED BY <3>1
    <2>2. n * x \in Nat
      OBVIOUS
    <2> QED BY <2>1, <2>2
  <1>2. Min(S) \in S /\ \A y \in S : Min(S) <= y
    <2>1. S \in SUBSET Nat /\ S # {}
      BY <1>1
    <2> HIDE DEF S
    <2> QED BY <2>1, SmallestOf
  <1>3. PICK q \in S : \A y \in S : q <= y
    BY <1>2
  <1>4. q \in Nat /\ n * q \in Nat /\ x <= n * q + n /\ q <= x
    BY <1>1, <1>3
  <1>5. n * q + 1 <= x
    <2>1. CASE q = 0
      BY <2>1
    <2>2. CASE q # 0
      <3>1. q - 1 \in Nat /\ ~(x <= n * (q - 1) + n) /\ n * (q - 1) \in Nat
        BY <1>3, <1>4, <2>2
      <3>2. n * (q - 1) + n = n * q
        BY <1>4
      <3> QED BY <1>4, <3>1, <3>2
    <2> QED BY <2>1, <2>2
  <1> QED BY <1>4, <1>5

\* The slices of a list of distinct keys: each within the limit, no key in two, all keys in one.
LEMMA Slices ==
    ASSUME NEW s, s \in Seq(Range(s)), IsInjective(s)
    PROVE  /\ IsFiniteSet(Batches(s))
           /\ \A c \in Batches(s) : c \in Seq(Range(s)) /\ Len(c) \in 1..MaxKeysPerCall
           /\ \A c, d \in Batches(s) : c # d => Range(c) \cap Range(d) = {}
           /\ \A k \in Range(s) : \E c \in Batches(s) : k \in Range(c)
  <1> DEFINE n == MaxKeysPerCall
             at == {p \in 0..Len(s) : n * p + 1 \in DOMAIN s}
             last(q) == Min({Len(s), n * q + n})
             slice(q) == SubSeq(s, n * q + 1, last(q))
  <1>0. n \in Nat \ {0} /\ Len(s) \in Nat /\ DOMAIN s = 1..Len(s)
    BY PlacingAssumption
  <1>1. Batches(s) = {slice(q) : q \in at}
    BY DEF Batches
  <1>2. \A q \in at : q \in Nat /\ n * q \in Nat /\ n * q + 1 <= Len(s)
    BY <1>0
  <1>3. IsFiniteSet(Batches(s))
    <2>1. IsFiniteSet(0..Len(s))
      BY <1>0, FS_Interval
    <2>2. IsFiniteSet(at)
      <3>1. at \in SUBSET (0..Len(s))
        OBVIOUS
      <3> HIDE DEF at
      <3> QED BY <2>1, <3>1, FS_Subset
    <2> DEFINE f == [q \in at |-> slice(q)]
    <2>3. IsFiniteSet({f[q] : q \in at})
      <3> HIDE DEF f, at
      <3> QED BY <2>2, FinitelyMany
    <2>4. {f[q] : q \in at} = {slice(q) : q \in at}
      <3> HIDE DEF at, slice
      <3> QED BY DEF f
    <2> QED BY <1>1, <2>3, <2>4
  <1>4. ASSUME NEW q \in at
        PROVE  /\ last(q) \in Nat /\ n * q + 1 <= last(q) /\ last(q) <= Len(s)
               /\ last(q) <= n * q + n
               /\ last(q) = Len(s) \/ last(q) = n * q + n
    <2> DEFINE m == n * q
    <2>1. m \in Nat /\ m + 1 <= Len(s)
      BY <1>2
    <2> HIDE DEF m, n, at
    <2> DEFINE two == {Len(s), m + n}
    <2>2. two \in SUBSET Nat /\ two # {}
      BY <1>0, <2>1
    <2>3. Min(two) \in two /\ \A y \in two : Min(two) <= y
      <3> HIDE DEF two
      <3> QED BY <2>2, SmallestOf
    <2>4. Min(two) <= Len(s) /\ Min(two) <= m + n /\ (Min(two) = Len(s) \/ Min(two) = m + n)
      BY <2>3
    <2>5. Min(two) \in Nat /\ m + 1 <= Min(two)
      BY <1>0, <2>1, <2>2, <2>3
    <2> QED BY <2>4, <2>5 DEF m
  <1>5. ASSUME NEW q \in at
        PROVE  /\ slice(q) \in Seq(Range(s))
               /\ Len(slice(q)) = last(q) - n * q
               /\ \A i \in 1..Len(slice(q)) : slice(q)[i] = s[n * q + i] /\ n * q + i \in DOMAIN s
    <2> DEFINE m == n * q
               l == last(q)
    <2>1. m \in Nat /\ l \in Nat /\ m + 1 <= l /\ l <= Len(s)
      BY <1>2, <1>4
    <2>2. slice(q) = SubSeq(s, m + 1, l)
      OBVIOUS
    <2> HIDE DEF m, l, n, at
    <2>3. \A i \in (m + 1)..l : s[i] \in Range(s)
      BY <1>0, <2>1 DEF Range
    <2>4. /\ SubSeq(s, m + 1, l) \in Seq(Range(s))
          /\ Len(SubSeq(s, m + 1, l)) = IF m + 1 <= l THEN l - (m + 1) + 1 ELSE 0
          /\ \A i \in 1..(l - (m + 1) + 1) : SubSeq(s, m + 1, l)[i] = s[m + 1 + i - 1]
      BY <2>1, <2>3, SubSeqProperties
    <2>5. Len(SubSeq(s, m + 1, l)) = l - m
      BY <2>1, <2>4
    <2>6. ASSUME NEW i \in 1..(l - m)
          PROVE  SubSeq(s, m + 1, l)[i] = s[m + i] /\ m + i \in DOMAIN s
      <3>1. i \in 1..(l - (m + 1) + 1) /\ m + 1 + i - 1 = m + i
        BY <2>1
      <3> QED BY <1>0, <2>1, <2>4, <3>1
    <2> QED BY <2>2, <2>4, <2>5, <2>6 DEF m, l
  <1> HIDE DEF at, last, slice, n
  <1>6. \A c \in Batches(s) : c \in Seq(Range(s)) /\ Len(c) \in 1..MaxKeysPerCall
    <2>1. ASSUME NEW q \in at PROVE slice(q) \in Seq(Range(s)) /\ Len(slice(q)) \in 1..n
      BY <1>0, <1>2, <1>4, <1>5, <2>1
    <2> QED BY <1>1, <2>1 DEF n
  <1>7. ASSUME NEW p \in at, NEW q \in at, p < q PROVE Range(slice(p)) \cap Range(slice(q)) = {}
    <2>1. n * p + n <= n * q
      BY <1>0, <1>2, <1>7, MultiplesApart
    <2>2. ASSUME NEW i \in 1..Len(slice(p)), NEW j \in 1..Len(slice(q)), slice(p)[i] = slice(q)[j]
          PROVE  FALSE
      <3>1. n * p + i \in DOMAIN s /\ n * q + j \in DOMAIN s /\ s[n * p + i] = s[n * q + j]
        BY <1>5, <2>2
      <3>2. n * p + i = n * q + j
        BY <3>1 DEF IsInjective
      <3>3. Len(slice(p)) = last(p) - n * p /\ last(p) <= n * p + n /\ last(p) \in Nat
        BY <1>4, <1>5
      <3> DEFINE a == n * p
                 b == n * q
      <3>4. a \in Nat /\ b \in Nat /\ n \in Nat
        BY <1>0, <1>2
      <3>5. i <= n /\ i \in Nat /\ j \in Nat /\ j >= 1
        <4>1. Len(slice(q)) \in Nat /\ i <= last(p) - a
          BY <1>5, <3>3
        <4> HIDE DEF a
        <4> QED BY <3>3, <3>4, <4>1 DEF a
      <3> HIDE DEF a, b
      <3> QED BY <2>1, <3>2, <3>4, <3>5 DEF a, b
    <2>3. /\ DOMAIN slice(p) = 1..Len(slice(p)) /\ DOMAIN slice(q) = 1..Len(slice(q))
      BY <1>5
    <2> QED BY <2>2, <2>3 DEF Range
  <1>8. \A c, d \in Batches(s) : c # d => Range(c) \cap Range(d) = {}
    <2>1. ASSUME NEW p \in at, NEW q \in at, slice(p) # slice(q)
          PROVE  Range(slice(p)) \cap Range(slice(q)) = {}
      <3>1. p < q \/ q < p
        BY <1>2, <2>1
      <3> QED BY <1>7, <3>1
    <2> QED BY <1>1, <2>1
  <1>9. ASSUME NEW k \in Range(s) PROVE \E c \in Batches(s) : k \in Range(c)
    <2>1. PICK x \in 1..Len(s) : k = s[x]
      BY <1>0, <1>9 DEF Range
    <2>2. PICK q \in Nat : q <= x /\ n * q \in Nat /\ n * q + 1 <= x /\ x <= n * q + n
      <3>1. n \in Nat \ {0} /\ x \in Nat \ {0}
        BY <1>0, <2>1
      <3> QED BY <3>1, SliceOfPlace
    <2>3. q \in at
      <3>1. q \in 0..Len(s) /\ n * q + 1 \in DOMAIN s
        BY <1>0, <2>1, <2>2
      <3> QED BY <3>1 DEF at
    <2> DEFINE i == x - n * q
    <2>4. i \in 1..Len(slice(q)) /\ n * q + i = x
      <3>1. /\ Len(slice(q)) = last(q) - n * q /\ last(q) \in Nat /\ x <= last(q)
        BY <1>0, <1>4, <1>5, <2>1, <2>2, <2>3
      <3> QED BY <2>1, <2>2, <3>1
    <2>5. slice(q)[i] = k /\ i \in DOMAIN slice(q)
      BY <1>5, <2>1, <2>3, <2>4
    <2> QED BY <1>1, <2>3, <2>5 DEF Range
  <1> QED BY <1>3, <1>6, <1>8, <1>9

-----------------------------------------------------------------------------
(* The calls of a group *)

\* Calls that ask each key once, of one owner each and within the limit.
EachOnce(calls) ==
    /\ calls \in Seq(Range(calls))
    /\ \A i, j \in DOMAIN calls : i # j => Range(calls[i]) \cap Range(calls[j]) = {}
    /\ \A c \in Range(calls) : Len(c) \in 1..MaxKeysPerCall
                               /\ \A k, l \in Range(c) : k.owner = l.owner

AskedBy(calls) == UNION {Range(c) : c \in Range(calls)}

\* The calls for some keys ask them all, each once.
LEMMA CallsAskEachOnce ==
    ASSUME NEW keys, IsFiniteSet(keys)
    PROVE  EachOnce(Calls(keys)) /\ keys \subseteq AskedBy(Calls(keys))
  <1> DEFINE owners == {k.owner : k \in keys}
             of == [o \in owners |-> SetToSeq({k \in keys : k.owner = o})]
             slices == UNION {Batches(of[o]) : o \in owners}
  <1>1. Calls(keys) = SetToSeq(slices)
    BY DEF Calls
  <1>2. IsFiniteSet(owners)
    <2> DEFINE f == [k \in keys |-> k.owner]
    <2>1. IsFiniteSet({f[k] : k \in keys})
      <3> HIDE DEF f
      <3> QED BY FinitelyMany
    <2> QED BY <2>1
  <1>3. ASSUME NEW o \in owners
        PROVE  /\ of[o] \in Seq(Range(of[o])) /\ IsInjective(of[o])
               /\ Range(of[o]) = {k \in keys : k.owner = o}
    <2> DEFINE own == {k \in keys : k.owner = o}
    <2>1. IsFiniteSet(own)
      <3>1. own \in SUBSET keys
        OBVIOUS
      <3> HIDE DEF own
      <3> QED BY <3>1, FS_Subset
    <2>2. of[o] = SetToSeq(own)
      OBVIOUS
    <2> HIDE DEF own, of
    <2>3. of[o] \in Seq(own) /\ IsInjective(of[o]) /\ Range(of[o]) = own
      BY <2>1, <2>2, PutInOrder
    <2> QED BY <2>3 DEF own
  <1> HIDE DEF of
  <1>4. ASSUME NEW o \in owners
        PROVE  /\ IsFiniteSet(Batches(of[o]))
               /\ \A c \in Batches(of[o]) :
                     Len(c) \in 1..MaxKeysPerCall /\ Range(c) \subseteq {k \in keys : k.owner = o}
               /\ \A c, d \in Batches(of[o]) : c # d => Range(c) \cap Range(d) = {}
               /\ \A k \in keys : k.owner = o => \E c \in Batches(of[o]) : k \in Range(c)
    <2>1. /\ IsFiniteSet(Batches(of[o]))
          /\ \A c \in Batches(of[o]) : c \in Seq(Range(of[o])) /\ Len(c) \in 1..MaxKeysPerCall
          /\ \A c, d \in Batches(of[o]) : c # d => Range(c) \cap Range(d) = {}
          /\ \A k \in Range(of[o]) : \E c \in Batches(of[o]) : k \in Range(c)
      BY <1>3, Slices
    <2>2. \A R : \A c \in Seq(R) : Range(c) \subseteq R
      BY DEF Range
    <2>3. \A c \in Batches(of[o]) : Range(c) \subseteq Range(of[o])
      BY <2>1, <2>2, Zenon
    <2> QED BY <1>3, <2>1, <2>3
  <1>5. IsFiniteSet(slices)
    <2> DEFINE b == [o \in owners |-> Batches(of[o])]
               all == {b[o] : o \in owners}
    <2>1. IsFiniteSet(all)
      <3> HIDE DEF b, owners
      <3> QED BY <1>2, FinitelyMany
    <2>2. \A T \in all : IsFiniteSet(T)
      <3>1. \A o \in owners : IsFiniteSet(b[o])
        BY <1>4
      <3> HIDE DEF b, owners
      <3> QED BY <3>1
    <2>3. slices = UNION all
      OBVIOUS
    <2> HIDE DEF all, slices
    <2> QED BY <2>1, <2>2, <2>3, FS_UNION
  <1> DEFINE calls == Calls(keys)
  <1>6. calls \in Seq(slices) /\ IsInjective(calls) /\ Range(calls) = slices
    <2> HIDE DEF slices
    <2> QED BY <1>1, <1>5, PutInOrder
  <1>7. \A c \in slices : \E o \in owners : c \in Batches(of[o])
    OBVIOUS
  <1>8. \A o \in owners : Batches(of[o]) \subseteq slices
    OBVIOUS
  <1> HIDE DEF slices, calls
  <1>9. \A c, d \in slices : c # d => Range(c) \cap Range(d) = {}
    <2> TAKE c \in slices, d \in slices
    <2> HAVE c # d
    <2>1. PICK o \in owners : c \in Batches(of[o])
      BY <1>7
    <2>2. PICK u \in owners : d \in Batches(of[u])
      BY <1>7
    <2>3. CASE o = u
      BY <1>4, <2>1, <2>2, <2>3
    <2>4. CASE o # u
      BY <1>4, <2>1, <2>2, <2>4
    <2> QED BY <2>3, <2>4
  <1>10. \A c \in slices : Len(c) \in 1..MaxKeysPerCall /\ \A k, l \in Range(c) : k.owner = l.owner
    BY <1>4, <1>7
  <1>11. \A i, j \in DOMAIN calls : i # j => Range(calls[i]) \cap Range(calls[j]) = {}
    BY <1>6, <1>9 DEF IsInjective, Range
  <1>12. keys \subseteq AskedBy(calls)
    <2> SUFFICES ASSUME NEW k \in keys PROVE k \in AskedBy(calls)
      OBVIOUS
    <2>1. k.owner \in owners
      OBVIOUS
    <2>2. PICK c \in Batches(of[k.owner]) : k \in Range(c)
      <3> HIDE DEF owners
      <3> QED BY <1>4, <2>1
    <2>3. c \in Range(calls)
      <3> HIDE DEF owners
      <3> QED BY <1>6, <1>8, <2>1
    <2> QED BY <2>2, <2>3 DEF AskedBy
  <1> QED BY <1>6, <1>10, <1>11, <1>12 DEF EachOnce, calls

-----------------------------------------------------------------------------
(* A key's station *)

\* A key's station is the only one the module has for it (_stations_of).
LEMMA StationIsTheOnly ==
    ASSUME NEW S
    PROVE  /\ StationOfRows(S) # Nil => S = {StationOfRows(S)}
           /\ IsFiniteSet(S) /\ Nil \notin S /\ Cardinality(S) = 1 => StationOfRows(S) # Nil
  <1>1. ASSUME NEW s \in S, S = {s} PROVE StationOfRows(S) = s
    BY <1>1 DEF StationOfRows
  <1>2. StationOfRows(S) # Nil => \E s \in S : S = {s}
    BY DEF StationOfRows
  <1>3. IsFiniteSet(S) /\ Cardinality(S) = 1 => \E s : S = {s}
    BY FS_Singleton
  <1> QED BY <1>1, <1>2, <1>3

\* A stop has at most two keys, the parent's first (keys_of).
LEMMA KeysOfAStop ==
    ASSUME NEW stop
    PROVE  \/ KeysOf(stop) = <<>>
           \/ \E k : KeysOf(stop) = <<k>>
           \/ \E k, l : KeysOf(stop) = <<k, l>>
  <1>1. \A k : <<>> \o <<k>> = <<k>>
    OBVIOUS
  <1>2. \A k, l : <<k>> \o <<l>> = <<k, l>>
    <2> TAKE k, l
    <2>1. <<k>> \in Seq({k, l}) /\ <<l>> \in Seq({k, l}) /\ Len(<<k>>) = 1 /\ Len(<<l>>) = 1
      OBVIOUS
    <2>2. /\ <<k>> \o <<l>> \in Seq({k, l}) /\ Len(<<k>> \o <<l>>) = 2
          /\ (<<k>> \o <<l>>)[1] = k /\ (<<k>> \o <<l>>)[2] = l
      BY <2>1
    <2> DEFINE s == <<k>> \o <<l>>
    <2>3. s \in Seq({k, l}) /\ Len(s) = Len(<<k, l>>) /\ s[1] = k /\ s[2] = l
      BY <2>2
    <2> HIDE DEF s
    <2>4. s = <<k, l>>
      BY <2>3
    <2> QED BY <2>4 DEF s
  <1>3. \A k : <<k>> \o <<>> = <<k>>
    <2> TAKE k
    <2>1. <<k>> \in Seq({k})
      OBVIOUS
    <2> QED BY <2>1, ConcatEmptySeq
  <1>4. <<>> \o <<>> = <<>>
    BY EmptySeq, ConcatEmptySeq
  <1> QED BY <1>1, <1>2, <1>3, <1>4 DEF KeysOf


\* The keys of a stop are listed from the first.
Listed(keys) ==
    /\ DOMAIN keys \in SUBSET Nat /\ IsFiniteSet(Range(keys))
    /\ \A i \in DOMAIN keys : i >= 1 /\ 1 \in DOMAIN keys
    /\ \A k : k \in Range(keys) <=> \E i \in DOMAIN keys : keys[i] = k

LEMMA KeysAreListed == ASSUME NEW stop PROVE Listed(KeysOf(stop))
  <1>1. Listed(<<>>)
    <2>1. DOMAIN <<>> = {} /\ Range(<<>>) = {}
      BY DEF Range
    <2> QED BY <2>1, FS_EmptySet DEF Listed
  <1>2. ASSUME NEW k PROVE Listed(<<k>>)
    <2> DEFINE s == <<k>>
    <2>1. DOMAIN s = {1} /\ s[1] = k
      OBVIOUS
    <2> HIDE DEF s
    <2>2. Range(s) = {k}
      BY <2>1 DEF Range
    <2>3. IsFiniteSet({k})
      BY FS_Singleton
    <2> QED BY <2>1, <2>2, <2>3 DEF Listed, s
  <1>3. ASSUME NEW k, NEW l PROVE Listed(<<k, l>>)
    <2> DEFINE s == <<k, l>>
    <2>1. DOMAIN s = {1, 2} /\ s[1] = k /\ s[2] = l
      OBVIOUS
    <2> HIDE DEF s
    <2>2. Range(s) = {k} \cup {l}
      BY <2>1 DEF Range
    <2>3. IsFiniteSet({k} \cup {l})
      BY FS_Singleton, FS_Union
    <2> QED BY <2>1, <2>2, <2>3 DEF Listed, s
  <1> QED BY <1>1, <1>2, <1>3, KeysOfAStop

\* A group asks for finitely many keys.
LEMMA WantedIsFinite ==
    ASSUME NEW group \in Range(Groups) PROVE IsFiniteSet(Wanted(group))
  <1> DEFINE k == [stop \in group |-> Range(KeysOf(stop))]
             all == {k[stop] : stop \in group}
  <1>1. IsFiniteSet(group)
    BY PlacingAssumption
  <1>2. IsFiniteSet(all)
    <2> HIDE DEF k
    <2> QED BY <1>1, FinitelyMany
  <1>3. \A T \in all : IsFiniteSet(T)
    BY KeysAreListed DEF Listed
  <1>4. Wanted(group) = UNION all
    BY DEF Wanted
  <1> HIDE DEF all
  <1> QED BY <1>2, <1>3, <1>4, FS_UNION

-----------------------------------------------------------------------------
(* The invariant *)

\* What the module says of a stop's i-th key.
Says(stop, i) == StationOfRows(known[KeysOf(stop)[i]])

\* The groups before one have all their stops that the module can place.
PlacedBefore(placed, n) ==
    \A i \in DOMAIN Groups : i < n => \A stop \in Groups[i] :
        (\E k \in Range(KeysOf(stop)) : Unique(k)) => stop \in DOMAIN placed

\* Each stop is placed by the first of its keys the module has a station for, or by a later one
\* once a call failed.
PlacedBy(stop, station, missed) ==
    \E i \in DOMAIN KeysOf(stop) :
        /\ Says(stop, i) = station /\ station # Nil
        /\ missed \/ \A j \in DOMAIN KeysOf(stop) : j < i => Says(stop, j) = Nil
PlacedTrue(placed, missed) ==
    \A stop \in DOMAIN placed : /\ \E group \in Range(Groups) : stop \in group
                                /\ PlacedBy(stop, placed[stop], missed)

\* Answers, of a search or of the cache, are what the module says.
AnswersTrue(answers) == \A k \in DOMAIN answers : answers[k] = StationOfRows(known[k])

\* A search that is looking its stops up has an answer or a call for each key of its group.
Looks(r) ==
    /\ r.group \in DOMAIN Groups /\ AnswersTrue(r.answers) /\ EachOnce(r.calls)
    /\ r.failed \/ /\ Wanted(Groups[r.group]) \subseteq DOMAIN r.answers \cup AskedBy(r.calls)
                   /\ PlacedBefore(r.placed, r.group)

SearchTrue(r) ==
    /\ DOMAIN r = DOMAIN NoPlacing /\ r.failed \in BOOLEAN
    /\ r.at = "idle" => r = NoPlacing
    /\ r.at = "placing" => Looks(r)
    /\ PlacedTrue(r.placed, r.failed)
    /\ r.at = "compared" /\ ~r.failed /\ DOMAIN r.placed # {} => PlacedBefore(r.placed, Len(Groups) + 1)

PlacingInv ==
    /\ known \in ModuleWorlds /\ AnswersTrue(kept) /\ DOMAIN placing = PlacingSearches
    /\ \A w \in PlacingSearches : SearchTrue(placing[w])

\* What the invariant says, in the words of the properties.
LEMMA UniqueIsSaid ==
    ASSUME known \in ModuleWorlds, NEW group \in Range(Groups), NEW stop \in group,
           NEW k \in Range(KeysOf(stop))
    PROVE  Unique(k) <=> StationOfRows(known[k]) # Nil
  <1>1. k \in Wanted(group)
    BY DEF Wanted
  <1>2. IsFiniteSet(known[k]) /\ Nil \notin known[k]
    BY <1>1, PlacingAssumption
  <1>3. Unique(k) => StationOfRows(known[k]) # Nil
    BY <1>2, StationIsTheOnly DEF Unique
  <1>4. StationOfRows(known[k]) # Nil => Unique(k)
    BY StationIsTheOnly, FS_Singleton DEF Unique
  <1> QED BY <1>3, <1>4

LEMMA SearchesAreTrue ==
    PlacingInv => BothSidesAlike /\ StationIsItsOwn /\ ParentIsTrusted /\ EachKeyAskedOnce
  <1> SUFFICES ASSUME PlacingInv
               PROVE  BothSidesAlike /\ StationIsItsOwn /\ ParentIsTrusted /\ EachKeyAskedOnce
    OBVIOUS
  <1>1. Len(Groups) \in Nat /\ DOMAIN Groups = 1..Len(Groups)
    BY PlacingAssumption
  <1>2. BothSidesAlike
    BY <1>1 DEF PlacingInv, SearchTrue, PlacedBefore, BothSidesAlike
  <1>3. ASSUME NEW w \in PlacingSearches, NEW stop \in DOMAIN placing[w].placed
        PROVE  /\ \E group \in Range(Groups) : stop \in group
               /\ PlacedBy(stop, placing[w].placed[stop], placing[w].failed)
    BY DEF PlacingInv, SearchTrue, PlacedTrue
  <1>4. StationIsItsOwn
    <2> SUFFICES ASSUME NEW w \in PlacingSearches, NEW stop \in DOMAIN placing[w].placed
                 PROVE  \E k \in Range(KeysOf(stop)) : known[k] = {placing[w].placed[stop]}
      BY DEF StationIsItsOwn
    <2>1. PICK i \in DOMAIN KeysOf(stop) :
            Says(stop, i) = placing[w].placed[stop] /\ placing[w].placed[stop] # Nil
      BY <1>3 DEF PlacedBy
    <2>2. known[KeysOf(stop)[i]] = {placing[w].placed[stop]}
      BY <2>1, StationIsTheOnly DEF Says
    <2> QED BY <2>2 DEF Range
  <1>5. ParentIsTrusted
    <2> SUFFICES ASSUME NEW w \in PlacingSearches, NEW stop \in DOMAIN placing[w].placed,
                        stop.source = "motis", stop.parent # Nil, ~placing[w].failed,
                        Unique(Key("stop", FeedKeyOf[stop.feed], stop.parent))
                 PROVE  placing[w].placed[stop] \in known[Key("stop", FeedKeyOf[stop.feed], stop.parent)]
      BY DEF ParentIsTrusted
    <2> DEFINE parent == Key("stop", FeedKeyOf[stop.feed], stop.parent)
    <2>1. PICK i \in DOMAIN KeysOf(stop) :
            /\ Says(stop, i) = placing[w].placed[stop] /\ placing[w].placed[stop] # Nil
            /\ \A j \in DOMAIN KeysOf(stop) : j < i => Says(stop, j) = Nil
      BY <1>3 DEF PlacedBy
    <2>2. FeedKeyOf[stop.feed] # Nil
      BY DEF KeysOf
    <2>3. KeysOf(stop)[1] = parent
      <3>1. \A a, b : (<<a>> \o <<b>>)[1] = a
        OBVIOUS
      <3>2. \A a : (<<a>> \o <<>>)[1] = a
        OBVIOUS
      <3>3. stop.source # "otp" /\ stop.source # "oebb"
        OBVIOUS
      <3> QED BY <2>2, <3>1, <3>2, <3>3 DEF KeysOf
    <2>4. i \in Nat /\ i >= 1 /\ 1 \in DOMAIN KeysOf(stop)
      BY <2>1, KeysAreListed DEF Listed
    <2>5. parent \in Range(KeysOf(stop))
      BY <2>3, <2>4, KeysAreListed DEF Listed
    <2>6. Says(stop, 1) # Nil
      <3> HIDE DEF parent
      <3> QED BY <1>3, <2>3, <2>5, UniqueIsSaid DEF Says, PlacingInv, parent
    <2>7. i = 1
      BY <2>1, <2>4, <2>6
    <2>8. known[parent] = {placing[w].placed[stop]}
      <3> HIDE DEF parent
      <3> QED BY <2>1, <2>3, <2>7, StationIsTheOnly DEF Says
    <2> QED BY <2>8
  <1>6. EachKeyAskedOnce
    BY DEF PlacingInv, SearchTrue, Looks, EachOnce, AskedBy, EachKeyAskedOnce
  <1> QED BY <1>2, <1>4, <1>5, <1>6

-----------------------------------------------------------------------------
(* Every step keeps it *)

\* A group that is opened has an answer or a call for each of its keys.
LEMMA OpenedLooks ==
    ASSUME PlacingInv, NEW r, DOMAIN r = DOMAIN NoPlacing, r.failed \in BOOLEAN,
           NEW i \in DOMAIN Groups, PlacedTrue(r.placed, r.failed),
           r.failed \/ PlacedBefore(r.placed, i), r.at = "placing"
    PROVE  SearchTrue(Opened(r, i))
  <1> DEFINE keys == Wanted(Groups[i])
             have == keys \cap DOMAIN kept
             s == Opened(r, i)
  <1>1. s = [r EXCEPT !.group = i, !.answers = [k \in have |-> kept[k]], !.calls = Calls(keys \ have)]
    BY DEF Opened
  <1>2. DOMAIN NoPlacing = {"at", "group", "answers", "calls", "failed", "placed"}
    BY DEF NoPlacing
  <1>3. /\ DOMAIN s = DOMAIN NoPlacing /\ s.at = "placing" /\ s.group = i
        /\ s.answers = [k \in have |-> kept[k]] /\ s.calls = Calls(keys \ have)
        /\ s.failed = r.failed /\ s.placed = r.placed
    <2> HIDE DEF keys, have, s
    <2> QED BY <1>1, <1>2
  <1>4. IsFiniteSet(keys \ have)
    <2>1. Groups[i] \in Range(Groups)
      BY DEF Range
    <2>2. IsFiniteSet(keys)
      BY <2>1, WantedIsFinite
    <2> HIDE DEF keys, have
    <2> QED BY <2>2, FS_Difference
  <1>5. EachOnce(s.calls) /\ keys \ have \subseteq AskedBy(s.calls)
    <2> HIDE DEF keys, have, s
    <2> QED BY <1>3, <1>4, CallsAskEachOnce
  <1>6. AnswersTrue(s.answers)
    BY <1>3 DEF PlacingInv, AnswersTrue
  <1>7. keys \subseteq DOMAIN s.answers \cup AskedBy(s.calls)
    <2> HIDE DEF keys, s
    <2> QED BY <1>3, <1>5
  <1> HIDE DEF s, have
  <1>8. Looks(s)
    BY <1>3, <1>5, <1>6, <1>7 DEF Looks
  <1> QED BY <1>3, <1>8 DEF SearchTrue, s

\* The stations of a group's stops are the module's, and all of them when each key is answered.
LEMMA PlacedIsTrue ==
    ASSUME PlacingInv, NEW group \in Range(Groups), NEW answers, AnswersTrue(answers),
           NEW missed \in BOOLEAN, missed \/ Wanted(group) \subseteq DOMAIN answers
    PROVE  /\ PlacedTrue(Placed(group, answers), missed)
           /\ ~missed => \A stop \in group :
                (\E k \in Range(KeysOf(stop)) : Unique(k)) => stop \in DOMAIN Placed(group, answers)
  <1> DEFINE Good(stop) == {i \in DOMAIN KeysOf(stop) : /\ KeysOf(stop)[i] \in DOMAIN answers
                                                        /\ answers[KeysOf(stop)[i]] # Nil}
             all == {s \in group : Good(s) # {}}
             placed == Placed(group, answers)
  <1>1. placed = [stop \in all |-> answers[KeysOf(stop)[Min(Good(stop))]]]
    BY DEF Placed
  <1>2. ASSUME NEW stop \in group, NEW i \in DOMAIN KeysOf(stop)
        PROVE  i \in Good(stop) => Says(stop, i) = answers[KeysOf(stop)[i]] /\ Says(stop, i) # Nil
    BY DEF AnswersTrue, Says
  <1>3. ASSUME ~missed, NEW stop \in group, NEW i \in DOMAIN KeysOf(stop), Says(stop, i) # Nil
        PROVE  i \in Good(stop)
    <2>1. KeysOf(stop)[i] \in Wanted(group)
      BY DEF Wanted, Range
    <2> QED BY <1>3, <2>1 DEF AnswersTrue, Says
  <1>4. ASSUME NEW stop \in all
        PROVE  Min(Good(stop)) \in Good(stop) /\ \A j \in Good(stop) : Min(Good(stop)) <= j
    <2> DEFINE G == Good(stop)
    <2>1. G \in SUBSET Nat /\ G # {}
      BY KeysAreListed DEF Listed
    <2> HIDE DEF G
    <2>2. Min(G) \in G /\ \A j \in G : Min(G) <= j
      BY <2>1, SmallestOf
    <2> QED BY <2>2 DEF G
  <1>5. ASSUME NEW stop \in all PROVE PlacedBy(stop, placed[stop], missed)
    <2> DEFINE i == Min(Good(stop))
    <2>1. i \in DOMAIN KeysOf(stop) /\ stop \in group
      BY <1>4
    <2>2. Says(stop, i) = placed[stop] /\ placed[stop] # Nil
      BY <1>1, <1>2, <1>4
    <2>3. ASSUME ~missed, NEW j \in DOMAIN KeysOf(stop), j < i PROVE Says(stop, j) = Nil
      <3>1. i \in Nat /\ j \in Nat
        BY <2>1, KeysAreListed DEF Listed
      <3>2. j \notin Good(stop)
        <4>1. \A l \in Good(stop) : i <= l
          BY <1>4
        <4> HIDE DEF i, Good
        <4> QED BY <2>3, <3>1, <4>1
      <3> QED BY <1>3, <2>1, <2>3, <3>2
    <2> HIDE DEF i, placed
    <2> QED BY <2>1, <2>2, <2>3 DEF PlacedBy
  <1>6. DOMAIN placed = all
    BY <1>1
  <1>7. PlacedTrue(placed, missed)
    <2> HIDE DEF placed
    <2> QED BY <1>5, <1>6 DEF PlacedTrue
  <1>8. ASSUME ~missed, NEW stop \in group, NEW k \in Range(KeysOf(stop)), Unique(k)
        PROVE  stop \in DOMAIN placed
    <2>1. PICK i \in DOMAIN KeysOf(stop) : KeysOf(stop)[i] = k
      BY KeysAreListed DEF Listed
    <2>2. Says(stop, i) # Nil
      BY <1>8, <2>1, UniqueIsSaid DEF Says, PlacingInv
    <2>3. i \in Good(stop)
      BY <1>3, <1>8, <2>2
    <2>4. stop \in all
      BY <2>3
    <2> QED BY <1>6, <2>4
  <1> QED BY <1>7, <1>8

\* What two sets of places that are true place is true together.
LEMMA PlacedMerged ==
    ASSUME NEW f, NEW g, NEW missed, PlacedTrue(f, missed), PlacedTrue(g, missed)
    PROVE  PlacedTrue(Merge(f, g), missed)
  <1> SUFFICES ASSUME NEW stop \in DOMAIN Merge(f, g)
               PROVE  /\ \E group \in Range(Groups) : stop \in group
                      /\ PlacedBy(stop, Merge(f, g)[stop], missed)
    BY Zenon DEF PlacedTrue
  <1>1. CASE stop \in DOMAIN g
    <2>1. Merge(f, g)[stop] = g[stop]
      BY <1>1 DEF Merge
    <2> QED BY <1>1, <2>1 DEF PlacedTrue
  <1>2. CASE stop \in DOMAIN f \ DOMAIN g
    <2>1. Merge(f, g)[stop] = f[stop]
      BY <1>2 DEF Merge
    <2> QED BY <1>2, <2>1 DEF PlacedTrue
  <1>3. DOMAIN Merge(f, g) = DOMAIN f \cup DOMAIN g
    BY DEF Merge
  <1> QED BY <1>1, <1>2, <1>3

\* One search's step, with what the module and the cache hold left true, keeps the invariant.
LEMMA OneSearch ==
    ASSUME PlacingInv, NEW w \in PlacingSearches, NEW new, SearchTrue(new),
           placing' = [placing EXCEPT ![w] = new], UNCHANGED known, AnswersTrue(kept')
    PROVE  PlacingInv'
  <1>1. DOMAIN placing' = PlacingSearches
    BY DEF PlacingInv
  <1>2. \A v \in PlacingSearches : SearchTrue(placing'[v])
    BY DEF PlacingInv
  <1>3. \A r : SearchTrue(r) => SearchTrue(r)'
    BY DEF SearchTrue, Looks, AnswersTrue, PlacedTrue, PlacedBy, PlacedBefore, Says, Unique
  <1> QED BY <1>1, <1>2, <1>3 DEF PlacingInv, SearchTrue, Looks, AnswersTrue, PlacedTrue, PlacedBy,
         PlacedBefore, Says, Unique


\* A group that is done leaves its stops placed, and opens the next one or ends the search.
LEMMA GroupCloses == ASSUME PlacingInv, NEW w \in PlacingSearches, GroupDone(w) PROVE PlacingInv'
  <1> DEFINE r == placing[w]
             own == Placed(Groups[r.group], r.answers)
             placed == Merge(r.placed, own)
  <1>1. /\ SearchTrue(r) /\ r.at = "placing" /\ r.calls = <<>>
        /\ placing' = [placing EXCEPT ![w] = Closed(r)] /\ UNCHANGED <<known, kept>>
    BY DEF GroupDone, PlacingInv
  <1>2. /\ DOMAIN r = DOMAIN NoPlacing /\ r.failed \in BOOLEAN /\ Looks(r)
        /\ PlacedTrue(r.placed, r.failed)
    BY <1>1 DEF SearchTrue
  <1> HIDE DEF r
  <1>3. r.group \in DOMAIN Groups /\ Groups[r.group] \in Range(Groups) /\ AnswersTrue(r.answers)
    BY <1>2 DEF Looks, Range
  <1>4. AskedBy(<<>>) = {}
    BY DEF AskedBy, Range
  <1>5. r.failed \/ (Wanted(Groups[r.group]) \subseteq DOMAIN r.answers
                       /\ PlacedBefore(r.placed, r.group))
    BY <1>1, <1>2, <1>4 DEF Looks
  <1>6. /\ PlacedTrue(own, r.failed)
        /\ ~r.failed => \A stop \in Groups[r.group] :
                (\E k \in Range(KeysOf(stop)) : Unique(k)) => stop \in DOMAIN own
    BY <1>2, <1>3, <1>5, PlacedIsTrue
  <1> HIDE DEF own
  <1>7. PlacedTrue(placed, r.failed) /\ DOMAIN placed = DOMAIN r.placed \cup DOMAIN own
    BY <1>2, <1>6, PlacedMerged DEF Merge
  <1>8. Len(Groups) \in Nat /\ DOMAIN Groups = 1..Len(Groups) /\ r.group \in Nat
    BY <1>3, PlacingAssumption
  <1> HIDE DEF placed
  <1>9. r.failed \/ PlacedBefore(placed, r.group + 1)
    BY <1>5, <1>6, <1>7, <1>8 DEF PlacedBefore
  <1>10. DOMAIN NoPlacing = {"at", "group", "answers", "calls", "failed", "placed"}
    BY DEF NoPlacing
  <1>11. CASE r.group = Len(Groups)
    <2> DEFINE s == [NoPlacing EXCEPT !.at = "compared", !.placed = placed, !.failed = r.failed]
    <2>1. Closed(r) = s
      BY <1>11 DEF Closed, placed, own
    <2>2. DOMAIN s = DOMAIN NoPlacing /\ s.at = "compared" /\ s.placed = placed /\ s.failed = r.failed
      BY <1>10
    <2> HIDE DEF s
    <2>3. SearchTrue(s)
      BY <1>2, <1>7, <1>9, <1>11, <2>2 DEF SearchTrue
    <2> QED BY <1>1, <2>1, <2>3, OneSearch DEF PlacingInv
  <1>12. CASE r.group # Len(Groups)
    <2> DEFINE s == [r EXCEPT !.placed = placed, !.calls = <<>>]
    <2>1. Closed(r) = Opened(s, r.group + 1)
      BY <1>12 DEF Closed, placed, own
    <2>2. DOMAIN s = DOMAIN NoPlacing /\ s.at = "placing" /\ s.placed = placed /\ s.failed = r.failed
      BY <1>1, <1>2, <1>10
    <2>3. r.group + 1 \in DOMAIN Groups
      BY <1>3, <1>8, <1>12
    <2> HIDE DEF s
    <2>4. SearchTrue(Opened(s, r.group + 1))
      BY <1>2, <1>7, <1>9, <2>2, <2>3, OpenedLooks
    <2> QED BY <1>1, <2>1, <2>4, OneSearch DEF PlacingInv
  <1> QED BY <1>11, <1>12

\* The answers of a call go to the search and to the cache, and its keys need no call any more.
LEMMA AnswersCome == ASSUME PlacingInv, NEW w \in PlacingSearches, CallAnswered(w) PROVE PlacingInv'
  <1> DEFINE r == placing[w]
             news == [k \in Range(Head(r.calls)) |-> StationOfRows(known[k])]
             s == [r EXCEPT !.answers = Merge(r.answers, news), !.calls = Tail(r.calls)]
  <1>1. /\ SearchTrue(r) /\ r.at = "placing" /\ r.calls # <<>>
        /\ kept' = Merge(kept, news) /\ placing' = [placing EXCEPT ![w] = s] /\ UNCHANGED known
    BY DEF CallAnswered, PlacingInv
  <1>2. /\ DOMAIN r = DOMAIN NoPlacing /\ r.failed \in BOOLEAN /\ Looks(r)
        /\ PlacedTrue(r.placed, r.failed)
    BY <1>1 DEF SearchTrue
  <1> HIDE DEF r
  <1>3. DOMAIN news = Range(Head(r.calls)) /\ AnswersTrue(news)
    BY DEF AnswersTrue
  <1> HIDE DEF news
  <1>4. \A f : AnswersTrue(f) => AnswersTrue(Merge(f, news))
    BY <1>3 DEF AnswersTrue, Merge
  <1>5. DOMAIN NoPlacing = {"at", "group", "answers", "calls", "failed", "placed"}
    BY DEF NoPlacing
  <1>6. /\ DOMAIN s = DOMAIN NoPlacing /\ s.at = "placing" /\ s.group = r.group
        /\ s.answers = Merge(r.answers, news) /\ s.calls = Tail(r.calls)
        /\ s.failed = r.failed /\ s.placed = r.placed
    BY <1>1, <1>2, <1>5
  <1> HIDE DEF s
  <1>7. /\ Range(r.calls) = {Head(r.calls)} \cup Range(s.calls) /\ EachOnce(s.calls)
    <2> DEFINE c == r.calls
               d == Tail(c)
    <2>1. c \in Seq(Range(c)) /\ c # <<>> /\ EachOnce(c)
      BY <1>1, <1>2 DEF Looks, EachOnce
    <2> HIDE DEF c
    <2>2. /\ d \in Seq(Range(c)) /\ Len(c) \in Nat /\ Len(c) >= 1 /\ DOMAIN c = 1..Len(c)
          /\ DOMAIN d = 1..(Len(c) - 1) /\ Head(c) = c[1]
          /\ \A i \in DOMAIN d : d[i] = c[i + 1]
      BY <2>1
    <2>3. \A i \in DOMAIN d : i + 1 \in DOMAIN c /\ i \in Nat
      BY <2>2
    <2>4. \A i \in DOMAIN c : i = 1 \/ (i - 1 \in DOMAIN d /\ d[i - 1] = c[i])
      BY <2>2
    <2> HIDE DEF d
    <2>5. Range(c) = {Head(c)} \cup Range(d)
      <3>1. Head(c) \in Range(c)
        BY <2>2 DEF Range
      <3>2. Range(d) \subseteq Range(c)
        BY <2>2, <2>3 DEF Range
      <3>3. Range(c) \subseteq {Head(c)} \cup Range(d)
        BY <2>2, <2>4 DEF Range
      <3> QED BY <3>1, <3>2, <3>3
    <2>6. d \in Seq(Range(d))
      <3>1. \A i \in 1..(Len(c) - 1) : d[i] \in Range(d)
        BY <2>2 DEF Range
      <3> QED BY <2>2, <3>1
    <2>7. \A i, j \in DOMAIN d : i # j => Range(d[i]) \cap Range(d[j]) = {}
      <3> TAKE i \in DOMAIN d, j \in DOMAIN d
      <3> HAVE i # j
      <3>1. i + 1 \in DOMAIN c /\ j + 1 \in DOMAIN c /\ i + 1 # j + 1
        BY <2>3
      <3>2. d[i] = c[i + 1] /\ d[j] = c[j + 1]
        BY <2>2
      <3> QED BY <2>1, <3>1, <3>2 DEF EachOnce
    <2>8. EachOnce(d)
      BY <2>1, <2>5, <2>6, <2>7 DEF EachOnce
    <2> QED BY <1>6, <2>5, <2>8 DEF c, d
  <1>8. AskedBy(r.calls) \subseteq Range(Head(r.calls)) \cup AskedBy(s.calls)
    BY <1>7 DEF AskedBy
  <1>9. DOMAIN s.answers = DOMAIN r.answers \cup Range(Head(r.calls))
    BY <1>3, <1>6 DEF Merge
  <1>10. Looks(s)
    BY <1>2, <1>4, <1>6, <1>7, <1>8, <1>9 DEF Looks
  <1>11. SearchTrue(s)
    BY <1>2, <1>6, <1>10 DEF SearchTrue
  <1>12. AnswersTrue(kept')
    <2>1. AnswersTrue(Merge(kept, news))
      BY <1>4 DEF PlacingInv
    <2> QED BY <1>1, <2>1
  <1> QED BY <1>1, <1>11, <1>12, OneSearch

\* A call that fails leaves what was placed, and nothing more is asked for its group.
LEMMA CallIsRefused == ASSUME PlacingInv, NEW w \in PlacingSearches, CallRefused(w) PROVE PlacingInv'
  <1> DEFINE r == placing[w]
             s == [r EXCEPT !.calls = <<>>, !.failed = TRUE]
  <1>1. /\ SearchTrue(r) /\ r.at = "placing"
        /\ placing' = [placing EXCEPT ![w] = s] /\ UNCHANGED <<known, kept>>
    BY DEF CallRefused, PlacingInv
  <1>2. /\ DOMAIN r = DOMAIN NoPlacing /\ Looks(r) /\ PlacedTrue(r.placed, r.failed)
    BY <1>1 DEF SearchTrue
  <1> HIDE DEF r
  <1>3. DOMAIN NoPlacing = {"at", "group", "answers", "calls", "failed", "placed"}
    BY DEF NoPlacing
  <1>4. /\ DOMAIN s = DOMAIN NoPlacing /\ s.at = "placing" /\ s.group = r.group
        /\ s.answers = r.answers /\ s.calls = <<>> /\ s.failed = TRUE /\ s.placed = r.placed
    BY <1>1, <1>2, <1>3
  <1> HIDE DEF s
  <1>5. EachOnce(<<>>)
    BY DEF EachOnce, Range
  <1>6. Looks(s)
    BY <1>2, <1>4, <1>5 DEF Looks
  <1>7. PlacedTrue(s.placed, TRUE)
    BY <1>2, <1>4 DEF PlacedTrue, PlacedBy
  <1>8. SearchTrue(s)
    BY <1>4, <1>6, <1>7 DEF SearchTrue
  <1> QED BY <1>1, <1>8, OneSearch DEF PlacingInv

\* A search with no stop placed, before the first group or after the time limit.
LEMMA NothingPlaced ==
    /\ PlacedTrue(<<>>, FALSE) /\ DOMAIN NoPlacing.placed = {} /\ NoPlacing.failed = FALSE
    /\ NoPlacing.placed = <<>> /\ NoPlacing.at = "idle"
    /\ DOMAIN NoPlacing = {"at", "group", "answers", "calls", "failed", "placed"}
  BY DEF NoPlacing, PlacedTrue

\* Every step of the placing keeps it.
LEMMA PlacingStep == PlacingInv /\ [PlacingNext]_placingVars => PlacingInv'
  <1> SUFFICES ASSUME PlacingInv, PlacingNext \/ UNCHANGED placingVars PROVE PlacingInv'
    OBVIOUS
  <1>1. ASSUME NEW w \in PlacingSearches, StartPlacing(w) PROVE PlacingInv'
    <2> DEFINE s == [NoPlacing EXCEPT !.at = "placing"]
    <2>1. /\ placing' = [placing EXCEPT ![w] = Opened(s, 1)] /\ UNCHANGED <<known, kept>>
      BY <1>1 DEF StartPlacing
    <2>2. /\ DOMAIN s = DOMAIN NoPlacing /\ s.at = "placing" /\ s.failed = FALSE /\ s.placed = <<>>
      BY NothingPlaced
    <2> HIDE DEF s
    <2>3. 1 \in DOMAIN Groups /\ PlacedBefore(<<>>, 1)
      BY PlacingAssumption DEF PlacedBefore
    <2>4. SearchTrue(Opened(s, 1))
      BY <2>2, <2>3, NothingPlaced, OpenedLooks
    <2> QED BY <2>1, <2>4, OneSearch DEF PlacingInv
  <1>2. ASSUME NEW w \in PlacingSearches, LeavePlacing(w) \/ PlacingTimesOut(w) PROVE PlacingInv'
    <2> DEFINE s == [NoPlacing EXCEPT !.at = "compared"]
    <2>1. /\ placing' = [placing EXCEPT ![w] = s] /\ UNCHANGED <<known, kept>>
      <3>1. CASE LeavePlacing(w)
        <4>1. placing[w] = NoPlacing
          BY <3>1 DEF LeavePlacing, PlacingInv, SearchTrue
        <4> QED BY <3>1, <4>1 DEF LeavePlacing
      <3>2. CASE PlacingTimesOut(w)
        BY <3>2 DEF PlacingTimesOut, OutOfTime
      <3> QED BY <1>2, <3>1, <3>2
    <2>2. /\ DOMAIN s = DOMAIN NoPlacing /\ s.at = "compared" /\ s.failed = FALSE /\ s.placed = <<>>
      BY NothingPlaced
    <2> HIDE DEF s
    <2>3. SearchTrue(s)
      BY <2>2, NothingPlaced DEF SearchTrue
    <2> QED BY <2>1, <2>3, OneSearch DEF PlacingInv
  <1>3. ASSUME NEW w \in PlacingSearches, CallAnswered(w) PROVE PlacingInv'
    BY <1>3, AnswersCome
  <1>4. ASSUME NEW w \in PlacingSearches, CallRefused(w) PROVE PlacingInv'
    BY <1>4, CallIsRefused
  <1>5. ASSUME NEW w \in PlacingSearches, GroupDone(w) PROVE PlacingInv'
    BY <1>5, GroupCloses
  <1>6. CASE DropKept
    <2>1. AnswersTrue(kept') /\ UNCHANGED <<known, placing>>
      BY <1>6 DEF DropKept, AnswersTrue, PlacingInv
    <2> QED BY <2>1 DEF PlacingInv, SearchTrue, Looks, AnswersTrue, PlacedTrue, PlacedBy,
               PlacedBefore, Says, Unique
  <1>7. CASE UNCHANGED placingVars
    BY <1>7 DEF placingVars, PlacingInv, SearchTrue, Looks, AnswersTrue, PlacedTrue, PlacedBy,
       PlacedBefore, Says, Unique
  <1> QED BY <1>1, <1>2, <1>3, <1>4, <1>5, <1>6, <1>7 DEF PlacingNext

\* At first no search has begun and the cache is empty.
LEMMA PlacingStart == PlacingInit => PlacingInv
  <1> SUFFICES ASSUME PlacingInit PROVE PlacingInv
    OBVIOUS
  <1>1. SearchTrue(NoPlacing)
    BY NothingPlaced DEF SearchTrue
  <1>2. AnswersTrue(<<>>)
    BY DEF AnswersTrue
  <1> QED BY <1>1, <1>2 DEF PlacingInit, PlacingInv

-----------------------------------------------------------------------------
(* The instance *)

\* Whatever part runs, each part starts and goes on by its own steps.
LEMMA StationPartsRun ==
    /\ Init => ClientInv /\ WaitInv /\ ExtractsInv /\ PlacingInv /\ StopsInv
    /\ [Next]_stationVars => /\ (ModuleNext \/ UNCHANGED moduleVars)
                            /\ (WaitNext \/ UNCHANGED waitVars)
                            /\ (ExtractNext \/ UNCHANGED extractVars)
                            /\ (PlacingNext \/ UNCHANGED placingVars)
                            /\ (StopsNext \/ UNCHANGED stopVars)
  <1>1. Init => ClientInv /\ WaitInv /\ ExtractsInv /\ PlacingInv /\ StopsInv
    BY ClientStart, WaitStart, ExtractsStart, PlacingStart, StopsStart DEF Init
  <1>2. [Next]_stationVars => /\ (ModuleNext \/ UNCHANGED moduleVars)
                              /\ (WaitNext \/ UNCHANGED waitVars)
                              /\ (ExtractNext \/ UNCHANGED extractVars)
                              /\ (PlacingNext \/ UNCHANGED placingVars)
                              /\ (StopsNext \/ UNCHANGED stopVars)
    BY DEF Next, stationVars, WaitRest
  <1> QED BY <1>1, <1>2

\* What the client answers is recent and not from across a pause, and the wait ends on the
\* build it asked for and heeds a cancellation, for any calls, builds and limits.
THEOREM ModuleHeard == Spec => []ModuleIsHeard
  <1>1. ClientInv /\ WaitInv => ModuleIsHeard
    BY ClientIsHeard, WaitIsHeard DEF ModuleIsHeard
  <1>2. ClientInv /\ WaitInv /\ [Next]_stationVars => (ClientInv /\ WaitInv)'
    BY StationPartsRun, ClientSteps, WaitSteps
  <1> QED BY <1>1, <1>2, StationPartsRun, PTL DEF Spec

\* An extract is of the file its label says, none is made for nothing, and the page tells of
\* the newest file what the module holds, for any feeds, files, faults and restarts.
THEOREM ExtractsAreOfTheirFiles == Spec => []ExtractsAreTrue
  <1>1. ExtractsInv /\ [Next]_stationVars => ExtractsInv'
    BY StationPartsRun, ExtractsStep
  <1> QED BY <1>1, ExtractsTrue, StationPartsRun, PTL DEF Spec

\* Each stop is placed at its own station, the parent's first, both sides of a comparison alike,
\* with each key asked once; and the OeBB stops answered are those asked, of their own series,
\* the oldest kept ones going first, for any searches, stops, modules, lists and limits.
THEOREM StopsStayPlaced == Spec => []StopsArePlaced
  <1>1. PlacingInv /\ StopsInv => StopsArePlaced
    BY SearchesAreTrue, StopsAreTrue DEF StopsArePlaced
  <1>2. PlacingInv /\ StopsInv /\ [Next]_stationVars => (PlacingInv /\ StopsInv)'
    BY StationPartsRun, PlacingStep, StopsStep
  <1> QED BY <1>1, <1>2, StationPartsRun, PTL DEF Spec

=============================================================================
