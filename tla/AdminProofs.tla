----------------------------- MODULE AdminProofs -----------------------------
(***************************************************************************)
(* Proofs about Admin for any number of concurrent requests, any limits    *)
(* and any bounds.                                                         *)
(***************************************************************************)
EXTENDS Admin, FiniteSetTheorems, TLAPS

Place == {"idle", "password", "factor", "failed", "verify", "recover", "open",
          "secret", "enable", "clear", "codes", "set", "sessions"}

\* A login that goes on knows its number and the password it was given.
LoggingIn(r) ==
    \/ at[r] \in {"password", "factor", "verify", "open"}
    \/ at[r] = "recover" /\ job[r].op = "verify"

Locals ==
    /\ DOMAIN job = Requests
    /\ \A r \in Requests :
          LoggingIn(r) => job[r].no \in 1..requests /\ job[r].given \in Nat

\* Requests that may still change the password.
Unspent == {r \in Requests : at[r] \notin {"idle", "sessions"}}

\* Each failure and each new password is one of the requests there have been.
Budget ==
    /\ attempts.failures + Cardinality(Active) <= requests
    /\ password + Cardinality(Unspent) <= requests + 1

WellTyped == TypeOK /\ Locals /\ Budget

-----------------------------------------------------------------------------
(* Counting requests. *)

LEMMA NatConstants ==
    /\ MaxFailures \in Nat /\ MaxFailures > 0 /\ Codes \in Nat /\ Codes > 0
    /\ Window \in Nat /\ Block \in Nat /\ Wait \in Nat /\ Idle \in Nat /\ Life \in Nat
    /\ MaxMishaps \in Nat /\ MaxRequests \in Nat /\ MaxTime \in Nat /\ MaxTime > 0
    /\ IsFiniteSet(Requests)
  BY AdminAssumption

\* Of two sets of requests that differ in r at most.
LEMMA CountOne ==
    ASSUME NEW S \in SUBSET Requests, NEW T \in SUBSET Requests, NEW r, S \ {r} = T \ {r}
    PROVE  /\ Cardinality(S) \in Nat /\ Cardinality(T) \in Nat
           /\ Cardinality(T) <= Cardinality(S) + 1
           /\ r \notin T \/ r \in S => Cardinality(T) <= Cardinality(S)
           /\ r \in S /\ r \notin T => Cardinality(T) = Cardinality(S) - 1
  <1>1. IsFiniteSet(S) /\ IsFiniteSet(T)
    BY NatConstants, FS_Subset
  <1>2. Cardinality(S) \in Nat /\ Cardinality(T) \in Nat
    BY <1>1, FS_CardinalityType
  <1>3. /\ Cardinality(S \ {r}) = IF r \in S THEN Cardinality(S) - 1 ELSE Cardinality(S)
        /\ Cardinality(T \ {r}) = IF r \in T THEN Cardinality(T) - 1 ELSE Cardinality(T)
    BY <1>1, FS_RemoveElement
  <1>4. Cardinality(S \ {r}) = Cardinality(T \ {r})
    OBVIOUS
  <1>5. QED
    BY <1>2, <1>3, <1>4

\* What a step of one request does to the numbers of requests.
LEMMA StepCounts ==
    ASSUME NEW r \in Requests, at \in [Requests -> Place], NEW x \in Place,
           at' = [at EXCEPT ![r] = x]
    PROVE  /\ Cardinality(Active) \in Nat /\ Cardinality(Active') \in Nat
           /\ Cardinality(Active') <= Cardinality(Active) + 1
           /\ at[r] # "idle" => Cardinality(Active') <= Cardinality(Active)
           /\ at[r] # "idle" /\ x = "idle" => Cardinality(Active') = Cardinality(Active) - 1
           /\ Cardinality(Unspent) \in Nat /\ Cardinality(Unspent') \in Nat
           /\ Cardinality(Unspent') <= Cardinality(Unspent) + 1
           /\ at[r] \notin {"idle", "sessions"} \/ x \in {"idle", "sessions"} =>
                 Cardinality(Unspent') <= Cardinality(Unspent)
           /\ at[r] \notin {"idle", "sessions"} /\ x \in {"idle", "sessions"} =>
                 Cardinality(Unspent') = Cardinality(Unspent) - 1
  <1>1. /\ Active \in SUBSET Requests /\ Active' \in SUBSET Requests
        /\ Active \ {r} = Active' \ {r}
        /\ r \in Active <=> at[r] # "idle"
        /\ r \in Active' <=> x # "idle"
    BY DEF Active
  <1>2. /\ Unspent \in SUBSET Requests /\ Unspent' \in SUBSET Requests
        /\ Unspent \ {r} = Unspent' \ {r}
        /\ r \in Unspent <=> at[r] \notin {"idle", "sessions"}
        /\ r \in Unspent' <=> x \notin {"idle", "sessions"}
    BY DEF Unspent
  <1>3. QED
    BY <1>1, <1>2, CountOne

-----------------------------------------------------------------------------
(* Types. *)

LEMMA InitTyped == Init => WellTyped
  <1> SUFFICES ASSUME Init PROVE WellTyped
    OBVIOUS
  <1>1. Active = {} /\ Unspent = {}
    BY DEF Init, Active, Unspent
  <1>2. Cardinality({}) = 0
    BY FS_EmptySet
  <1>3. Budget
    BY <1>1, <1>2 DEF Init, Budget, NoAttempts
  <1>4. Locals
    BY DEF Init, Locals, LoggingIn
  <1>5. account \in [enabled : BOOLEAN, secret : 0..secrets, codes : SUBSET (1..printed)]
    <2>1. CASE account = NoFactor /\ secrets = 0 /\ printed = 0
      BY <2>1 DEF NoFactor
    <2>2. CASE /\ account = [enabled |-> TRUE, secret |-> 1, codes |-> 1..Codes]
               /\ secrets = 1 /\ printed = Codes
      BY <2>2, NatConstants
    <2>3. QED
      BY <2>1, <2>2 DEF Init
  <1>6. attempts \in [failures : 0..MaxRequests, until : Nat, blocked : Nat]
    BY NatConstants DEF Init, NoAttempts
  <1>7. at \in [Requests -> Place]
    BY DEF Init, Place
  <1>8. TypeOK
    BY <1>5, <1>6, <1>7, NatConstants DEF Init, TypeOK, Place
  <1>9. QED
    BY <1>3, <1>4, <1>8 DEF WellTyped


\* What TypeOK, Locals and Budget say of the control.
Control == at \in [Requests -> Place] /\ Locals /\ Budget

LEMMA TypedControl == WellTyped => Control /\ attempts.failures \in Nat /\ password \in Nat /\ requests \in Nat
  <1> SUFFICES ASSUME WellTyped PROVE Control /\ attempts.failures \in Nat /\ password \in Nat /\ requests \in Nat
    OBVIOUS
  <1>1. /\ at \in [Requests -> Place] /\ password \in 1..(MaxRequests + 1)
        /\ attempts \in [failures : 0..MaxRequests, until : Nat, blocked : Nat]
        /\ requests \in 0..MaxRequests
    BY DEF WellTyped, TypeOK, Place
  <1>2. Control
    BY <1>1 DEF WellTyped, Control
  <1>3. QED
    BY <1>1, <1>2, NatConstants

LEMMA GoToControl ==
    ASSUME WellTyped, NEW r \in Requests, NEW x \in Place, GoTo(r, x),
           at[r] # "idle", x # "idle", at[r] = "sessions" => x = "sessions",
           x \in {"password", "factor", "verify", "open"} \/ (x = "recover" /\ job[r].op = "verify")
               => LoggingIn(r),
           UNCHANGED <<attempts, password, requests>>
    PROVE  Control'
  <1>1. at \in [Requests -> Place] /\ Locals /\ Budget
    BY TypedControl DEF Control
  <1>2. at' \in [Requests -> Place]
    BY <1>1 DEF GoTo
  <1>3. Locals'
    <2>1. DOMAIN job' = Requests
      BY <1>1 DEF Locals, GoTo
    <2>2. ASSUME NEW q \in Requests, LoggingIn(q)'
          PROVE  job'[q].no \in 1..requests' /\ job'[q].given \in Nat
      <3>1. job' = job /\ requests' = requests
        BY DEF GoTo
      <3>2. at'[q] = IF q = r THEN x ELSE at[q]
        BY <1>1 DEF GoTo
      <3>3. LoggingIn(q)
        BY <2>2, <3>1, <3>2 DEF LoggingIn
      <3>4. QED
        BY <1>1, <3>1, <3>3 DEF Locals
    <2>3. QED
      BY <2>1, <2>2 DEF Locals
  <1>4. /\ Cardinality(Active) \in Nat /\ Cardinality(Active') \in Nat
        /\ Cardinality(Active') <= Cardinality(Active)
        /\ Cardinality(Unspent) \in Nat /\ Cardinality(Unspent') \in Nat
        /\ Cardinality(Unspent') <= Cardinality(Unspent)
    BY <1>1, StepCounts DEF GoTo
  <1>5. Budget'
    BY <1>1, <1>4, TypedControl DEF Budget
  <1>6. QED
    BY <1>2, <1>3, <1>5 DEF Control

LEMMA FinishControl ==
    ASSUME WellTyped, NEW r \in Requests, Finish(r), at[r] # "idle", attempts'.failures \in Nat,
           attempts'.failures <= attempts.failures + 1,
           UNCHANGED <<password, requests>>
    PROVE  Control'
  <1>1. at \in [Requests -> Place] /\ Locals /\ Budget
    BY TypedControl DEF Control
  <1>2. at' \in [Requests -> Place]
    BY <1>1 DEF Finish, Place
  <1>3. Locals'
    <2>1. DOMAIN job' = Requests /\ requests' = requests
      BY <1>1 DEF Locals, Finish
    <2>2. ASSUME NEW q \in Requests, LoggingIn(q)'
          PROVE  job'[q].no \in 1..requests' /\ job'[q].given \in Nat
      <3>1. at'[q] = IF q = r THEN "idle" ELSE at[q]
        BY <1>1 DEF Finish
      <3>2. q # r
        BY <2>2, <3>1 DEF LoggingIn
      <3>3. at'[q] = at[q] /\ job'[q] = job[q]
        BY <1>1, <3>1, <3>2 DEF Finish, Locals
      <3>4. LoggingIn(q)
        BY <2>2, <3>3 DEF LoggingIn
      <3>5. QED
        BY <1>1, <2>1, <3>3, <3>4 DEF Locals
    <2>3. QED
      BY <2>1, <2>2 DEF Locals
  <1>4. /\ Cardinality(Active) \in Nat /\ Cardinality(Active') \in Nat
        /\ Cardinality(Active') = Cardinality(Active) - 1
        /\ Cardinality(Unspent) \in Nat /\ Cardinality(Unspent') \in Nat
        /\ Cardinality(Unspent') <= Cardinality(Unspent)
    <2>1. "idle" \in Place
      BY DEF Place
    <2>2. at' = [at EXCEPT ![r] = "idle"]
      BY DEF Finish
    <2>3. QED
      BY <1>1, <2>1, <2>2, StepCounts
  <1>5. Budget'
    BY <1>1, <1>4, TypedControl DEF Budget
  <1>6. QED
    BY <1>2, <1>3, <1>5 DEF Control

LEMMA BeginControl ==
    ASSUME WellTyped, NEW r \in Requests, NEW x \in Place, NEW what, Begin(r, x, what),
           x \in {"password", "factor", "verify", "open"} \/ (x = "recover" /\ what.op = "verify")
               => what.no = requests + 1 /\ what.given \in Nat,
           UNCHANGED <<attempts, password>>
    PROVE  /\ Control' /\ requests' \in 0..MaxRequests /\ requests' = requests + 1
           /\ mishaps' \subseteq Faults /\ count' \in 0..MaxMishaps
  <1>1. at \in [Requests -> Place] /\ Locals /\ Budget
    BY TypedControl DEF Control
  <1>2. at' \in [Requests -> Place]
    BY <1>1 DEF Begin
  <1>3. requests' \in 0..MaxRequests /\ requests' = requests + 1 /\ requests \in Nat
    BY NatConstants DEF Begin, WellTyped, TypeOK
  <1>4. Locals'
    <2>1. DOMAIN job' = Requests
      BY <1>1 DEF Locals, Begin
    <2>2. ASSUME NEW q \in Requests, LoggingIn(q)'
          PROVE  job'[q].no \in 1..requests' /\ job'[q].given \in Nat
      <3>1. at'[q] = (IF q = r THEN x ELSE at[q]) /\ job'[q] = (IF q = r THEN what ELSE job[q])
        BY <1>1 DEF Begin, Locals
      <3>2. CASE q = r
        BY <1>3, <2>2, <3>1, <3>2 DEF LoggingIn
      <3>3. CASE q # r
        BY <1>1, <1>3, <2>2, <3>1, <3>3 DEF LoggingIn, Locals
      <3>4. QED
        BY <3>2, <3>3
    <2>3. QED
      BY <2>1, <2>2 DEF Locals
  <1>5. /\ Cardinality(Active) \in Nat /\ Cardinality(Active') \in Nat
        /\ Cardinality(Active') <= Cardinality(Active) + 1
        /\ Cardinality(Unspent) \in Nat /\ Cardinality(Unspent') \in Nat
        /\ Cardinality(Unspent') <= Cardinality(Unspent) + 1
    BY <1>1, StepCounts DEF Begin
  <1>6. Budget'
    BY <1>1, <1>3, <1>5, TypedControl DEF Budget
  <1>7. mishaps' \subseteq Faults /\ count' \in 0..MaxMishaps
    BY NatConstants DEF Begin, Mishap, past, WellTyped, TypeOK
  <1>8. QED
    BY <1>2, <1>3, <1>4, <1>6, <1>7 DEF Control

\* What TypeOK says of everything else; Budget then bounds the numbers.
Data ==
    /\ now \in 1..MaxTime /\ password \in Nat \ {0}
    /\ account \in [enabled : BOOLEAN, secret : 0..secrets, codes : SUBSET (1..printed)]
    /\ sessions \subseteq Session /\ \A s \in sessions : s.seen <= now /\ s.no \in 1..requests
    /\ pending \subseteq [no : 1..MaxRequests, given : Nat, until : Nat]
    /\ attempts \in [failures : Nat, until : Nat, blocked : Nat]
    /\ mishaps \subseteq Faults /\ count \in 0..MaxMishaps /\ requests \in 0..MaxRequests
    /\ secrets \in Nat /\ printed \in Nat

LEMMA TypedData == WellTyped => Data
  <1> SUFFICES ASSUME WellTyped PROVE Data
    OBVIOUS
  <1>1. password \in Nat \ {0}
    BY NatConstants DEF WellTyped, TypeOK
  <1>2. attempts \in [failures : Nat, until : Nat, blocked : Nat]
    BY NatConstants DEF WellTyped, TypeOK
  <1>3. QED
    BY <1>1, <1>2 DEF WellTyped, TypeOK, Data

LEMMA Assemble == Control' /\ Data' => WellTyped'
  <1> SUFFICES ASSUME Control', Data' PROVE WellTyped'
    OBVIOUS
  <1>1. Cardinality(Active)' \in Nat /\ Cardinality(Unspent)' \in Nat
    <2>1. Active' \in SUBSET Requests /\ Unspent' \in SUBSET Requests
      BY DEF Active, Unspent
    <2>2. QED
      BY <2>1, CountOne
  <1>2. password' \in Nat \ {0} /\ attempts'.failures \in Nat /\ requests' \in 0..MaxRequests
    BY DEF Data
  <1>3. /\ attempts'.failures + Cardinality(Active)' <= requests'
        /\ password' + Cardinality(Unspent)' <= requests' + 1
    BY DEF Control, Budget
  <1>4. attempts'.failures \in 0..MaxRequests /\ password' \in 1..(MaxRequests + 1)
    BY <1>1, <1>2, <1>3, NatConstants
  <1>5. attempts' \in [failures : 0..MaxRequests, until : Nat, blocked : Nat]
    BY <1>4 DEF Data
  <1>6. QED
    BY <1>4, <1>5 DEF WellTyped, TypeOK, Control, Data, Place

-----------------------------------------------------------------------------
(* Steps of a login. *)

LEMMA LoginTyped == ASSUME WellTyped, NEW r \in Requests, Login(r) PROVE WellTyped'
  <1>1. PICK given \in {password, password - 1} :
           Begin(r, "password", [op |-> "login", given |-> given, no |-> requests + 1])
    BY DEF Login
  <1>2. given \in Nat
    BY <1>1, TypedData DEF Data
  <1>3. /\ Control' /\ requests' \in 0..MaxRequests /\ requests' = requests + 1
        /\ mishaps' \subseteq Faults /\ count' \in 0..MaxMishaps
    BY <1>1, <1>2, BeginControl DEF Login, limiter, Place
  <1>4. Data'
    BY <1>3, TypedData, NatConstants DEF Data, Login, limiter, fresh
  <1>5. QED
    BY <1>3, <1>4, Assemble

LEMMA CheckPasswordTyped == ASSUME WellTyped, NEW r \in Requests, CheckPassword(r) PROVE WellTyped'
  <1>1. PICK x \in {"factor", "failed"} : GoTo(r, x)
    BY DEF CheckPassword
  <1>2. Control'
    BY <1>1, GoToControl DEF CheckPassword, LoggingIn, limiter, Place
  <1>3. Data'
    BY TypedData DEF Data, CheckPassword, limiter, fresh, past
  <1>4. QED
    BY <1>2, <1>3, Assemble

LEMMA SecondFactorTyped == ASSUME WellTyped, NEW r \in Requests, SecondFactor(r) PROVE WellTyped'
  <1>1. job[r].no \in 1..MaxRequests /\ job[r].given \in Nat
    BY NatConstants DEF SecondFactor, WellTyped, TypeOK, Locals, LoggingIn
  <1>2. Control'
    <2>1. CASE account.enabled
      BY <2>1, FinishControl, TypedControl DEF SecondFactor, limiter, past
    <2>2. CASE ~account.enabled
      BY <2>2, GoToControl DEF SecondFactor, LoggingIn, limiter, past, Place
    <2>3. QED
      BY <2>1, <2>2
  <1>3. pending' \subseteq [no : 1..MaxRequests, given : Nat, until : Nat]
    BY <1>1, TypedData, NatConstants DEF SecondFactor, Waiting, Data
  <1>4. Data'
    BY <1>3, TypedData DEF Data, SecondFactor, limiter, fresh, past
  <1>5. QED
    BY <1>2, <1>4, Assemble

LEMMA VerifyTyped == ASSUME WellTyped, NEW r \in Requests, Verify(r) PROVE WellTyped'
  <1>1. PICK e \in Waiting, code \in Typed :
           Begin(r, "verify", [op |-> "verify", given |-> e.given, no |-> requests + 1,
                               entry |-> e, code |-> code])
    BY DEF Verify
  <1>2. e.given \in Nat
    BY TypedData DEF Data, Waiting
  <1>3. /\ Control' /\ requests' \in 0..MaxRequests /\ requests' = requests + 1
        /\ mishaps' \subseteq Faults /\ count' \in 0..MaxMishaps
    BY <1>1, <1>2, BeginControl DEF Verify, limiter, Place
  <1>4. Data'
    BY <1>3, TypedData, NatConstants DEF Data, Verify, Waiting, limiter, fresh
  <1>5. QED
    BY <1>3, <1>4, Assemble

LEMMA CheckCodeTyped == ASSUME WellTyped, NEW r \in Requests, CheckCode(r) PROVE WellTyped'
  <1>1. PICK x \in {"failed", "open", "recover"} : GoTo(r, x)
    BY DEF CheckCode
  <1>2. Control'
    BY <1>1, GoToControl DEF CheckCode, LoggingIn, limiter, past, Place
  <1>3. Data'
    BY TypedData DEF Data, CheckCode, limiter, fresh, past
  <1>4. QED
    BY <1>2, <1>3, Assemble

LEMMA RefusedControl ==
    ASSUME WellTyped, NEW r \in Requests, at[r] = "recover", Refused(r),
           UNCHANGED <<attempts, password, requests>>
    PROVE  Control'
  <1>1. CASE job[r].op = "verify" /\ GoTo(r, "failed")
    BY <1>1, GoToControl DEF LoggingIn, Place
  <1>2. CASE Finish(r)
    BY <1>2, FinishControl, TypedControl
  <1>3. QED
    BY <1>1, <1>2 DEF Refused

LEMMA ConsumeTyped ==
    ASSUME WellTyped, NEW r \in Requests, ConsumeRecoveryCode(r)
    PROVE  WellTyped'
  <1>1. CASE Refused(r) /\ UNCHANGED account
    <2>1. Control'
      BY <1>1, RefusedControl DEF ConsumeRecoveryCode, limiter, past
    <2>2. Data'
      BY <1>1, TypedData DEF Data, ConsumeRecoveryCode, limiter, fresh, past
    <2>3. QED
      BY <2>1, <2>2, Assemble
  <1>2. CASE /\ account' = [account EXCEPT !.codes = @ \ {job[r].code.no}]
             /\ GoTo(r, IF job[r].op = "verify" THEN "open" ELSE "clear")
    <2>1. ASSUME job[r].op = "verify" PROVE Control'
      BY <1>2, <2>1, GoToControl DEF ConsumeRecoveryCode, LoggingIn, limiter, past, Place
    <2>2. ASSUME job[r].op # "verify" PROVE Control'
      BY <1>2, <2>2, GoToControl DEF ConsumeRecoveryCode, limiter, past, Place
    <2>3. account' \in [enabled : BOOLEAN, secret : 0..secrets, codes : SUBSET (1..printed)]
      <3>1. account \in [enabled : BOOLEAN, secret : 0..secrets, codes : SUBSET (1..printed)]
        BY TypedData DEF Data
      <3>2. account.codes \ {job[r].code.no} \in SUBSET (1..printed)
        BY <3>1
      <3>3. QED
        BY <1>2, <3>1, <3>2
    <2>4. Data'
      BY <2>3, TypedData DEF Data, ConsumeRecoveryCode, limiter, fresh, past
    <2>5. QED
      BY <2>1, <2>2, <2>4, Assemble
  <1>3. QED
    BY <1>1, <1>2 DEF ConsumeRecoveryCode, Accept

LEMMA CommitFailsTyped == ASSUME WellTyped, NEW r \in Requests, CommitFails(r) PROVE WellTyped'
  <1> UNCHANGED <<attempts, password, requests>>
    BY DEF CommitFails, limiter
  <1>1. GoTo(r, IF job[r].op = "verify" THEN "open" ELSE "clear")
    BY DEF CommitFails, Accept
  <1>2. ASSUME job[r].op = "verify" PROVE Control'
    BY <1>1, <1>2, GoToControl DEF CommitFails, LoggingIn, Place
  <1>3. ASSUME job[r].op # "verify" PROVE Control'
    BY <1>1, <1>3, GoToControl DEF CommitFails, Place
  <1>4. mishaps' \subseteq Faults /\ count' \in 0..MaxMishaps
    BY TypedData, NatConstants DEF CommitFails, Mishap, Data
  <1>5. Data'
    BY <1>4, TypedData DEF Data, CommitFails, limiter, fresh
  <1>6. QED
    BY <1>2, <1>3, <1>5, Assemble

LEMMA SuccessType == RecordSuccess => attempts' \in [failures : {0}, until : Nat, blocked : Nat]
  BY DEF RecordSuccess, NoAttempts

LEMMA OpenTyped == ASSUME WellTyped, NEW r \in Requests, Open(r) PROVE WellTyped'
  <1>1. job[r].no \in 1..requests /\ job[r].given \in Nat
    BY DEF Open, WellTyped, Locals, LoggingIn
  <1>2. attempts' \in [failures : {0}, until : Nat, blocked : Nat]
    BY SuccessType DEF Open
  <1>3. Control'
    BY <1>2, FinishControl, TypedControl DEF Open, past
  <1>4. [no |-> job[r].no, given |-> job[r].given, late |-> job[r].given # password,
         until |-> now + Life, seen |-> now, active |-> now] \in Session
    BY <1>1, TypedData, NatConstants DEF Data, Session
  <1>5. /\ sessions' \subseteq Session
        /\ \A s \in sessions' : s.seen <= now /\ s.no \in 1..requests
    <2>1. now <= now
      BY TypedData DEF Data
    <2>2. QED
      BY <1>1, <1>4, <2>1, TypedData DEF Open, Data
  <1>6. pending' \subseteq pending
    BY DEF Open, Closed
  <1>7. Data'
    BY <1>2, <1>5, <1>6, TypedData DEF Data, Open, fresh, past
  <1>8. QED
    BY <1>3, <1>7, Assemble

LEMMA OpenFailsTyped == ASSUME WellTyped, NEW r \in Requests, OpenFails(r) PROVE WellTyped'
  <1>1. attempts' \in [failures : {0}, until : Nat, blocked : Nat]
    BY SuccessType DEF OpenFails
  <1>2. Control'
    BY <1>1, FinishControl, TypedControl DEF OpenFails
  <1>3. pending' \subseteq pending /\ mishaps' \subseteq Faults /\ count' \in 0..MaxMishaps
    BY TypedData, NatConstants DEF OpenFails, Closed, Mishap, Data
  <1>4. Data'
    BY <1>1, <1>3, TypedData DEF Data, OpenFails, fresh
  <1>5. QED
    BY <1>2, <1>4, Assemble

LEMMA LookupFailsTyped == ASSUME WellTyped, NEW r \in Requests, LookupFails(r) PROVE WellTyped'
  <1> UNCHANGED <<attempts, password, requests>>
    BY DEF LookupFails, limiter
  <1>1. ASSUME at[r] = "factor" /\ GoTo(r, "open") PROVE Control'
    BY <1>1, GoToControl DEF LoggingIn, Place
  <1>2. ASSUME at[r] = "password" /\ GoTo(r, "failed") PROVE Control'
    BY <1>2, GoToControl DEF Place
  <1>3. ASSUME at[r] = "recover" /\ Refused(r) PROVE Control'
    BY <1>3, RefusedControl
  <1>4. mishaps' \subseteq Faults /\ count' \in 0..MaxMishaps
    BY TypedData, NatConstants DEF LookupFails, Mishap, Data
  <1>5. Data'
    BY <1>4, TypedData DEF Data, LookupFails, limiter, fresh
  <1>6. Control'
    BY <1>1, <1>2, <1>3 DEF LookupFails
  <1>7. QED
    BY <1>5, <1>6, Assemble

LEMMA RecordFailureTyped == ASSUME WellTyped, NEW r \in Requests, RecordFailure(r) PROVE WellTyped'
  <1>1. /\ attempts' \in [failures : Nat, until : Nat, blocked : Nat]
        /\ attempts'.failures <= attempts.failures + 1
    <2> DEFINE kept == IF now > attempts.until
                       THEN [attempts EXCEPT !.failures = 1, !.until = now + Window]
                       ELSE [attempts EXCEPT !.failures = @ + 1]
    <2>1. attempts \in [failures : Nat, until : Nat, blocked : Nat] /\ now \in Nat
      BY TypedData, NatConstants DEF Data
    <2>2. /\ kept \in [failures : Nat, until : Nat, blocked : Nat]
          /\ kept.failures <= attempts.failures + 1
      <3>1. now + Window \in Nat /\ attempts.failures + 1 \in Nat /\ 1 <= attempts.failures + 1
        BY <2>1, NatConstants
      <3>2. CASE now > attempts.until
        BY <2>1, <3>1, <3>2
      <3>3. CASE ~(now > attempts.until)
        BY <2>1, <3>1, <3>3
      <3>4. QED
        BY <3>2, <3>3
    <2>3. attempts' = IF kept.failures >= MaxFailures
                      THEN [kept EXCEPT !.blocked = now + Block] ELSE kept
      BY DEF RecordFailure, Counted
    <2> HIDE DEF kept
    <2>4. now + Block \in Nat
      BY <2>1, NatConstants
    <2>5. /\ [kept EXCEPT !.blocked = now + Block] \in [failures : Nat, until : Nat, blocked : Nat]
          /\ [kept EXCEPT !.blocked = now + Block].failures = kept.failures
      BY <2>2, <2>4
    <2>6. QED
      BY <2>2, <2>3, <2>5
  <1>2. Control'
    BY <1>1, FinishControl DEF RecordFailure, past
  <1>3. Data'
    BY <1>1, TypedData DEF Data, RecordFailure, fresh, past
  <1>4. QED
    BY <1>2, <1>3, Assemble

-----------------------------------------------------------------------------
(* Steps of a session. *)

\* A step that leaves the control and its budget alone.
LEMMA IdleControl ==
    ASSUME WellTyped, UNCHANGED <<at, job, attempts, password>>,
           requests' \in Nat, requests <= requests'
    PROVE  Control'
  <1>1. Control /\ requests \in Nat /\ attempts.failures \in Nat /\ password \in Nat
    BY TypedControl
  <1>2. Locals'
    <2>1. ASSUME NEW q \in Requests, LoggingIn(q)' PROVE LoggingIn(q)
      BY <2>1 DEF LoggingIn
    <2>2. QED
      BY <1>1, <2>1 DEF Control, Locals
  <1>3. Active' = Active /\ Unspent' = Unspent
    BY DEF Active, Unspent
  <1>4. Cardinality(Active) \in Nat /\ Cardinality(Unspent) \in Nat
    <2>1. Active \in SUBSET Requests /\ Unspent \in SUBSET Requests
      BY DEF Active, Unspent
    <2>2. QED
      BY <2>1, CountOne
  <1>5. Budget'
    BY <1>1, <1>3, <1>4 DEF Control, Budget
  <1>6. QED
    BY <1>1, <1>2, <1>5 DEF Control

LEMMA TouchedType ==
    ASSUME WellTyped, NEW s \in sessions
    PROVE  Touched(s) \subseteq Session /\ \A x \in Touched(s) : x.seen <= now /\ x.no \in 1..requests
  <1>1. s \in Session /\ now \in Nat /\ now <= now /\ s.no \in 1..requests
    BY TypedData, NatConstants DEF Data
  <1>2. /\ [s EXCEPT !.seen = now, !.active = now] \in Session
        /\ [s EXCEPT !.seen = now, !.active = now].seen = now
        /\ [s EXCEPT !.seen = now, !.active = now].no = s.no
    BY <1>1 DEF Session
  <1>3. QED
    BY <1>1, <1>2, TypedData DEF Touched, Data

LEMMA UseTyped == ASSUME WellTyped, NEW s \in sessions, Use(s) PROVE WellTyped'
  <1>1. Control'
    BY IdleControl, TypedControl DEF Use, procs, limiter
  <1>2. Data'
    BY TouchedType, TypedData DEF Data, Use, Authenticated, limiter, fresh, past
  <1>3. QED
    BY <1>1, <1>2, Assemble

LEMMA PollTyped == ASSUME WellTyped, NEW s \in sessions, Poll(s) PROVE WellTyped'
  <1>1. Control'
    BY IdleControl, TypedControl DEF Poll, procs, limiter
  <1>2. Data'
    BY TypedData DEF Data, Poll, limiter, fresh, past
  <1>3. QED
    BY <1>1, <1>2, Assemble

\* A logout and a revocation are requests of a single step.
LEMMA NextRequest ==
    ASSUME WellTyped, requests < MaxRequests, requests' = requests + 1
    PROVE  /\ requests' \in 0..MaxRequests /\ requests <= requests'
           /\ \A n : n \in 1..requests => n \in 1..requests'
  BY TypedControl, NatConstants

LEMMA LogoutTyped == ASSUME WellTyped, Logout PROVE WellTyped'
  <1>1. Control'
    BY IdleControl, NextRequest, NatConstants DEF Logout, procs, limiter
  <1>2. Data'
    BY NextRequest, TypedData DEF Data, Logout, limiter, fresh, past
  <1>3. QED
    BY <1>1, <1>2, Assemble

LEMMA RevokeTyped == ASSUME WellTyped, Revoke PROVE WellTyped'
  <1>1. PICK s \in sessions : sessions' \subseteq Touched(s)
    BY DEF Revoke
  <1>2. Control'
    BY IdleControl, NextRequest, NatConstants DEF Revoke, procs, limiter
  <1>3. sessions' \subseteq Session /\ \A x \in sessions' : x.seen <= now /\ x.no \in 1..requests'
    BY <1>1, TouchedType, NextRequest DEF Revoke
  <1>4. Data'
    BY <1>3, NextRequest, TypedData DEF Data, Revoke, limiter, fresh, past
  <1>5. QED
    BY <1>2, <1>4, Assemble

\* Whatever a request of a session does first, if it is not a login.
LEMMA EnterTyped ==
    ASSUME WellTyped, NEW r \in Requests, NEW s \in sessions, NEW x \in Place, NEW what,
           Enter(r, s, x, what),
           x \notin {"password", "factor", "verify", "open"},
           x = "recover" => what.op # "verify"
    PROVE  WellTyped'
  <1>1. Begin(r, x, what) /\ UNCHANGED <<attempts, password>>
    BY DEF Enter, limiter
  <1>2. /\ Control' /\ requests' \in 0..MaxRequests /\ requests' = requests + 1
        /\ mishaps' \subseteq Faults /\ count' \in 0..MaxMishaps
    BY <1>1, BeginControl
  <1>3. requests < MaxRequests
    BY <1>1 DEF Begin
  <1>4. sessions' \subseteq Session /\ \A y \in sessions' : y.seen <= now /\ y.no \in 1..requests'
    BY <1>2, <1>3, TouchedType, NextRequest DEF Enter
  <1>5. Data'
    BY <1>2, <1>4, TypedData DEF Data, Enter, limiter, fresh
  <1>6. QED
    BY <1>2, <1>5, Assemble

LEMMA PageTyped == ASSUME WellTyped, NEW s \in sessions, Page(s) PROVE WellTyped'
  <1>1. ASSUME NEW r \in Requests, BeginEnrolment(r, s) PROVE WellTyped'
    BY <1>1, EnterTyped DEF BeginEnrolment, Place
  <1>2. ASSUME NEW r \in Requests, Confirm(r, s) PROVE WellTyped'
    BY <1>2, EnterTyped DEF Confirm, Place
  <1>3. ASSUME NEW r \in Requests, Disable(r, s) PROVE WellTyped'
    <2>1. PICK code \in Typed, x \in {"clear", "recover"} :
             Enter(r, s, x, [op |-> "disable", code |-> code, no |-> requests + 1])
      BY <1>3 DEF Disable
    <2>2. QED
      BY <2>1, EnterTyped DEF Place
  <1>4. ASSUME NEW r \in Requests, Regenerate(r, s) PROVE WellTyped'
    BY <1>4, EnterTyped DEF Regenerate, Place
  <1>5. ASSUME NEW r \in Requests, ChangePassword(r, s) PROVE WellTyped'
    BY <1>5, EnterTyped DEF ChangePassword, Place
  <1>6. QED
    BY <1>1, <1>2, <1>3, <1>4, <1>5, UseTyped, PollTyped DEF Page

-----------------------------------------------------------------------------
(* Steps that write the account, and the others. *)

LEMMA ResetTyped ==
    ASSUME WellTyped, NEW r \in Requests, ResetPassword(r) \/ ResetTOTP(r)
    PROVE  WellTyped'
  <1>1. PICK x \in {"set", "clear"} : \E what : Begin(r, x, what)
    BY DEF ResetPassword, ResetTOTP
  <1>2. UNCHANGED <<now, password, account, sessions, pending, attempts, secrets, printed>>
    BY DEF ResetPassword, ResetTOTP, limiter, fresh
  <1>3. /\ Control' /\ requests' \in 0..MaxRequests /\ requests' = requests + 1
        /\ mishaps' \subseteq Faults /\ count' \in 0..MaxMishaps
    BY <1>1, <1>2, BeginControl DEF Place
  <1>4. Data'
    BY <1>2, <1>3, TypedData, NatConstants DEF Data
  <1>5. QED
    BY <1>3, <1>4, Assemble

LEMMA NewCodesType == ASSUME WellTyped PROVE NewCodes \subseteq 1..(printed + Codes)
  BY TypedData, NatConstants DEF NewCodes, Data

LEMMA StoreTyped ==
    ASSUME WellTyped, NEW r \in Requests, StoreSecret(r) \/ Enable(r) \/ Clear(r) \/ StoreCodes(r)
    PROVE  WellTyped'
  <1>1. /\ UNCHANGED <<now, password, sessions, pending, attempts, mishaps, count, requests>>
        /\ at[r] # "idle" /\ Finish(r)
    BY DEF StoreSecret, Enable, Clear, StoreCodes, limiter, past
  <1>2. Control'
    BY <1>1, FinishControl, TypedControl
  <1>3. /\ account \in [enabled : BOOLEAN, secret : 0..secrets, codes : SUBSET (1..printed)]
        /\ secrets \in Nat /\ printed \in Nat /\ printed + Codes \in Nat
    BY TypedData, NatConstants DEF Data
  <1>4. /\ account' \in [enabled : BOOLEAN, secret : 0..secrets', codes : SUBSET (1..printed')]
        /\ secrets' \in Nat /\ printed' \in Nat
    <2>1. CASE StoreSecret(r)
      BY <1>3, <2>1 DEF StoreSecret
    <2>2. CASE Enable(r)
      BY <1>3, <2>2, NewCodesType DEF Enable
    <2>3. CASE Clear(r)
      BY <1>3, <2>3 DEF Clear, NoFactor, fresh
    <2>4. CASE StoreCodes(r)
      BY <1>3, <2>4, NewCodesType DEF StoreCodes
    <2>5. QED
      BY <2>1, <2>2, <2>3, <2>4
  <1>5. Data'
    BY <1>1, <1>4, TypedData DEF Data
  <1>6. QED
    BY <1>2, <1>5, Assemble

\* The request that sets the password is spent by that.
LEMMA SetPasswordTyped == ASSUME WellTyped, NEW r \in Requests, SetPassword(r) PROVE WellTyped'
  <1>1. /\ at \in [Requests -> Place] /\ Locals /\ Budget
        /\ attempts.failures \in Nat /\ password \in Nat /\ requests \in Nat
    BY TypedControl DEF Control
  <1>2. /\ at[r] = "set" /\ at' = [at EXCEPT ![r] = "sessions"] /\ "sessions" \in Place
        /\ UNCHANGED <<job, attempts, requests>> /\ password' = password + 1
    BY DEF SetPassword, GoTo, limiter, Place
  <1>3. at' \in [Requests -> Place]
    BY <1>1, <1>2
  <1>4. Locals'
    <2>1. ASSUME NEW q \in Requests, LoggingIn(q)' PROVE LoggingIn(q)
      BY <1>1, <1>2, <2>1 DEF LoggingIn
    <2>2. QED
      BY <1>1, <1>2, <2>1 DEF Locals
  <1>5. /\ Cardinality(Active) \in Nat /\ Cardinality(Active') \in Nat
        /\ Cardinality(Active') <= Cardinality(Active)
        /\ Cardinality(Unspent) \in Nat /\ Cardinality(Unspent') \in Nat
        /\ Cardinality(Unspent') = Cardinality(Unspent) - 1
    BY <1>1, <1>2, StepCounts
  <1>6. Budget'
    BY <1>1, <1>2, <1>5 DEF Budget
  <1>7. Data'
    BY TypedData DEF Data, SetPassword, limiter, fresh, past
  <1>8. QED
    BY <1>3, <1>4, <1>6, <1>7, Assemble DEF Control

LEMMA DropSessionsTyped == ASSUME WellTyped, NEW r \in Requests, DropSessions(r) PROVE WellTyped'
  <1>1. Control'
    BY FinishControl, TypedControl DEF DropSessions, limiter, past
  <1>2. Data'
    BY TypedData DEF Data, DropSessions, limiter, fresh, past
  <1>3. QED
    BY <1>1, <1>2, Assemble

LEMMA StatementFailsTyped == ASSUME WellTyped, NEW r \in Requests, StatementFails(r) PROVE WellTyped'
  <1>1. Control'
    BY FinishControl, TypedControl DEF StatementFails, limiter
  <1>2. mishaps' \subseteq Faults /\ count' \in 0..MaxMishaps
    BY TypedData, NatConstants DEF StatementFails, Mishap, Data
  <1>3. Data'
    BY <1>2, TypedData DEF Data, StatementFails, limiter, fresh
  <1>4. QED
    BY <1>1, <1>3, Assemble

LEMMA RestartTyped == ASSUME WellTyped, PanelRestarts PROVE WellTyped'
  <1>1. attempts' \in [failures : {0}, until : Nat, blocked : Nat]
    BY SuccessType DEF PanelRestarts
  <1>2. at' \in [Requests -> Place] /\ \A r \in Requests : at'[r] = "idle"
    BY DEF PanelRestarts, Place
  <1>3. Locals'
    BY <1>2 DEF PanelRestarts, Locals, LoggingIn
  <1>4. Active' = {} /\ Unspent' = {}
    BY <1>2 DEF Active, Unspent
  <1>5. Cardinality(Active') = 0 /\ Cardinality(Unspent') = 0
    BY <1>4, FS_EmptySet
  <1>6. Cardinality(Unspent) \in Nat
    <2>1. Unspent \in SUBSET Requests
      BY DEF Unspent
    <2>2. QED
      BY <2>1, CountOne
  <1>7. Budget'
    BY <1>1, <1>5, <1>6, TypedControl DEF PanelRestarts, Control, Budget
  <1>8. mishaps' \subseteq Faults /\ count' \in 0..MaxMishaps
    BY TypedData, NatConstants DEF PanelRestarts, Mishap, Data
  <1>9. Data'
    BY <1>1, <1>8, TypedData DEF Data, PanelRestarts, fresh
  <1>10. QED
    BY <1>2, <1>3, <1>7, <1>9, Assemble DEF Control

LEMMA TickTyped == ASSUME WellTyped, Tick PROVE WellTyped'
  <1>1. Control'
    BY IdleControl, TypedControl DEF Tick, procs, limiter
  <1>2. now' \in 1..MaxTime /\ now \in Nat /\ now' = now + 1
    BY TypedData, NatConstants DEF Data, Tick
  <1>3. \A s \in sessions : s.seen <= now'
    <2>1. \A s \in sessions : s.seen \in Nat /\ s.seen <= now
      BY TypedData DEF Data, Session
    <2>2. QED
      BY <1>2, <2>1
  <1>4. Data'
    BY <1>2, <1>3, TypedData DEF Data, Tick, limiter, fresh, past
  <1>5. QED
    BY <1>1, <1>4, Assemble

LEMMA StepTyped == WellTyped /\ [Next]_vars => WellTyped'
  <1> SUFFICES ASSUME WellTyped, [Next]_vars PROVE WellTyped'
    OBVIOUS
  <1>1. ASSUME NEW r \in Requests, Anonymous(r) PROVE WellTyped'
    BY <1>1, LoginTyped, CheckPasswordTyped, SecondFactorTyped, VerifyTyped, CheckCodeTyped,
       ConsumeTyped, CommitFailsTyped, OpenTyped, OpenFailsTyped, LookupFailsTyped, RecordFailureTyped, ResetTyped
       DEF Anonymous
  <1>2. ASSUME NEW r \in Requests, Write(r) PROVE WellTyped'
    BY <1>2, StoreTyped, SetPasswordTyped, DropSessionsTyped, StatementFailsTyped DEF Write
  <1>3. CASE UNCHANGED vars
    <2>1. Control'
      BY <1>3, IdleControl, TypedControl DEF vars, procs, limiter
    <2>2. Data'
      BY <1>3, TypedData DEF Data, vars, limiter, fresh, past
    <2>3. QED
      BY <2>1, <2>2, Assemble
  <1>4. QED
    BY <1>1, <1>2, <1>3, PageTyped, LogoutTyped, RevokeTyped, RestartTyped, TickTyped DEF Next

LEMMA AlwaysTyped == Spec => []WellTyped
  BY InitTyped, StepTyped, PTL DEF Spec

\* However requests overlap, fail and are cut off by a restart, every variable keeps its type;
\* in particular each failed attempt and each new password is of one request.
THEOREM TypeCorrect == Spec => []TypeOK
  <1>1. WellTyped => TypeOK
    BY DEF WellTyped
  <1>2. QED
    BY <1>1, AlwaysTyped, PTL

-----------------------------------------------------------------------------
(* Recovery codes. *)

WritesAccount(r) ==
    \/ StoreSecret(r) \/ ConsumeRecoveryCode(r) \/ CommitFails(r) \/ Enable(r) \/ Clear(r)
    \/ StoreCodes(r)

\* Nothing else writes the columns of the second factor, or what is remembered of them.
LEMMA AccountFrame ==
    ASSUME [Next]_vars, ~ \E r \in Requests : WritesAccount(r)
    PROVE  UNCHANGED <<account, printed, confirmed, shown, used, unspent>>
  <1>1. CASE UNCHANGED vars
    BY <1>1 DEF vars, fresh, enrolment
  <1>2. ASSUME NEW r \in Requests, Anonymous(r) \/ Write(r)
        PROVE  UNCHANGED <<account, printed, confirmed, shown, used, unspent>>
    BY <1>2 DEF Anonymous, Write, WritesAccount, Login, CheckPassword, SecondFactor, Verify,
       CheckCode, Open, OpenFails, LookupFails, RecordFailure, ResetPassword, ResetTOTP,
       SetPassword, DropSessions, StatementFails, fresh, enrolment
  <1>3. ASSUME NEW s \in sessions, Page(s)
        PROVE  UNCHANGED <<account, printed, confirmed, shown, used, unspent>>
    BY <1>3 DEF Page, Use, Poll, BeginEnrolment, Confirm, Disable, Regenerate, ChangePassword,
       Enter, fresh, enrolment
  <1>4. ASSUME Logout \/ Revoke \/ PanelRestarts \/ Tick
        PROVE  UNCHANGED <<account, printed, confirmed, shown, used, unspent>>
    BY <1>4 DEF Logout, Revoke, PanelRestarts, Tick, fresh, enrolment
  <1>5. QED
    BY <1>1, <1>2, <1>3, <1>4 DEF Next

\* A code that has been accepted is on no list any more, and on none to come, unless it could
\* not be taken off the list.
CodesSpent ==
    /\ \A u \in used : u[1] \in 1..printed /\ (u[1] \notin account.codes \/ u[1] \in unspent)
    /\ CodeOnce

LEMMA CodesSpentStep == WellTyped /\ CodesSpent /\ [Next]_vars => CodesSpent'
  <1> SUFFICES ASSUME WellTyped, CodesSpent, [Next]_vars PROVE CodesSpent'
    OBVIOUS
  <1>1. /\ account \in [enabled : BOOLEAN, secret : 0..secrets, codes : SUBSET (1..printed)]
        /\ printed \in Nat /\ printed + Codes \in Nat /\ Codes \in Nat /\ Codes > 0
    BY TypedData, NatConstants DEF Data
  <1>2. CASE UNCHANGED <<account, printed, used, unspent>>
    BY <1>2 DEF CodesSpent, CodeOnce
  <1>3. ASSUME NEW r \in Requests, ConsumeRecoveryCode(r) PROVE CodesSpent'
    <2>1. CASE UNCHANGED <<account, used>>
      BY <1>2, <1>3, <2>1 DEF ConsumeRecoveryCode, fresh
    <2>2. CASE /\ job[r].code.no \in account.codes
               /\ account' = [account EXCEPT !.codes = @ \ {job[r].code.no}]
               /\ used' = used \cup {<<job[r].code.no, job[r].no>>}
      <3> DEFINE c == job[r].code.no
                 u == <<c, job[r].no>>
      <3>1. printed' = printed /\ account'.codes = account.codes \ {c} /\ unspent' = unspent
        BY <1>1, <1>3, <2>2 DEF ConsumeRecoveryCode, fresh
      <3>2. c \in 1..printed /\ u[1] = c
        BY <1>1, <2>2
      <3>3. \A v \in used : v[1] # c \/ v[1] \in unspent
        BY <2>2 DEF CodesSpent
      <3>4. used' = used \cup {u}
        BY <2>2
      <3> HIDE DEF c, u
      <3>5. \A v \in used' : v[1] \in 1..printed' /\ (v[1] \notin account'.codes \/ v[1] \in unspent')
        BY <3>1, <3>2, <3>4 DEF CodesSpent
      <3>6. CodeOnce'
        BY <3>1, <3>2, <3>3, <3>4 DEF CodesSpent, CodeOnce
      <3>7. QED
        BY <3>5, <3>6 DEF CodesSpent
    <2>3. QED
      BY <1>3, <2>1, <2>2 DEF ConsumeRecoveryCode, Listed, Accept
  <1>4. ASSUME account'.codes = {}, UNCHANGED <<used, unspent, printed>> PROVE CodesSpent'
    BY <1>4 DEF CodesSpent, CodeOnce
  <1>5. ASSUME NEW r \in Requests, StoreSecret(r) \/ Clear(r) PROVE CodesSpent'
    BY <1>4, <1>5 DEF StoreSecret, Clear, NoFactor, fresh, enrolment
  <1>6. ASSUME account'.codes = NewCodes, used' = used, unspent' = unspent, printed' = printed + Codes
        PROVE  CodesSpent'
    <2>1. \A n \in NewCodes : n > printed
      BY <1>1 DEF NewCodes
    <2>2. \A n \in 1..printed : n \in 1..printed' /\ ~(n > printed)
      BY <1>1, <1>6
    <2>3. QED
      BY <1>6, <2>1, <2>2 DEF CodesSpent, CodeOnce
  <1>7. ASSUME NEW r \in Requests, Enable(r) \/ StoreCodes(r) PROVE CodesSpent'
    <2>1. account'.codes = NewCodes /\ used' = used /\ unspent' = unspent /\ printed' = printed + Codes
      BY <1>1, <1>7 DEF Enable, StoreCodes
    <2>2. QED
      BY <1>6, <2>1
  <1>8. ASSUME NEW r \in Requests, CommitFails(r) PROVE CodesSpent'
    <2> DEFINE c == job[r].code.no
               u == <<c, job[r].no>>
    <2>1. /\ used' = used \cup {u} /\ unspent' = unspent \cup {c} /\ c \in account.codes
          /\ UNCHANGED <<account, printed>>
      BY <1>8 DEF CommitFails, Listed, Accept, fresh
    <2>2. c \in 1..printed /\ u[1] = c
      BY <1>1, <2>1
    <2> HIDE DEF c, u
    <2>3. \A v \in used' : v[1] \in 1..printed' /\ (v[1] \notin account'.codes \/ v[1] \in unspent')
      BY <2>1, <2>2 DEF CodesSpent
    <2>4. CodeOnce'
      BY <2>1, <2>2 DEF CodesSpent, CodeOnce
    <2>5. QED
      BY <2>3, <2>4 DEF CodesSpent
  <1>9. QED
    BY <1>2, <1>3, <1>5, <1>7, <1>8, AccountFrame DEF WritesAccount

\* SECURITY.md:55: of any number of requests, one at most has been let in, or has switched the
\* second factor off, by the same recovery code, if the code could be taken off the list.
THEOREM CodeOnceHolds == Spec => []CodeOnce
  <1>1. Init => CodesSpent
    BY DEF Init, CodesSpent, CodeOnce
  <1>2. CodesSpent => CodeOnce
    BY DEF CodesSpent
  <1>3. QED
    BY <1>1, <1>2, CodesSpentStep, AlwaysTyped, PTL DEF Spec

-----------------------------------------------------------------------------
(* Sessions. *)

\* A session is served before it is touched: what it was seen at is when it was last active.
SessionsInForce ==
    /\ \A s \in sessions : s.seen <= s.active
    /\ SessionsEnd

\* Who may leave the place where every session is dropped without doing so is remembered.
LEMMA LeavesSessions ==
    ASSUME WellTyped, [Next]_vars, NEW r \in Requests, at[r] = "sessions"
    PROVE  at'[r] = "sessions" \/ sessions' = {} \/ mishaps' \cap {"database", "restart"} # {}
  <1>1. at \in [Requests -> Place]
    BY TypedControl DEF Control
  <1>2. ASSUME NEW q \in Requests, NEW x, at' = [at EXCEPT ![q] = x], at[q] # "sessions"
        PROVE  at'[r] = "sessions"
    BY <1>1, <1>2
  <1>3. ASSUME NEW q \in Requests, Anonymous(q)
        PROVE  at'[r] = "sessions"
    BY <1>2, <1>3 DEF Anonymous, Login, CheckPassword, SecondFactor, Verify, CheckCode,
       ConsumeRecoveryCode, CommitFails, Accept, Refused, Open, OpenFails, LookupFails, RecordFailure, ResetPassword,
       ResetTOTP, Begin, GoTo, Finish
  <1>4. ASSUME NEW q \in Requests, Write(q)
        PROVE  at'[r] = "sessions" \/ sessions' = {} \/ mishaps' \cap {"database", "restart"} # {}
    <2>1. CASE StatementFails(q)
      BY <2>1 DEF StatementFails, Mishap
    <2>2. CASE DropSessions(q)
      BY <2>2 DEF DropSessions
    <2>3. CASE StoreSecret(q) \/ Enable(q) \/ Clear(q) \/ StoreCodes(q) \/ SetPassword(q)
      BY <1>2, <2>3 DEF StoreSecret, Enable, Clear, StoreCodes, SetPassword, GoTo, Finish
    <2>4. QED
      BY <1>4, <2>1, <2>2, <2>3 DEF Write
  <1>5. ASSUME NEW s \in sessions, Page(s)
        PROVE  at'[r] = "sessions"
    BY <1>2, <1>5 DEF Page, Use, Poll, procs, BeginEnrolment, Confirm, Disable, Regenerate,
       ChangePassword, Enter, Begin
  <1>6. CASE PanelRestarts
    BY <1>6 DEF PanelRestarts, Mishap
  <1>7. ASSUME Logout \/ Revoke \/ Tick \/ UNCHANGED vars
        PROVE  at'[r] = "sessions"
    BY <1>7 DEF Logout, Revoke, Tick, vars, procs
  <1>8. QED
    BY <1>3, <1>4, <1>5, <1>6, <1>7 DEF Next

\* What has gone wrong is not forgotten.
LEMMA MishapsKept == [Next]_vars => mishaps \subseteq mishaps'
  <1> SUFFICES ASSUME [Next]_vars PROVE mishaps \subseteq mishaps'
    OBVIOUS
  <1>1. ASSUME NEW r \in Requests, Anonymous(r) \/ Write(r)
        PROVE  mishaps \subseteq mishaps'
    BY <1>1 DEF Anonymous, Write, Login, CheckPassword, SecondFactor, Verify, CheckCode,
       ConsumeRecoveryCode, CommitFails, Open, OpenFails, LookupFails, RecordFailure, ResetPassword, ResetTOTP,
       StoreSecret, Enable, Clear, StoreCodes, SetPassword, DropSessions, StatementFails, Begin,
       Mishap, past
  <1>2. ASSUME NEW s \in sessions, Page(s)
        PROVE  mishaps \subseteq mishaps'
    BY <1>2 DEF Page, Use, Poll, BeginEnrolment, Confirm, Disable, Regenerate, ChangePassword,
       Enter, Begin, Mishap, past
  <1>3. ASSUME Logout \/ Revoke \/ PanelRestarts \/ Tick \/ UNCHANGED vars
        PROVE  mishaps \subseteq mishaps'
    BY <1>3 DEF Logout, Revoke, PanelRestarts, Tick, vars, Mishap, past
  <1>4. QED
    BY <1>1, <1>2, <1>3 DEF Next

\* A step that keeps the password, and opens only sessions that say when they are late.
LEMMA SessionsKept ==
    ASSUME WellTyped, SessionsInForce, [Next]_vars, password' = password,
           \A s \in sessions' :
              /\ s.seen <= s.active
              /\ \/ s.given = password \/ s.late
                 \/ \E o \in sessions : o.given = s.given /\ o.late = s.late,
           ~overstayed'
    PROVE  SessionsInForce'
  <1>1. ASSUME \A r \in Requests : at'[r] # "sessions", mishaps' \cap {"database", "restart"} = {},
               NEW s \in sessions'
        PROVE  s.given = password' \/ s.late
    <2>1. mishaps \cap {"database", "restart"} = {}
      BY <1>1, MishapsKept
    <2>2. \A r \in Requests : at[r] # "sessions"
      BY <1>1, LeavesSessions
    <2>3. \A o \in sessions : o.given = password \/ o.late
      BY <2>1, <2>2 DEF SessionsInForce, SessionsEnd
    <2>4. QED
      BY <2>3
  <1>2. QED
    BY <1>1 DEF SessionsInForce, SessionsEnd

LEMMA TouchedInForce ==
    ASSUME WellTyped, SessionsInForce, [Next]_vars, password' = password,
           NEW s \in sessions, Authenticated(s), sessions' \subseteq Touched(s)
    PROVE  SessionsInForce'
  <1>1. s \in Session /\ now \in Nat /\ now <= now
    BY TypedData, NatConstants DEF Data
  <1>2. /\ [s EXCEPT !.seen = now, !.active = now].seen = now
        /\ [s EXCEPT !.seen = now, !.active = now].active = now
        /\ [s EXCEPT !.seen = now, !.active = now].given = s.given
        /\ [s EXCEPT !.seen = now, !.active = now].late = s.late
    BY <1>1 DEF Session
  <1>3. ~overstayed'
    <2>1. s.seen <= s.active /\ ~overstayed
      BY DEF SessionsInForce, SessionsEnd
    <2>2. s.until \in Nat /\ s.seen \in Nat /\ s.active \in Nat
      BY <1>1 DEF Session
    <2>3. ~Overdue(s)
      BY <1>1, <2>1, <2>2, NatConstants DEF Authenticated, Alive, Overdue
    <2>4. QED
      BY <2>1, <2>3 DEF Authenticated
  <1>4. \A x \in sessions' :
           /\ x.seen <= x.active
           /\ \E o \in sessions : o.given = x.given /\ o.late = x.late
    BY <1>1, <1>2 DEF Touched, SessionsInForce
  <1>5. QED
    BY <1>3, <1>4, SessionsKept

LEMMA SessionsInForceStep == WellTyped /\ SessionsInForce /\ [Next]_vars => SessionsInForce'
  <1> SUFFICES ASSUME WellTyped, SessionsInForce, [Next]_vars PROVE SessionsInForce'
    OBVIOUS
  <1>1. ASSUME UNCHANGED <<password, overstayed>>, sessions' \subseteq sessions PROVE SessionsInForce'
    BY <1>1, SessionsKept DEF SessionsInForce, SessionsEnd
  <1>2. ASSUME NEW r \in Requests, Open(r) PROVE SessionsInForce'
    <2> DEFINE new == [no |-> job[r].no, given |-> job[r].given, late |-> job[r].given # password,
                       until |-> now + Life, seen |-> now, active |-> now]
    <2>1. /\ sessions' = sessions \cup {new}
          /\ UNCHANGED <<password, overstayed>>
      BY <1>2 DEF Open
    <2>2. new.seen <= new.active /\ (new.given = password \/ new.late)
      <3>1. now <= now /\ new.seen = now /\ new.active = now
        BY TypedData DEF Data
      <3>2. new.given = job[r].given /\ new.late = (job[r].given # password)
        OBVIOUS
      <3>3. QED
        BY <3>1, <3>2
    <2> HIDE DEF new
    <2>3. QED
      BY <2>1, <2>2, SessionsKept DEF SessionsInForce, SessionsEnd
  <1>3. ASSUME NEW r \in Requests, Anonymous(r), ~Open(r) PROVE SessionsInForce'
    BY <1>1, <1>3 DEF Anonymous, Login, CheckPassword, SecondFactor, Verify, CheckCode,
       ConsumeRecoveryCode, CommitFails, OpenFails, LookupFails, RecordFailure, ResetPassword, ResetTOTP
  <1>4. ASSUME NEW r \in Requests, SetPassword(r) PROVE SessionsInForce'
    <2>1. at'[r] = "sessions"
      <3>1. at \in [Requests -> Place] /\ at' = [at EXCEPT ![r] = "sessions"]
        BY <1>4, TypedControl DEF SetPassword, GoTo, Control
      <3>2. QED
        BY <3>1
    <2>2. QED
      BY <1>4, <2>1 DEF SetPassword, SessionsInForce, SessionsEnd
  <1>5. ASSUME NEW r \in Requests, DropSessions(r) PROVE SessionsInForce'
    BY <1>5 DEF DropSessions, SessionsInForce, SessionsEnd
  <1>6. ASSUME NEW r \in Requests, Write(r), ~SetPassword(r), ~DropSessions(r)
        PROVE  SessionsInForce'
    BY <1>1, <1>6 DEF Write, StoreSecret, Enable, Clear, StoreCodes, StatementFails
  <1>7. ASSUME NEW s \in sessions, Page(s) PROVE SessionsInForce'
    <2>1. Authenticated(s) /\ password' = password
      BY <1>7 DEF Page, Use, Poll, BeginEnrolment, Confirm, Disable, Regenerate, ChangePassword, Enter
    <2>2. CASE sessions' = Touched(s)
      BY <2>1, <2>2, TouchedInForce
    <2>3. CASE Poll(s)
      <3>1. ~overstayed'
        <4>1. s.seen <= s.active /\ ~overstayed
          BY DEF SessionsInForce, SessionsEnd
        <4>2. s.until \in Nat /\ s.seen \in Nat /\ s.active \in Nat /\ now \in Nat
          BY TypedData DEF Data, Session
        <4>3. ~Overdue(s)
          BY <2>1, <4>1, <4>2, NatConstants DEF Authenticated, Alive, Overdue
        <4>4. QED
          BY <2>1, <4>1, <4>3 DEF Authenticated
      <3>2. QED
        BY <2>1, <2>3, <3>1, SessionsKept DEF Poll, SessionsInForce
    <2>4. QED
      BY <1>7, <2>2, <2>3
         DEF Page, Use, BeginEnrolment, Confirm, Disable, Regenerate, ChangePassword, Enter
  <1>8. ASSUME Revoke PROVE SessionsInForce'
    <2>1. PICK s \in sessions : Authenticated(s) /\ sessions' \subseteq Touched(s)
      BY <1>8 DEF Revoke
    <2>2. QED
      BY <1>8, <2>1, TouchedInForce DEF Revoke
  <1>9. ASSUME Logout \/ PanelRestarts \/ Tick \/ UNCHANGED vars PROVE SessionsInForce'
    BY <1>1, <1>9 DEF Logout, PanelRestarts, Tick, vars
  <1>10. QED
    BY <1>2, <1>3, <1>4, <1>5, <1>6, <1>7, <1>8, <1>9 DEF Next

\* proxy_settings.go:339: once a change of the password is over, no session of the old one is
\* left but those that were opened late, and none is served after its time.
THEOREM SessionsEndHolds == Spec => []SessionsEnd
  <1>1. Init => SessionsInForce
    BY DEF Init, SessionsInForce, SessionsEnd
  <1>2. SessionsInForce => SessionsEnd
    BY DEF SessionsInForce
  <1>3. QED
    BY <1>1, <1>2, SessionsInForceStep, AlwaysTyped, PTL DEF Spec
-----------------------------------------------------------------------------
(* The second factor. *)

\* Without an overlap a handler that is about to enable is alone with the account it has read.
EnrolledAlone ==
    "overlap" \notin mishaps =>
        /\ \A r, q \in Active : r = q
        /\ \A r \in Active :
              at[r] = "enable" => ~account.enabled /\ job[r].secret = account.secret
        /\ account.enabled => account.secret = confirmed /\ account.codes \subseteq shown

\* A request that arrives is alone, if there is to be no overlap, and it may be about to enable
\* only if it has read what is to be confirmed.
LEMMA BeginsAlone ==
    ASSUME WellTyped, EnrolledAlone, NEW r \in Requests, NEW x \in Place \ {"idle"}, NEW what,
           Begin(r, x, what), UNCHANGED <<account, confirmed, shown>>,
           x = "enable" => ~account.enabled /\ what.secret = account.secret
    PROVE  EnrolledAlone'
  <1>1. at \in [Requests -> Place] /\ DOMAIN job = Requests
    BY TypedControl DEF Control, Locals
  <1>2. at'[r] = x /\ job'[r] = what /\ \A q \in Requests : q # r => at'[q] = at[q]
    BY <1>1 DEF Begin
  <1>3. CASE Active = {}
    <2>1. Active' = {r} /\ mishaps' = mishaps
      BY <1>2, <1>3 DEF Active, Begin, past
    <2>2. QED
      BY <1>2, <2>1 DEF EnrolledAlone
  <1>4. CASE Active # {}
    BY <1>4 DEF Begin, Mishap, EnrolledAlone
  <1>5. QED
    BY <1>3, <1>4

\* A handler that goes on, or is over, is no other one, and is not about to enable.
LEMMA GoesAlone ==
    ASSUME WellTyped, EnrolledAlone, NEW r \in Requests, NEW x \in Place \ {"enable"},
           at[r] # "idle", at' = [at EXCEPT ![r] = x], mishaps \subseteq mishaps',
           "overlap" \notin mishaps /\ account'.enabled =>
               account'.secret = confirmed' /\ account'.codes \subseteq shown'
    PROVE  EnrolledAlone'
  <1>1. at \in [Requests -> Place]
    BY TypedControl DEF Control
  <1>2. at'[r] = x /\ \A q \in Requests : q # r => at'[q] = at[q]
    BY <1>1
  <1>3. ASSUME "overlap" \notin mishaps' PROVE Active' \subseteq {r}
    BY <1>2, <1>3 DEF Active, EnrolledAlone
  <1>4. QED
    BY <1>2, <1>3 DEF EnrolledAlone

LEMMA EnrolledAloneStep == WellTyped /\ EnrolledAlone /\ [Next]_vars => EnrolledAlone'
  <1> SUFFICES ASSUME WellTyped, EnrolledAlone, [Next]_vars PROVE EnrolledAlone'
    OBVIOUS
  <1>1. mishaps \subseteq mishaps'
    BY MishapsKept
  <1>2. /\ account \in [enabled : BOOLEAN, secret : 0..secrets, codes : SUBSET (1..printed)]
        /\ \A r \in Requests : at[r] # "idle" <=> r \in Active
    BY TypedData DEF Data, Active
  \* Steps that write the account.
  <1>3. ASSUME NEW r \in Requests, StoreSecret(r) \/ Clear(r) PROVE EnrolledAlone'
    <2>1. ~account'.enabled
      BY <1>3 DEF StoreSecret, Clear, NoFactor
    <2>2. QED
      BY <1>1, <1>3, <2>1, GoesAlone DEF StoreSecret, Clear, Finish, Place
  <1>4. ASSUME NEW r \in Requests, Enable(r) PROVE EnrolledAlone'
    <2>1. "overlap" \notin mishaps => job[r].secret = account.secret
      BY <1>2, <1>4 DEF Enable, EnrolledAlone
    <2>2. account'.secret = account.secret /\ account'.codes = NewCodes
      BY <1>2, <1>4 DEF Enable
    <2>3. QED
      BY <1>1, <1>4, <2>1, <2>2, GoesAlone DEF Enable, Finish, Place
  <1>5. ASSUME NEW r \in Requests, StoreCodes(r) PROVE EnrolledAlone'
    <2>1. /\ account'.secret = account.secret /\ account'.codes = NewCodes
          /\ account'.enabled = account.enabled /\ confirmed' = confirmed /\ shown' = NewCodes
      BY <1>2, <1>5 DEF StoreCodes
    <2>2. QED
      BY <1>1, <1>5, <2>1, GoesAlone DEF EnrolledAlone, StoreCodes, Finish, Place
  <1>6. ASSUME NEW r \in Requests, ConsumeRecoveryCode(r) \/ CommitFails(r) PROVE EnrolledAlone'
    <2>1. /\ account'.secret = account.secret /\ account'.codes \subseteq account.codes
          /\ account'.enabled = account.enabled /\ confirmed' = confirmed /\ shown' = shown
      BY <1>2, <1>6 DEF ConsumeRecoveryCode, CommitFails
    <2>2. PICK x \in Place \ {"enable"} : at' = [at EXCEPT ![r] = x]
      BY <1>6 DEF ConsumeRecoveryCode, CommitFails, Accept, Refused, GoTo, Finish, Place
    <2>3. at[r] # "idle"
      BY <1>6 DEF ConsumeRecoveryCode, CommitFails
    <2>4. QED
      BY <1>1, <2>1, <2>2, <2>3, GoesAlone DEF EnrolledAlone
  \* Steps that do not.
  <1>7. ASSUME UNCHANGED <<account, confirmed, shown>>, NEW r \in Requests,
               NEW x \in Place \ {"enable"}, at[r] # "idle", at' = [at EXCEPT ![r] = x]
        PROVE  EnrolledAlone'
    BY <1>1, <1>7, GoesAlone DEF EnrolledAlone
  <1>8. ASSUME UNCHANGED <<account, confirmed, shown>>, NEW r \in Requests, Anonymous(r)
        PROVE  EnrolledAlone'
    <2>1. CASE Login(r) \/ Verify(r) \/ ResetPassword(r) \/ ResetTOTP(r)
      <3>1. PICK x \in {"password", "verify", "set", "clear"} : \E what : Begin(r, x, what)
        BY <2>1 DEF Login, Verify, ResetPassword, ResetTOTP
      <3>2. QED
        BY <1>8, <3>1, BeginsAlone DEF Place
    <2>2. ASSUME \/ CheckPassword(r) \/ SecondFactor(r) \/ CheckCode(r) \/ Open(r) \/ OpenFails(r)
                 \/ LookupFails(r) \/ RecordFailure(r)
          PROVE  EnrolledAlone'
      <3>1. at[r] # "idle"
        BY <2>2 DEF CheckPassword, SecondFactor, CheckCode, Open, OpenFails, LookupFails, RecordFailure
      <3>2. PICK x \in Place \ {"enable"} : at' = [at EXCEPT ![r] = x]
        BY <2>2 DEF CheckPassword, SecondFactor, CheckCode, Open, OpenFails, LookupFails,
           RecordFailure, Refused, GoTo, Finish, Place
      <3>3. QED
        BY <1>7, <1>8, <3>1, <3>2
    <2>3. QED
      BY <1>6, <1>8, <2>1, <2>2 DEF Anonymous
  <1>9. ASSUME UNCHANGED <<account, confirmed, shown>>, NEW r \in Requests,
               SetPassword(r) \/ DropSessions(r) \/ StatementFails(r)
        PROVE  EnrolledAlone'
    <2>1. at[r] # "idle"
      BY <1>9 DEF SetPassword, DropSessions, StatementFails
    <2>2. PICK x \in Place \ {"enable"} : at' = [at EXCEPT ![r] = x]
      BY <1>9 DEF SetPassword, DropSessions, StatementFails, GoTo, Finish, Place
    <2>3. QED
      BY <1>7, <1>9, <2>1, <2>2
  <1>10. ASSUME UNCHANGED <<account, confirmed, shown, at, job>> PROVE EnrolledAlone'
    BY <1>1, <1>10 DEF EnrolledAlone, Active
  <1>11. ASSUME UNCHANGED <<account, confirmed, shown>>, NEW s \in sessions, Page(s)
         PROVE  EnrolledAlone'
    <2>1. CASE Use(s) \/ Poll(s)
      BY <1>10, <1>11, <2>1 DEF Use, Poll, procs
    <2>2. ASSUME NEW r \in Requests,
                 \/ BeginEnrolment(r, s) \/ Confirm(r, s) \/ Disable(r, s) \/ Regenerate(r, s)
                 \/ ChangePassword(r, s)
          PROVE  EnrolledAlone'
      <3>1. CASE Confirm(r, s)
        <4>1. Begin(r, "enable", [op |-> "confirm", secret |-> account.secret]) /\ ~account.enabled
          BY <3>1 DEF Confirm, Enter
        <4>2. QED
          BY <1>11, <4>1, BeginsAlone DEF Place
      <3>2. CASE BeginEnrolment(r, s) \/ Disable(r, s) \/ Regenerate(r, s) \/ ChangePassword(r, s)
        <4>1. PICK x \in {"secret", "clear", "recover", "codes", "set"} : \E what : Begin(r, x, what)
          BY <3>2 DEF BeginEnrolment, Disable, Regenerate, ChangePassword, Enter
        <4>2. QED
          BY <1>11, <4>1, BeginsAlone DEF Place
      <3>3. QED
        BY <2>2, <3>1, <3>2
    <2>3. QED
      BY <1>11, <2>1, <2>2 DEF Page
  <1>12. ASSUME UNCHANGED <<account, confirmed, shown>>, PanelRestarts PROVE EnrolledAlone'
    <2>1. Active' = {}
      BY <1>12 DEF PanelRestarts, Active
    <2>2. QED
      BY <1>1, <1>12, <2>1 DEF EnrolledAlone
  <1>13. ASSUME UNCHANGED <<account, confirmed, shown>>, Logout \/ Revoke \/ Tick \/ UNCHANGED vars
         PROVE  EnrolledAlone'
    BY <1>10, <1>13 DEF Logout, Revoke, Tick, vars, procs
  <1>14. CASE UNCHANGED <<account, confirmed, shown>>
    BY <1>3, <1>4, <1>5, <1>8, <1>9, <1>11, <1>12, <1>13, <1>14 DEF Next, Write
  <1>15. CASE \E r \in Requests : WritesAccount(r)
    BY <1>3, <1>4, <1>5, <1>6, <1>15 DEF WritesAccount
  <1>16. QED
    BY <1>14, <1>15, AccountFrame

\* totp.go:333-334: requests that never overlap enable no secret but the one that was confirmed,
\* with codes that were shown; whatever fails or restarts.
THEOREM EnrolledHolds == Spec => []Enrolled
  <1>1. Init => EnrolledAlone
    BY DEF Init, EnrolledAlone, Active, NoFactor
  <1>2. EnrolledAlone => Enrolled
    BY DEF EnrolledAlone, Enrolled
  <1>3. QED
    BY <1>1, <1>2, EnrolledAloneStep, AlwaysTyped, PTL DEF Spec
-----------------------------------------------------------------------------
(* The limit of failed attempts. *)

Times == 1..MaxTime

\* Requests that may still turn out to be failures.
Guessing == {r \in Requests : LoggingIn(r) \/ at[r] = "failed"}

\* Times that the window may have, and those of a window that ended just before it.
Recent == {u \in Times : attempts.until <= u + Window}
Earlier == {u \in Times : u + Window < attempts.until /\ attempts.until <= u + 2 * Window}
Fails(S) == Cardinality({i \in DOMAIN failed : failed[i] \in S})

\* The record counts the failures of its window; the one before was not full; an address that
\* is blocked has not failed since.
Recorded ==
    /\ failed \in Seq(Times)
    /\ attempts.until <= now + Window
    /\ \A i \in DOMAIN failed : failed[i] <= now /\ failed[i] <= attempts.until
    /\ Fails(Recent) = attempts.failures
    /\ Fails(Earlier) < MaxFailures
    /\ attempts.failures >= MaxFailures =>
          /\ attempts.until + Block <= attempts.blocked + Window
          /\ \A i \in DOMAIN failed : failed[i] + Block <= attempts.blocked

\* Whoever is let in has a failure left, or overlaps another one.
Allowed ==
    /\ attempts.failures <= MaxFailures + count
    /\ (IF now <= attempts.until THEN attempts.failures ELSE 0) + Cardinality(Guessing)
          <= MaxFailures + count
    /\ Guessing # {} /\ now > attempts.until => ~IsBlocked

Limited == Recorded /\ Allowed /\ Throttled

LEMMA Limits ==
    ASSUME WellTyped
    PROVE  /\ attempts.failures \in Nat /\ attempts.until \in Nat /\ attempts.blocked \in Nat
           /\ now \in Times /\ now \in Nat /\ count \in Nat /\ Times \subseteq Nat
           /\ Window \in Nat /\ Block \in Nat /\ Window < Block /\ MaxFailures \in Nat /\ MaxFailures > 0
           /\ Guessing \subseteq Requests /\ Cardinality(Guessing) \in Nat
  <1>1. Guessing \in SUBSET Requests
    BY DEF Guessing
  <1>2. Cardinality(Guessing) \in Nat
    BY <1>1, CountOne
  <1>3. Times \subseteq Nat
    BY DEF Times
  <1>4. Window < Block
    BY AdminAssumption
  <1>5. QED
    BY <1>1, <1>2, <1>3, <1>4, TypedData, NatConstants DEF Data, Times

\* Fewer requests guess when none is new.
LEMMA GuessingShrinks ==
    ASSUME NEW S \in SUBSET Requests, NEW T \in SUBSET S
    PROVE  Cardinality(S) \in Nat /\ Cardinality(T) \in Nat /\ Cardinality(T) <= Cardinality(S)
  <1>1. IsFiniteSet(S)
    BY NatConstants, FS_Subset
  <1>2. IsFiniteSet(T)
    BY <1>1, FS_Subset
  <1>3. QED
    BY <1>1, <1>2, FS_Subset, FS_CardinalityType

\* What is counted of a sequence.
LEMMA Indices ==
    ASSUME NEW T, NEW f \in Seq(T), NEW P \in SUBSET (DOMAIN f)
    PROVE  IsFiniteSet(P) /\ Cardinality(P) \in Nat
  <1>1. DOMAIN f = 1..Len(f) /\ Len(f) \in Nat
    OBVIOUS
  <1>2. IsFiniteSet(DOMAIN f)
    BY <1>1, FS_Interval
  <1>3. QED
    BY <1>2, FS_Subset, FS_CardinalityType

LEMMA CountUnion ==
    ASSUME NEW S, IsFiniteSet(S), NEW T, IsFiniteSet(T)
    PROVE  IsFiniteSet(S \cup T) /\ Cardinality(S \cup T) <= Cardinality(S) + Cardinality(T)
  <1>1. Cardinality(S) \in Nat /\ Cardinality(T) \in Nat
    BY FS_CardinalityType
  <1>2. Cardinality(S \cap T) \in Nat
    BY FS_Intersection, FS_CardinalityType
  <1>3. /\ IsFiniteSet(S \cup T)
        /\ Cardinality(S \cup T) = Cardinality(S) + Cardinality(T) - Cardinality(S \cap T)
    BY FS_Union
  <1>4. QED
    BY <1>1, <1>2, <1>3

LEMMA FailsCovered ==
    ASSUME failed \in Seq(Times), NEW S, NEW T, NEW U, S \subseteq T \cup U
    PROVE  /\ Fails(S) \in Nat /\ Fails(T) \in Nat /\ Fails(U) \in Nat
           /\ Fails(S) <= Fails(T) + Fails(U)
  <1> DEFINE At(R) == {i \in DOMAIN failed : failed[i] \in R}
  <1>1. At(S) \subseteq At(T) \cup At(U)
    OBVIOUS
  <1>2. \A R : IsFiniteSet(At(R)) /\ Cardinality(At(R)) \in Nat /\ Fails(R) = Cardinality(At(R))
    BY Indices DEF Fails
  <1> HIDE DEF At
  <1>3. IsFiniteSet(At(T) \cup At(U)) /\ Cardinality(At(T) \cup At(U)) <= Cardinality(At(T)) + Cardinality(At(U))
    BY <1>2, CountUnion
  <1>4. Cardinality(At(S)) <= Cardinality(At(T) \cup At(U)) /\ Cardinality(At(T) \cup At(U)) \in Nat
    BY <1>1, <1>3, FS_Subset, FS_CardinalityType
  <1>5. QED
    BY <1>2, <1>3, <1>4

LEMMA FailsNone ==
    ASSUME NEW S, \A i \in DOMAIN failed : failed[i] \notin S
    PROVE  Fails(S) = 0
  <1>1. {i \in DOMAIN failed : failed[i] \in S} = {}
    OBVIOUS
  <1>2. QED
    BY <1>1, FS_EmptySet DEF Fails

\* A success, or a restart, forgets everything.
LEMMA SuccessLimited ==
    ASSUME WellTyped, Limited, RecordSuccess, now' = now, count' \in Nat, count <= count',
           Guessing' \subseteq Guessing
    PROVE  Limited'
  <1>1. attempts' = NoAttempts /\ failed' = <<>> /\ DOMAIN failed' = {} /\ failed' \in Seq(Times)
    BY DEF RecordSuccess
  <1>2. Fails(Recent)' = 0 /\ Fails(Earlier)' = 0
    <2>1. \A R : {i \in DOMAIN failed' : failed'[i] \in R} = {}
      BY <1>1
    <2>2. QED
      BY <2>1, FS_EmptySet DEF Fails
  <1>3. Recorded'
    BY <1>1, <1>2, Limits DEF Recorded, NoAttempts
  <1>4. Allowed'
    <2>1. Cardinality(Guessing') \in Nat /\ Cardinality(Guessing') <= Cardinality(Guessing)
      BY GuessingShrinks, Limits
    <2>2. Cardinality(Guessing) <= MaxFailures + count
      BY Limits DEF Limited, Allowed
    <2>3. QED
      BY <1>1, <2>1, <2>2, Limits DEF Allowed, NoAttempts, IsBlocked
  <1>5. Throttled'
    <2>1. ASSUME NEW t \in Times
          PROVE  Cardinality({i \in DOMAIN failed' : t <= failed'[i] /\ failed'[i] <= t + Window})
                    <= 2 * MaxFailures - 1 + count'
      <3> DEFINE span == {i \in DOMAIN failed' : t <= failed'[i] /\ failed'[i] <= t + Window}
      <3>1. span = {}
        BY <1>1
      <3> HIDE DEF span
      <3>2. Cardinality(span) <= 2 * MaxFailures - 1 + count'
        BY <3>1, FS_EmptySet, Limits
      <3>3. QED
        BY <3>2 DEF span
    <2>2. QED
      BY <2>1 DEF Throttled, Times
  <1>6. QED
    BY <1>3, <1>4, <1>5 DEF Limited

\* Steps that leave the limiter and the clock alone.
LEMMA QuietLimited ==
    ASSUME WellTyped, Limited, UNCHANGED <<now, limiter>>, count' \in Nat, count <= count',
           Guessing' \subseteq Requests,
           \/ Cardinality(Guessing') + count <= Cardinality(Guessing) + count'
           \/ Guessing = {} /\ Cardinality(Guessing') <= 1 /\ ~IsBlocked,
           Guessing' \subseteq Guessing \/ ~IsBlocked
    PROVE  Limited'
  <1>1. now' = now /\ attempts' = attempts /\ failed' = failed
    BY DEF limiter
  <1>2. Recorded'
    BY <1>1 DEF Limited, Recorded, Fails, Recent, Earlier
  <1>3. Throttled'
    <2>1. ASSUME NEW t \in Times
          PROVE  Cardinality({i \in DOMAIN failed : t <= failed[i] /\ failed[i] <= t + Window})
                    <= 2 * MaxFailures - 1 + count'
      <3> DEFINE span == {i \in DOMAIN failed : t <= failed[i] /\ failed[i] <= t + Window}
      <3>1. Cardinality(span) <= 2 * MaxFailures - 1 + count
        BY DEF Limited, Throttled, Times
      <3>2. Cardinality(span) \in Nat
        BY Indices DEF Limited, Recorded
      <3> HIDE DEF span
      <3>3. Cardinality(span) <= 2 * MaxFailures - 1 + count'
        BY <3>1, <3>2, Limits
      <3>4. QED
        BY <3>3 DEF span
    <2>2. QED
      BY <1>1, <2>1 DEF Throttled, Times
  <1>4. Allowed'
    <2>1. Cardinality(Guessing') \in Nat
      BY GuessingShrinks
    <2>2. /\ attempts.failures <= MaxFailures + count
          /\ (IF now <= attempts.until THEN attempts.failures ELSE 0) + Cardinality(Guessing)
                <= MaxFailures + count
          /\ Guessing # {} /\ now > attempts.until => ~IsBlocked
      BY DEF Limited, Allowed
    <2>3. (IF now <= attempts.until THEN attempts.failures ELSE 0) + Cardinality(Guessing')
             <= MaxFailures + count'
      <3>1. CASE Cardinality(Guessing') + count <= Cardinality(Guessing) + count'
        BY <2>1, <2>2, <3>1, Limits
      <3>2. CASE Cardinality(Guessing') <= 1 /\ ~IsBlocked
        <4>1. attempts.failures >= MaxFailures => attempts.until + Block <= attempts.blocked + Window
          BY DEF Limited, Recorded
        <4>2. now <= attempts.until => attempts.failures < MaxFailures
          BY <3>2, <4>1, Limits DEF IsBlocked
        <4>3. QED
          BY <2>1, <3>2, <4>2, Limits
      <3>3. QED
        BY <3>1, <3>2
    <2>4. Guessing' # {} /\ now > attempts.until => ~IsBlocked
      BY <2>2
    <2>5. QED
      BY <1>1, <2>2, <2>3, <2>4, Limits DEF Allowed, IsBlocked
  <1>5. QED
    BY <1>2, <1>3, <1>4 DEF Limited

-----------------------------------------------------------------------------
(* One more failure. *)

OneMoreFailure == failed' = Append(failed, now)

\* The failure is recorded where it happened; the others stay.
LEMMA FailureBumps ==
    ASSUME WellTyped, Limited, OneMoreFailure
    PROVE  /\ failed' \in Seq(Times) /\ failed \in Seq(Times)
           /\ \A i \in DOMAIN failed' : failed'[i] = now \/ \E j \in DOMAIN failed : failed'[i] = failed[j]
           /\ \A S : Fails(S) \in Nat /\ Cardinality({i \in DOMAIN failed' : failed'[i] \in S}) =
                                            IF now \in S THEN Fails(S) + 1 ELSE Fails(S)
  <1>1. failed \in Seq(Times) /\ now \in Times
    BY Limits DEF Limited, Recorded
  <1>2. /\ failed' \in Seq(Times) /\ Len(failed) \in Nat
        /\ DOMAIN failed = 1..Len(failed) /\ DOMAIN failed' = 1..(Len(failed) + 1)
        /\ failed'[Len(failed) + 1] = now /\ \A i \in DOMAIN failed : failed'[i] = failed[i]
    BY <1>1 DEF OneMoreFailure
  <1>3. \A i \in DOMAIN failed' : i = Len(failed) + 1 \/ i \in DOMAIN failed
    BY <1>2
  <1>4. /\ DOMAIN failed \subseteq DOMAIN failed'
        /\ Len(failed) + 1 \in DOMAIN failed' /\ Len(failed) + 1 \notin DOMAIN failed
    BY <1>2
  <1>5. ASSUME NEW S
        PROVE  Fails(S) \in Nat /\ Cardinality({i \in DOMAIN failed' : failed'[i] \in S}) =
                                      IF now \in S THEN Fails(S) + 1 ELSE Fails(S)
    <2> DEFINE old == {i \in DOMAIN failed : failed[i] \in S}
               new == {i \in DOMAIN failed' : failed'[i] \in S}
    <2>1. IsFiniteSet(old) /\ Cardinality(old) \in Nat
      BY <1>1, Indices
    <2>2. CASE now \in S
      <3>1. new = old \cup {Len(failed) + 1} /\ Len(failed) + 1 \notin old
        BY <1>2, <1>3, <1>4, <2>2
      <3> HIDE DEF old, new
      <3>2. Cardinality(new) = Cardinality(old) + 1
        BY <2>1, <3>1, FS_AddElement
      <3>3. QED
        BY <2>1, <2>2, <3>2 DEF Fails, old, new
    <2>3. CASE now \notin S
      <3>1. new = old
        BY <1>2, <1>3, <1>4, <2>3
      <3>2. QED
        BY <2>1, <2>3, <3>1 DEF Fails
    <2>4. QED
      BY <2>2, <2>3
  <1>6. QED
    BY <1>1, <1>2, <1>3, <1>5

\* A span that has the present is covered by the window and what came before it.
LEMMA SpansCovered ==
    ASSUME WellTyped, Limited, OneMoreFailure, UNCHANGED <<now, count>>,
           attempts'.until \in Nat, attempts'.until <= now + Window,
           attempts'.failures \in Nat, attempts'.failures <= MaxFailures + count,
           Fails(Recent)' = attempts'.failures, Fails(Earlier)' < MaxFailures
    PROVE  Throttled'
  <1> DEFINE recent == {u \in Times : attempts'.until <= u + Window}
             earlier == {u \in Times : u + Window < attempts'.until
                                       /\ attempts'.until <= u + 2 * Window}
             Count(S) == Cardinality({i \in DOMAIN failed' : failed'[i] \in S})
  <1>1. Count(recent) = attempts'.failures /\ Count(earlier) < MaxFailures
    BY DEF Fails, Recent, Earlier
  <1>2. failed' \in Seq(Times) /\ failed \in Seq(Times) /\ Times \subseteq Nat
    BY FailureBumps, Limits
  <1>3. \A S : Fails(S) \in Nat /\ Count(S) = IF now \in S THEN Fails(S) + 1 ELSE Fails(S)
    BY FailureBumps
  <1>4. \A S, T, U : S \subseteq T \cup U => Fails(S) <= Fails(T) + Fails(U)
    BY <1>2, FailsCovered
  <1>5. \A i \in DOMAIN failed' : failed'[i] \in Times
    BY <1>2
  <1> HIDE DEF Count
  <1>6. ASSUME NEW t \in Times
        PROVE  Cardinality({i \in DOMAIN failed' : t <= failed'[i] /\ failed'[i] <= t + Window})
                  <= 2 * MaxFailures - 1 + count'
    <2> DEFINE span == {u \in Times : t <= u /\ u <= t + Window}
    <2>1. {i \in DOMAIN failed' : t <= failed'[i] /\ failed'[i] <= t + Window}
             = {i \in DOMAIN failed' : failed'[i] \in span}
      BY <1>5
    <2>2. CASE now \notin span
      <3>1. Count(span) = Fails(span)
        BY <1>3, <2>2
      <3>2. {i \in DOMAIN failed : t <= failed[i] /\ failed[i] <= t + Window}
               = {i \in DOMAIN failed : failed[i] \in span}
        BY <1>2
      <3>3. Fails(span) <= 2 * MaxFailures - 1 + count
        BY <3>2 DEF Limited, Throttled, Times, Fails
      <3>4. QED
        BY <2>1, <3>1, <3>3 DEF Count
    <2>3. CASE now \in span
      <3>1. span \subseteq earlier \cup recent
        <4>1. SUFFICES ASSUME NEW u \in span PROVE u \in earlier \cup recent
          OBVIOUS
        <4>2. u \in Times /\ u \in Nat /\ t \in Nat /\ t <= u /\ now <= t + Window
          BY <1>2, <2>3
        <4>3. attempts'.until <= u + 2 * Window
          BY <4>2, Limits
        <4>4. QED
          BY <4>2, <4>3, Limits
      <3>2. now \in recent
        BY Limits
      <3> HIDE DEF span, recent, earlier
      <3>3. Fails(span) <= Fails(earlier) + Fails(recent)
        BY <1>4, <3>1
      <3>4. /\ Fails(span) \in Nat /\ Fails(earlier) \in Nat /\ Fails(recent) \in Nat
            /\ Count(span) = Fails(span) + 1 /\ Count(recent) = Fails(recent) + 1
            /\ Count(earlier) >= Fails(earlier) /\ Count(earlier) \in Nat
        BY <1>3, <2>3, <3>2
      <3>5. Fails(earlier) <= MaxFailures - 1 /\ Fails(recent) + 1 <= MaxFailures + count
        BY <1>1, <3>4, Limits
      <3>6. Count(span) <= 2 * MaxFailures - 1 + count
        BY <3>3, <3>4, <3>5, Limits
      <3>7. QED
        BY <2>1, <3>6 DEF Count, span
    <2>4. QED
      BY <2>2, <2>3
  <1>7. QED
    BY <1>6 DEF Throttled, Times

\* Whoever fails is guessing no more.
LEMMA FailureGuesses ==
    ASSUME WellTyped, NEW r \in Requests, RecordFailure(r)
    PROVE  Cardinality(Guessing') \in Nat /\ Cardinality(Guessing') = Cardinality(Guessing) - 1
  <1>1. at \in [Requests -> Place] /\ DOMAIN job = Requests
    BY TypedControl DEF Control, Locals
  <1>2. /\ at'[r] = "idle"
        /\ \A q \in Requests : q # r => at'[q] = at[q] /\ job'[q] = job[q]
    BY <1>1 DEF RecordFailure, Finish
  <1>3. r \in Guessing /\ r \notin Guessing' /\ Guessing \ {r} = Guessing' \ {r}
    BY <1>2 DEF Guessing, LoggingIn, RecordFailure
  <1>4. Guessing \in SUBSET Requests /\ Guessing' \in SUBSET Requests
    BY DEF Guessing
  <1>5. QED
    BY <1>3, <1>4, CountOne

\* A failure within the window.
LEMMA FailureWithin ==
    ASSUME WellTyped, Limited, NEW r \in Requests, RecordFailure(r), now <= attempts.until
    PROVE  Limited'
  <1>1. /\ attempts' = Counted /\ OneMoreFailure
        /\ now' = now /\ count' = count
    BY DEF RecordFailure, past, OneMoreFailure
  <1>2. attempts \in [failures : Nat, until : Nat, blocked : Nat]
    BY TypedData DEF Data
  <1>3. /\ attempts'.failures = attempts.failures + 1 /\ attempts'.until = attempts.until
        /\ attempts'.blocked =
              IF attempts.failures + 1 >= MaxFailures THEN now + Block ELSE attempts.blocked
    <2> DEFINE kept == [attempts EXCEPT !.failures = @ + 1]
    <2>1. ~ (now > attempts.until)
      BY Limits
    <2>2. attempts' = IF kept.failures >= MaxFailures THEN [kept EXCEPT !.blocked = now + Block] ELSE kept
      BY <1>1, <2>1 DEF Counted
    <2>3. kept.failures = attempts.failures + 1 /\ kept.until = attempts.until /\ kept.blocked = attempts.blocked
          /\ kept \in [failures : Nat, until : Nat, blocked : Nat]
      BY <1>2
    <2> HIDE DEF kept
    <2>4. QED
      BY <2>2, <2>3
  <1>4. Recent \in SUBSET Times /\ Earlier \in SUBSET Times /\ now \in Recent /\ now \notin Earlier
    BY Limits DEF Recent, Earlier, Limited, Recorded
  <1>5. Recent' = Recent /\ Earlier' = Earlier
    BY <1>3 DEF Recent, Earlier
  <1>6. Fails(Recent)' = attempts'.failures /\ Fails(Earlier)' < MaxFailures
    BY <1>1, <1>3, <1>4, <1>5, FailureBumps DEF Fails, Limited, Recorded
  <1>7. Recorded'
    <2>1. /\ failed' \in Seq(Times) /\ failed \in Seq(Times)
          /\ \A i \in DOMAIN failed' : failed'[i] = now \/ \E j \in DOMAIN failed : failed'[i] = failed[j]
      BY <1>1, FailureBumps
    <2>2. attempts'.until <= now' + Window
      BY <1>1, <1>3 DEF Limited, Recorded
    <2>3. \A i \in DOMAIN failed' : failed'[i] \in Times /\ failed'[i] <= now /\ failed'[i] <= attempts.until
      <3>1. \A i \in DOMAIN failed : failed[i] <= now /\ failed[i] <= attempts.until
        BY DEF Limited, Recorded
      <3>2. now <= now
        BY Limits
      <3>3. \A i \in DOMAIN failed' : failed'[i] \in Times
        BY <2>1
      <3>4. QED
        BY <2>1, <3>1, <3>2, <3>3
    <2>4. ASSUME attempts'.failures >= MaxFailures
          PROVE  /\ attempts'.until + Block <= attempts'.blocked + Window
                 /\ \A i \in DOMAIN failed' : failed'[i] + Block <= attempts'.blocked
      <3>1. attempts'.blocked = now + Block
        BY <1>3, <2>4
      <3>2. attempts'.until + Block <= attempts'.blocked + Window
        BY <1>1, <2>2, <3>1, <1>3, Limits
      <3>3. \A u \in Times : u <= now => u + Block <= now + Block
        BY Limits DEF Times
      <3>4. QED
        BY <2>3, <3>1, <3>2, <3>3
    <2>5. QED
      BY <1>1, <1>3, <1>6, <2>1, <2>2, <2>3, <2>4 DEF Recorded
  <1>8. Cardinality(Guessing') \in Nat /\ Cardinality(Guessing') = Cardinality(Guessing) - 1
    BY FailureGuesses
  <1>9. attempts.failures + Cardinality(Guessing) <= MaxFailures + count
    BY DEF Limited, Allowed
  <1>10. attempts'.failures <= MaxFailures + count
    BY <1>3, <1>8, <1>9, Limits
  <1>11. Allowed'
    <2>1. attempts'.failures + Cardinality(Guessing') <= MaxFailures + count
      BY <1>3, <1>8, <1>9, Limits
    <2>2. now' <= attempts'.until
      BY <1>1, <1>3
    <2>3. QED
      BY <1>1, <1>3, <1>10, <2>1, <2>2, Limits DEF Allowed
  <1>12. Throttled'
    <2>1. attempts'.until <= now + Window /\ attempts'.until \in Nat /\ attempts'.failures \in Nat
      BY <1>3, Limits DEF Limited, Recorded
    <2>2. QED
      BY <1>1, <1>6, <1>10, <2>1, SpansCovered
  <1>13. QED
    BY <1>7, <1>11, <1>12 DEF Limited

\* A failure that begins a window: what it leaves behind was not full, or led to a block that
\* is over.
LEMMA FailureAfter ==
    ASSUME WellTyped, Limited, NEW r \in Requests, RecordFailure(r), now > attempts.until
    PROVE  Limited'
  <1>1. /\ attempts' = Counted /\ OneMoreFailure
        /\ now' = now /\ count' = count
    BY DEF RecordFailure, past, OneMoreFailure
  <1>2. attempts \in [failures : Nat, until : Nat, blocked : Nat]
    BY TypedData DEF Data
  <1>3. /\ attempts'.failures = 1 /\ attempts'.until = now + Window
        /\ attempts'.blocked = IF 1 >= MaxFailures THEN now + Block ELSE attempts.blocked
    <2> DEFINE kept == [attempts EXCEPT !.failures = 1, !.until = now + Window]
    <2>1. attempts' = IF kept.failures >= MaxFailures THEN [kept EXCEPT !.blocked = now + Block] ELSE kept
      BY <1>1 DEF Counted
    <2>2. kept.failures = 1 /\ kept.until = now + Window /\ kept.blocked = attempts.blocked
          /\ DOMAIN kept = {"failures", "until", "blocked"}
      BY <1>2
    <2>3. kept \in [failures : Nat, until : Nat, blocked : Nat]
      <3>1. now + Window \in Nat
        BY Limits
      <3>2. QED
        BY <1>2, <3>1
    <2> HIDE DEF kept
    <2>4. QED
      BY <2>1, <2>2, <2>3
  <1> DEFINE recent == {u \in Times : attempts'.until <= u + Window}
             earlier == {u \in Times : u + Window < attempts'.until
                                       /\ attempts'.until <= u + 2 * Window}
  <1>4. /\ recent \in SUBSET Times /\ earlier \in SUBSET Times /\ now \in recent /\ now \notin earlier
        /\ recent = Recent' /\ earlier = Earlier'
    BY <1>3, Limits DEF Recent, Earlier
  <1>5. failed \in Seq(Times) /\ \A i \in DOMAIN failed : failed[i] <= attempts.until /\ failed[i] \in Times
    BY DEF Limited, Recorded
  <1>6. Fails(recent) = 0
    <2>1. \A u \in recent : u \in Nat /\ ~ (u <= attempts.until)
      BY <1>3, Limits DEF Times
    <2>2. \A i \in DOMAIN failed : failed[i] \notin recent
      BY <1>5, <2>1
    <2>3. QED
      BY <2>2, FailsNone
  <1>7. Fails(earlier) < MaxFailures
    <2>1. \A u \in earlier : u \in Times /\ u \in Nat /\ u < now /\ now <= u + Window
      BY <1>3, Limits DEF Times
    <2>2. CASE attempts.failures < MaxFailures
      <3>1. earlier \subseteq Recent \cup {}
        BY <2>1, Limits DEF Recent
      <3>2. Fails(earlier) \in Nat /\ Fails(earlier) <= Fails(Recent) + Fails({})
        <4> HIDE DEF earlier
        <4>1. QED
          BY <1>5, <3>1, FailsCovered
      <3>3. Fails({}) = 0 /\ Fails(Recent) = attempts.failures
        BY FailsNone DEF Limited, Recorded
      <3> HIDE DEF earlier
      <3>4. QED
        BY <2>2, <3>2, <3>3, Limits
    <2>3. CASE attempts.failures >= MaxFailures
      <3>1. attempts.blocked <= now
        <4>1. r \in Guessing
          BY DEF Guessing, RecordFailure
        <4>2. QED
          BY <4>1, Limits DEF Limited, Allowed, IsBlocked
      <3>2. \A u \in earlier : ~ (u + Block <= attempts.blocked)
        BY <2>1, <3>1, Limits
      <3>3. \A i \in DOMAIN failed : failed[i] \notin earlier
        BY <2>3, <3>2 DEF Limited, Recorded
      <3>4. Fails(earlier) = 0
        BY <3>3, FailsNone
      <3>5. QED
        BY <3>4, Limits
    <2>4. QED
      BY <2>2, <2>3, Limits
  <1>8. Fails(Recent)' = attempts'.failures /\ Fails(Earlier)' < MaxFailures
    <2>1. /\ Cardinality({i \in DOMAIN failed' : failed'[i] \in recent}) = Fails(recent) + 1
          /\ Cardinality({i \in DOMAIN failed' : failed'[i] \in earlier}) = Fails(earlier)
      BY <1>1, <1>4, FailureBumps
    <2> HIDE DEF recent, earlier
    <2>2. QED
      BY <1>3, <1>4, <1>6, <1>7, <2>1 DEF Fails
  <1>9. Recorded'
    <2>1. /\ failed' \in Seq(Times)
          /\ \A i \in DOMAIN failed' : failed'[i] = now \/ \E j \in DOMAIN failed : failed'[i] = failed[j]
      BY <1>1, FailureBumps
    <2>2. attempts'.until <= now' + Window
      BY <1>1, <1>3, Limits
    <2>3. \A i \in DOMAIN failed' : failed'[i] \in Times /\ failed'[i] <= now
      <3>1. \A j \in DOMAIN failed : failed[j] <= now
        BY DEF Limited, Recorded
      <3>2. now <= now
        BY Limits
      <3>3. \A i \in DOMAIN failed' : failed'[i] \in Times
        BY <2>1
      <3>4. QED
        BY <2>1, <3>1, <3>2, <3>3
    <2>4. \A i \in DOMAIN failed' : failed'[i] <= now' /\ failed'[i] <= attempts'.until
      <3>1. \A u \in Times : u <= now => u <= now + Window
        BY Limits DEF Times
      <3>2. QED
        BY <1>1, <1>3, <2>3, <3>1
    <2>5. ASSUME attempts'.failures >= MaxFailures
          PROVE  /\ attempts'.until + Block <= attempts'.blocked + Window
                 /\ \A i \in DOMAIN failed' : failed'[i] + Block <= attempts'.blocked
      <3>1. attempts'.blocked = now + Block
        BY <1>3, <2>5
      <3>2. attempts'.until + Block <= attempts'.blocked + Window
        BY <3>1, <1>3, Limits
      <3>3. \A u \in Times : u <= now => u + Block <= now + Block
        BY Limits DEF Times
      <3>4. QED
        BY <2>3, <3>1, <3>2, <3>3
    <2>6. QED
      BY <1>8, <2>1, <2>2, <2>4, <2>5 DEF Recorded
  <1>10. Cardinality(Guessing') \in Nat /\ Cardinality(Guessing') = Cardinality(Guessing) - 1
    BY FailureGuesses
  <1>11. Cardinality(Guessing) <= MaxFailures + count
    BY Limits DEF Limited, Allowed
  <1>12. attempts'.failures <= MaxFailures + count
    BY <1>3, Limits
  <1>13. Allowed'
    <2>1. attempts'.failures + Cardinality(Guessing') <= MaxFailures + count
      BY <1>3, <1>10, <1>11, Limits
    <2>2. now' <= attempts'.until /\ now' \in Nat /\ attempts'.until \in Nat
      BY <1>1, <1>3, Limits
    <2>3. QED
      BY <1>1, <1>12, <2>1, <2>2 DEF Allowed
  <1>14. Throttled'
    <2>1. attempts'.until <= now + Window /\ attempts'.until \in Nat /\ attempts'.failures \in Nat
      BY <1>3, Limits
    <2>2. QED
      BY <1>1, <1>8, <1>12, <2>1, SpansCovered
  <1>15. QED
    BY <1>9, <1>13, <1>14 DEF Limited

\* The clock ticks when nobody is guessing.
LEMMA TickLimited == ASSUME WellTyped, Limited, Tick PROVE Limited'
  <1>1. /\ now' = now + 1 /\ attempts' = attempts /\ failed' = failed /\ count' = count
        /\ Active = {} /\ at' = at /\ job' = job
    BY DEF Tick, limiter, procs, past
  <1>2. Guessing' = {} /\ Cardinality({}) = 0
    BY <1>1, FS_EmptySet DEF Active, Guessing, LoggingIn
  <1>3. Recorded'
    <2>1. Fails(Recent)' = Fails(Recent) /\ Fails(Earlier)' = Fails(Earlier)
      BY <1>1 DEF Fails, Recent, Earlier
    <2>2. attempts.until <= now' + Window
      BY <1>1, Limits DEF Limited, Recorded
    <2>3. \A i \in DOMAIN failed : failed[i] <= now' /\ failed[i] <= attempts.until
      <3>1. failed \in Seq(Times) /\ \A i \in DOMAIN failed : failed[i] <= now /\ failed[i] <= attempts.until
        BY DEF Limited, Recorded
      <3>2. \A u \in Times : u <= now => u <= now'
        BY <1>1, Limits DEF Times
      <3>3. QED
        BY <3>1, <3>2
    <2>4. QED
      BY <1>1, <2>1, <2>2, <2>3 DEF Limited, Recorded
  <1>4. Allowed'
    <2>1. attempts.failures <= MaxFailures + count
      BY DEF Limited, Allowed
    <2>2. QED
      BY <1>1, <1>2, <2>1, Limits DEF Allowed
  <1>5. Throttled'
    BY <1>1 DEF Limited, Throttled
  <1>6. QED
    BY <1>3, <1>4, <1>5 DEF Limited

\* A step of request r that leaves the others alone.
LEMMA OneGuesses ==
    ASSUME WellTyped, NEW r \in Requests, NEW x \in Place, at' = [at EXCEPT ![r] = x],
           NEW what, job' = [job EXCEPT ![r] = what] \/ job' = job
    PROVE  /\ Guessing' \subseteq Requests
           /\ Guessing' \ {r} = Guessing \ {r}
           /\ r \in Guessing' => x \in {"password", "factor", "verify", "open", "failed", "recover"}
           /\ r \in Guessing' /\ x = "recover" => job'[r].op = "verify"
  <1>1. at \in [Requests -> Place] /\ DOMAIN job = Requests
    BY TypedControl DEF Control, Locals
  <1>2. at'[r] = x /\ \A q \in Requests : q # r => at'[q] = at[q] /\ job'[q] = job[q]
    BY <1>1
  <1>3. QED
    BY <1>2 DEF Guessing, LoggingIn

\* A request that goes on, or is over, and guesses only if it did before.
LEMMA GuessesOn ==
    ASSUME WellTyped, Limited, NEW r \in Requests, NEW x \in Place, at' = [at EXCEPT ![r] = x],
           NEW what, job' = [job EXCEPT ![r] = what] \/ job' = job,
           \/ r \in Guessing
           \/ x \notin {"password", "factor", "verify", "open", "failed", "recover"}
           \/ x = "recover" /\ job'[r].op # "verify",
           UNCHANGED <<now, limiter>>, count' \in Nat, count <= count'
    PROVE  Limited'
  <1>1. Guessing' \subseteq Guessing
    BY OneGuesses
  <1>2. Guessing \in SUBSET Requests
    BY DEF Guessing
  <1>3. /\ Cardinality(Guessing) \in Nat /\ Cardinality(Guessing') \in Nat
        /\ Cardinality(Guessing') <= Cardinality(Guessing)
    BY <1>1, <1>2, GuessingShrinks
  <1>4. Cardinality(Guessing') + count <= Cardinality(Guessing) + count' /\ Guessing' \subseteq Requests
    BY <1>1, <1>2, <1>3, Limits
  <1>5. QED
    BY <1>1, <1>4, QuietLimited

\* Nobody guesses more, and nothing else happens.
LEMMA NobodyGuesses ==
    ASSUME WellTyped, Limited, UNCHANGED <<now, limiter, procs>>, count' = count
    PROVE  Limited'
  <1>1. Guessing' = Guessing
    BY DEF Guessing, LoggingIn, procs
  <1>2. /\ Guessing' \subseteq Guessing /\ Guessing' \subseteq Requests
        /\ Cardinality(Guessing') + count <= Cardinality(Guessing) + count'
        /\ count' \in Nat /\ count <= count'
    BY <1>1, Limits
  <1>3. UNCHANGED <<now, limiter>>
    OBVIOUS
  <1>4. QED
    BY <1>2, <1>3, QuietLimited

\* A request that arrives.
LEMMA BeginsLimited ==
    ASSUME WellTyped, Limited, NEW r \in Requests, NEW x \in Place, NEW what, Begin(r, x, what),
           \/ ~IsBlocked
           \/ x \notin {"password", "factor", "verify", "open", "failed", "recover"}
           \/ x = "recover" /\ what.op # "verify",
           UNCHANGED <<now, limiter>>
    PROVE  Limited'
  <1>1. at' = [at EXCEPT ![r] = x] /\ job' = [job EXCEPT ![r] = what] /\ at[r] = "idle"
        /\ at \in [Requests -> Place] /\ DOMAIN job = Requests
    BY TypedControl DEF Begin, Control, Locals
  <1>2. count' \in Nat /\ count <= count' /\ (Active # {} => count' = count + 1)
    BY Limits DEF Begin, Mishap, past
  <1>3. CASE ~IsBlocked
    <2>1. /\ Guessing' \subseteq Requests /\ Guessing \subseteq Requests
          /\ Guessing' \ {r} = Guessing \ {r}
      BY <1>1, OneGuesses DEF Guessing
    <2>2. /\ Cardinality(Guessing) \in Nat /\ Cardinality(Guessing') \in Nat
          /\ Cardinality(Guessing') <= Cardinality(Guessing) + 1
      BY <2>1, CountOne
    <2>3. CASE Active = {}
      <3>1. Guessing = {} /\ Cardinality({}) = 0
        BY <2>3, FS_EmptySet DEF Active, Guessing, LoggingIn
      <3>2. Cardinality(Guessing') <= 1
        BY <2>2, <3>1
      <3>3. QED
        BY <1>2, <1>3, <2>1, <3>1, <3>2, QuietLimited
    <2>4. CASE Active # {}
      <3>1. Cardinality(Guessing') + count <= Cardinality(Guessing) + count'
        BY <1>2, <2>2, <2>4, Limits
      <3>2. QED
        BY <1>2, <1>3, <2>1, <3>1, QuietLimited
    <2>5. QED
      BY <2>3, <2>4
  <1>4. CASE \/ x \notin {"password", "factor", "verify", "open", "failed", "recover"}
             \/ x = "recover" /\ what.op # "verify"
    <2>1. job'[r] = what
      BY <1>1
    <2>2. QED
      BY <1>1, <1>2, <1>4, <2>1, GuessesOn
  <1>5. QED
    BY <1>3, <1>4

LEMMA LimitedStep == WellTyped /\ Limited /\ [Next]_vars => Limited'
  <1> SUFFICES ASSUME WellTyped, Limited, [Next]_vars PROVE Limited'
    OBVIOUS
  <1>1. ASSUME NEW r \in Requests, RecordFailure(r) PROVE Limited'
    <2>1. now <= attempts.until \/ now > attempts.until
      BY Limits
    <2>2. QED
      BY <1>1, <2>1, FailureWithin, FailureAfter
  <1>2. ASSUME NEW r \in Requests, Open(r) \/ OpenFails(r) PROVE Limited'
    <2>1. /\ RecordSuccess /\ now' = now /\ at' = [at EXCEPT ![r] = "idle"]
          /\ job' = [job EXCEPT ![r] = NoJob] /\ "idle" \in Place
      BY <1>2 DEF Open, OpenFails, Finish, Place
    <2>2. count' \in Nat /\ count <= count'
      BY <1>2, Limits DEF Mishap, Open, OpenFails, past
    <2>3. Guessing' \subseteq Guessing
      BY <2>1, OneGuesses
    <2>4. QED
      BY <2>1, <2>2, <2>3, SuccessLimited
  <1>3. ASSUME PanelRestarts PROVE Limited'
    <2>1. Guessing' = {}
      BY <1>3 DEF PanelRestarts, Guessing, LoggingIn
    <2>2. count' \in Nat /\ count <= count'
      BY <1>3, Limits DEF Mishap, PanelRestarts
    <2>3. QED
      BY <1>3, <2>1, <2>2, SuccessLimited DEF PanelRestarts
  \* Requests that arrive.
  <1>4. ASSUME NEW r \in Requests, Login(r) \/ Verify(r) \/ ResetPassword(r) \/ ResetTOTP(r)
        PROVE  Limited'
    <2>1. UNCHANGED <<now, limiter>>
      BY <1>4 DEF Login, Verify, ResetPassword, ResetTOTP
    <2>2. CASE Login(r) \/ Verify(r)
      <3>1. PICK x \in {"password", "verify"} : \E what : Begin(r, x, what)
        BY <2>2 DEF Login, Verify
      <3>2. ~IsBlocked /\ x \in Place
        BY <2>2 DEF Login, Verify, Place
      <3>3. QED
        BY <2>1, <3>1, <3>2, BeginsLimited
    <2>3. CASE ResetPassword(r) \/ ResetTOTP(r)
      <3>1. PICK x \in {"set", "clear"} : \E what : Begin(r, x, what)
        BY <2>3 DEF ResetPassword, ResetTOTP
      <3>2. x \in Place /\ x \notin {"password", "factor", "verify", "open", "failed", "recover"}
        BY DEF Place
      <3>3. QED
        BY <2>1, <3>1, <3>2, BeginsLimited
    <2>4. QED
      BY <1>4, <2>2, <2>3
  \* Requests that go on.
  <1>5. ASSUME NEW r \in Requests,
               \/ CheckPassword(r) \/ SecondFactor(r) \/ CheckCode(r) \/ ConsumeRecoveryCode(r)
               \/ CommitFails(r) \/ LookupFails(r)
        PROVE  Limited'
    <2>1. UNCHANGED <<now, limiter>>
      BY <1>5 DEF CheckPassword, SecondFactor, CheckCode, ConsumeRecoveryCode, CommitFails, Accept, LookupFails
    <2>2. count' \in Nat /\ count <= count'
      BY <1>5, Limits DEF Mishap, CheckPassword, SecondFactor, CheckCode, ConsumeRecoveryCode, CommitFails, Accept, LookupFails, past
    <2>3. at \in [Requests -> Place]
      BY TypedControl DEF Control
    <2>4. r \in Guessing \/ (at[r] = "recover" /\ job[r].op # "verify")
      BY <1>5 DEF CheckPassword, SecondFactor, CheckCode, ConsumeRecoveryCode, CommitFails, Accept, LookupFails, Guessing, LoggingIn
    <2>5. PICK x \in Place : at' = [at EXCEPT ![r] = x]
      BY <1>5 DEF CheckPassword, SecondFactor, CheckCode, ConsumeRecoveryCode, CommitFails, Accept, LookupFails,
         Refused, GoTo, Finish, Place
    <2>6. job' = [job EXCEPT ![r] = NoJob] \/ job' = job
      BY <1>5 DEF CheckPassword, SecondFactor, CheckCode, ConsumeRecoveryCode, CommitFails, Accept, LookupFails,
         Refused, GoTo, Finish
    <2>7. CASE r \in Guessing
      BY <2>1, <2>2, <2>5, <2>6, <2>7, GuessesOn
    <2>8. CASE at[r] = "recover" /\ job[r].op # "verify"
      <3>1. x \in {"clear", "idle"}
        <4>1. at'[r] = x
          BY <2>3, <2>5
        <4>2. at'[r] \in {"clear", "idle"}
          BY <1>5, <2>3, <2>8 DEF CheckPassword, SecondFactor, CheckCode, ConsumeRecoveryCode, CommitFails, Accept,
             LookupFails, Refused, GoTo, Finish
        <4>3. QED
          BY <4>1, <4>2
      <3>2. QED
        BY <2>1, <2>2, <2>5, <2>6, <3>1, GuessesOn
    <2>9. QED
      BY <2>4, <2>7, <2>8
  <1>6. ASSUME NEW r \in Requests, Write(r) PROVE Limited'
    <2>1. UNCHANGED <<now, limiter>>
      BY <1>6 DEF Write, StoreSecret, Enable, Clear, StoreCodes, SetPassword, DropSessions, StatementFails
    <2>2. count' \in Nat /\ count <= count'
      BY <1>6, Limits DEF Mishap, Write, StoreSecret, Enable, Clear, StoreCodes, SetPassword, DropSessions,
         StatementFails, past
    <2>3. PICK x \in {"idle", "sessions"} : at' = [at EXCEPT ![r] = x]
      BY <1>6 DEF Write, StoreSecret, Enable, Clear, StoreCodes, SetPassword, DropSessions,
         StatementFails, GoTo, Finish
    <2>4. job' = [job EXCEPT ![r] = NoJob] \/ job' = job
      BY <1>6 DEF Write, StoreSecret, Enable, Clear, StoreCodes, SetPassword, DropSessions,
         StatementFails, GoTo, Finish
    <2>5. x \in Place /\ x \notin {"password", "factor", "verify", "open", "failed", "recover"}
      BY DEF Place
    <2>6. QED
      BY <2>1, <2>2, <2>3, <2>4, <2>5, GuessesOn
  <1>7. ASSUME NEW s \in sessions, Page(s) PROVE Limited'
    <2>1. UNCHANGED <<now, limiter>>
      BY <1>7 DEF Page, Use, Poll, BeginEnrolment, Confirm, Disable, Regenerate, ChangePassword, Enter
    <2>2. CASE Use(s) \/ Poll(s)
      BY <2>2, NobodyGuesses DEF Use, Poll, past
    <2>3. ASSUME NEW r \in Requests, Disable(r, s) PROVE Limited'
      <3>1. PICK code \in Typed :
               Begin(r, IF Validate(code) THEN "clear" ELSE "recover",
                     [op |-> "disable", code |-> code, no |-> requests + 1])
        BY <2>3 DEF Disable, Enter
      <3>2. PICK x \in {"clear", "recover"} :
               \E what : Begin(r, x, what) /\ what.op = "disable"
        BY <3>1
      <3>3. x \in Place /\ (x = "clear" => x \notin {"password", "factor", "verify", "open", "failed", "recover"})
        BY DEF Place
      <3>4. QED
        BY <2>1, <3>2, <3>3, BeginsLimited
    <2>4. ASSUME NEW r \in Requests,
                 BeginEnrolment(r, s) \/ Confirm(r, s) \/ Regenerate(r, s) \/ ChangePassword(r, s)
          PROVE  Limited'
      <3>1. PICK x \in {"secret", "enable", "codes", "set"} : \E what : Begin(r, x, what)
        BY <2>4 DEF BeginEnrolment, Confirm, Regenerate, ChangePassword, Enter
      <3>2. x \in Place /\ x \notin {"password", "factor", "verify", "open", "failed", "recover"}
        BY DEF Place
      <3>3. QED
        BY <2>1, <3>1, <3>2, BeginsLimited
    <2>5. QED
      BY <1>7, <2>2, <2>3, <2>4 DEF Page
  <1>8. ASSUME Logout \/ Revoke \/ UNCHANGED vars PROVE Limited'
    BY <1>8, NobodyGuesses DEF Logout, Revoke, vars, past
  <1>9. ASSUME Tick PROVE Limited'
    BY <1>9, TickLimited
  <1>10. QED
    BY <1>1, <1>2, <1>3, <1>4, <1>5, <1>6, <1>7, <1>8, <1>9 DEF Next, Anonymous

LEMMA InitLimited == Init => Limited
  <1> SUFFICES ASSUME Init PROVE Limited
    OBVIOUS
  <1>1. failed = <<>> /\ failed \in Seq(Times) /\ DOMAIN failed = {}
    BY DEF Init
  <1>2. \A S : Fails(S) = 0
    BY <1>1, FailsNone
  <1>3. Guessing = {} /\ Cardinality({}) = 0
    BY FS_EmptySet DEF Init, Guessing, LoggingIn
  <1>4. Recorded
    <2>1. Fails(Recent) = 0 /\ Fails(Earlier) = 0
      BY <1>2
    <2>2. attempts.failures = 0 /\ attempts.until = 0 /\ now = 1
      BY DEF Init, NoAttempts
    <2>3. QED
      BY <1>1, <2>1, <2>2, NatConstants DEF Recorded
  <1>5. Allowed
    BY <1>3, NatConstants DEF Init, Allowed, NoAttempts
  <1>6. Throttled
    <2>1. ASSUME NEW t \in Times
          PROVE  Cardinality({i \in DOMAIN failed : t <= failed[i] /\ failed[i] <= t + Window})
                    <= 2 * MaxFailures - 1 + count
      <3> DEFINE span == {i \in DOMAIN failed : t <= failed[i] /\ failed[i] <= t + Window}
      <3>1. span = {} /\ count = 0
        BY <1>1 DEF Init
      <3> HIDE DEF span
      <3>2. Cardinality(span) <= 2 * MaxFailures - 1 + count
        BY <3>1, FS_EmptySet, NatConstants
      <3>3. QED
        BY <3>2 DEF span
    <2>2. QED
      BY <2>1 DEF Throttled, Times
  <1>7. QED
    BY <1>4, <1>5, <1>6 DEF Limited

\* SECURITY.md:46: whatever the limits are, however requests overlap and whatever fails, no span
\* as long as a window holds as many failures as two windows, but for those of overlaps.
THEOREM ThrottledHolds == Spec => []Throttled
  <1>1. Limited => Throttled
    BY DEF Limited
  <1>2. QED
    BY <1>1, InitLimited, LimitedStep, AlwaysTyped, PTL DEF Spec
=============================================================================
