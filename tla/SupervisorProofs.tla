---------------------------- MODULE SupervisorProofs ----------------------------
(***************************************************************************)
(* Proofs about Supervisor, for any number of processes, configurations,    *)
(* starts, crashes and refused forks: its types, that two workers live at   *)
(* once only while one of them is leaving, and that the ini file and the    *)
(* environment are read alike where strtol() and atoi() read alike.        *)
(***************************************************************************)
EXTENDS Supervisor, TLAPS

\* A living worker is the one its supervisor waits for, or is leaving.
Alone == \A p \in Pids : Living(p) => p = child \/ Leaving(p)

\* The worker a supervisor waits for has called prctl() once it went on.
ChildGuarded ==
    \A p \in Pids :
        Living(p) /\ p = child => worker[p].step = "forked" \/ worker[p].guarded

IInv == TypeOK /\ Alone /\ ChildGuarded

\* A worker with a step of its own is a whole record.
LEMMA WorkerRecord ==
    ASSUME TypeOK, NEW p \in Pids, worker[p].step # "none"
    PROVE  worker[p] \in Workers \ {NoWorker}
  BY DEF TypeOK, NoWorker

\* The options of any configuration are options.
LEMMA ParsedOptions ==
    ASSUME NEW c \in Configurations
    PROVE  ParseProgramOptions(c) \in Options
  BY DEF Options

\* Ending a worker leaves workers, and that one is dead.
LEMMA Ended ==
    ASSUME TypeOK, NEW p \in Pids, Living(p), End(p)
    PROVE  /\ worker' \in [Pids -> Workers]
           /\ worker'[p].step \in {"none", "dead"}
           /\ \A q \in Pids \ {p} : worker'[q] = worker[q]
<1>1. worker[p] \in Workers \ {NoWorker}
  BY WorkerRecord DEF Living
<1>2. [worker[p] EXCEPT !.step = "dead"] \in Workers
  BY <1>1 DEF Workers, NoWorker
<1>3. NoWorker \in Workers
  BY DEF Workers
<1> QED
  BY <1>1, <1>2, <1>3 DEF End, TypeOK, NoWorker, Workers

LEMMA InitInvariant == Init => IInv
<1> SUFFICES ASSUME Init PROVE IInv
  OBVIOUS
<1>1. worker \in [Pids -> Workers] /\ \A p \in Pids : ~Living(p)
  BY DEF Init, Living, NoWorker, Workers
<1>2. options \in Options
  BY ParsedOptions DEF Init
<1>3. budget \in [starts : 0 .. MaxStarts, crashes : 0 .. MaxCrashes,
                  fork_failures : 0 .. MaxForkFailures]
  BY BoundsAreNaturals DEF Init
<1>4. child = NoPid /\ supervisor = "down" /\ flushing = FALSE
      /\ configuration \in Configurations
  BY DEF Init
<1>5. TypeOK
  BY <1>1, <1>2, <1>3, <1>4 DEF TypeOK
<1> QED
  BY <1>1, <1>5 DEF IInv, Alone, ChildGuarded

\* A change of one worker that ends it, or keeps why it is leaving and whether
\* its prctl() was in time, keeps the invariant.
LEMMA OneWorkerChanged ==
    ASSUME IInv, TypeOK', NEW p \in Pids, child' = child,
           \A q \in Pids \ {p} : worker'[q] = worker[q],
           Living(p)' => /\ Living(p)
                         /\ Leaving(p) => Leaving(p)'
                         /\ p = child => worker'[p].step = "forked" \/ worker'[p].guarded
    PROVE  IInv'
<1>1. Alone'
  BY DEF IInv, Alone, Living, Leaving
<1>2. ChildGuarded'
  BY DEF IInv, ChildGuarded, Living
<1> QED
  BY <1>1, <1>2 DEF IInv

LEMMA NextInvariant == IInv /\ [Next]_vars => IInv'
<1> SUFFICES ASSUME IInv, [Next]_vars PROVE IInv'
  OBVIOUS
<1> USE NoPidIsNoPid, BoundsAreNaturals
<1>0. TypeOK /\ Alone /\ ChildGuarded
  BY DEF IInv
<1>1. CASE Configure
  BY <1>0, <1>1 DEF Configure, IInv, TypeOK, Alone, ChildGuarded, Living, Leaving
<1>2. CASE StartHub
  <2>1. options' \in Options
    BY <1>0, <1>2, ParsedOptions DEF StartHub, TypeOK
  <2>2. TypeOK'
    BY <1>0, <1>2, <2>1 DEF StartHub, TypeOK
  <2> QED
    BY <1>0, <1>2, <2>2 DEF StartHub, IInv, Alone, ChildGuarded, Living, Leaving
<1>3. CASE ForkFails
  BY <1>0, <1>3 DEF ForkFails, IInv, TypeOK, Alone, ChildGuarded, Living, Leaving
<1>4. CASE FlushBegins
  BY <1>0, <1>4 DEF FlushBegins, IInv, TypeOK, Alone, ChildGuarded, Living, Leaving
<1>5. CASE FlushEnds
  BY <1>0, <1>5 DEF FlushEnds, IInv, TypeOK, Alone, ChildGuarded, Living, Leaving
<1>6. CASE KillSupervisor
  <2>1. worker' \in [Pids -> Workers]
    <3> SUFFICES ASSUME NEW p \in Pids PROVE worker'[p] \in Workers
      BY <1>6 DEF KillSupervisor
    <3>1. CASE p # child
      BY <1>0, <1>6, <3>1 DEF KillSupervisor, TypeOK
    <3>2. CASE p = child /\ ~Living(p)
      BY <1>6, <3>2 DEF KillSupervisor, Workers
    <3>3. CASE p = child /\ Living(p)
      <4>1. worker[p] \in Workers \ {NoWorker}
        BY <1>0, <3>3, WorkerRecord DEF Living
      <4> QED
        BY <1>6, <3>3, <4>1 DEF KillSupervisor, Workers, NoWorker
    <3> QED
      BY <3>1, <3>2, <3>3
  <2>2. TypeOK'
    BY <1>0, <1>6, <2>1 DEF KillSupervisor, TypeOK
  <2>3. ASSUME NEW p \in Pids, Living(p)' PROVE Leaving(p)'
    <3>1. CASE p # child
      BY <1>0, <1>6, <2>3, <3>1 DEF KillSupervisor, Alone, Living, Leaving
    <3>2. CASE p = child
      <4>1. Living(p)
        BY <1>6, <2>3, <3>2 DEF KillSupervisor, Living, NoWorker
      <4>2. worker[p] \in Workers \ {NoWorker}
        BY <1>0, <4>1, WorkerRecord DEF Living
      <4>3. worker[p].step = "forked" \/ worker[p].guarded
        BY <1>0, <3>2, <4>1 DEF ChildGuarded
      <4> QED
        BY <1>6, <3>2, <4>1, <4>2, <4>3 DEF KillSupervisor, Leaving, Workers, NoWorker
    <3> QED
      BY <3>1, <3>2
  <2> QED
    BY <1>6, <2>2, <2>3 DEF KillSupervisor, IInv, Alone, ChildGuarded
<1>7. ASSUME NEW p \in Pids, Fork(p) PROVE IInv'
  <2>1. child = NoPid
    BY <1>0, <1>7 DEF Fork, TypeOK
  <2>2. worker'[p] \in Workers /\ worker'[p].step = "forked"
    BY <1>0, <1>7 DEF Fork, TypeOK, Workers
  <2>3. \A q \in Pids \ {p} : worker'[q] = worker[q]
    BY <1>0, <1>7 DEF Fork, TypeOK
  <2>4. TypeOK'
    BY <1>0, <1>7, <2>2 DEF Fork, TypeOK
  <2>5. child' = p
    BY <1>7 DEF Fork
  <2> QED
    BY <1>0, <2>1, <2>2, <2>3, <2>4, <2>5 DEF IInv, Alone, ChildGuarded, Living, Leaving
<1>8. CASE Reap
  <2>1. child \in Pids
    BY <1>0, <1>8 DEF Reap, TypeOK
  <2>2. TypeOK'
    BY <1>0, <1>8, <2>1 DEF Reap, TypeOK, Workers
  <2>3. /\ ~Living(child) /\ worker'[child] = NoWorker
        /\ \A q \in Pids \ {child} : worker'[q] = worker[q]
    BY <1>0, <1>8, <2>1 DEF Reap, TypeOK, Living
  <2>4. child' = NoPid
    BY <1>8 DEF Reap
  <2> QED
    BY <1>0, <2>2, <2>3, <2>4 DEF IInv, Alone, ChildGuarded, Living, Leaving, NoWorker
<1>9. CASE LogRestart
  BY <1>0, <1>9 DEF LogRestart, IInv, TypeOK, Alone, ChildGuarded, Living, Leaving
<1>10. ASSUME NEW p \in Pids, Guard(p) PROVE IInv'
  <2>1. worker[p] \in Workers \ {NoWorker}
    BY <1>0, <1>10, WorkerRecord DEF Guard
  <2>2. worker' = [worker EXCEPT ![p] =
                      [worker[p] EXCEPT !.step = "starting", !.guarded = (p = child)]]
    BY <1>10 DEF Guard
  <2>3. [worker[p] EXCEPT !.step = "starting", !.guarded = (p = child)] \in Workers
    BY <2>1 DEF Workers, NoWorker
  <2>4. TypeOK'
    BY <1>0, <1>10, <2>2, <2>3 DEF Guard, TypeOK
  <2>5. /\ Living(p)
        /\ Leaving(p) => Leaving(p)'
        /\ p = child => worker'[p].guarded
    BY <1>0, <1>10, <2>1, <2>2 DEF Guard, Living, Leaving, TypeOK, Workers, NoWorker
  <2>6. child' = child /\ \A q \in Pids \ {p} : worker'[q] = worker[q]
    BY <1>0, <1>10, <2>2 DEF Guard, TypeOK
  <2> QED
    BY <2>4, <2>5, <2>6, OneWorkerChanged
<1>11. ASSUME NEW p \in Pids, NEW step \in {"bound", "refused", "serving"},
              worker[p].step \in {"starting", "bound", "refused"},
              worker' = [worker EXCEPT ![p].step = step],
              UNCHANGED <<configuration, supervisor, options, child, flushing, budget>>
       PROVE  IInv'
  <2>1. worker[p] \in Workers \ {NoWorker}
    BY <1>0, <1>11, WorkerRecord
  <2>2. [worker[p] EXCEPT !.step = step] \in Workers
    BY <2>1 DEF Workers, NoWorker
  <2>3. TypeOK'
    BY <1>0, <1>11, <2>2 DEF TypeOK
  <2>4. Living(p) /\ (Leaving(p) => Leaving(p)')
    BY <1>0, <1>11, <2>1 DEF Living, Leaving, TypeOK, Workers, NoWorker
  <2>5. p = child => worker'[p].guarded
    BY <1>0, <1>11, <2>1, <2>4 DEF ChildGuarded, TypeOK, Workers, NoWorker
  <2>6. \A q \in Pids \ {p} : worker'[q] = worker[q]
    BY <1>0, <1>11 DEF TypeOK
  <2> QED
    BY <1>11, <2>3, <2>4, <2>5, <2>6, OneWorkerChanged
<1>12. ASSUME NEW p \in Pids, Living(p), End(p), budget' \in [
                  starts : 0 .. MaxStarts, crashes : 0 .. MaxCrashes,
                  fork_failures : 0 .. MaxForkFailures],
              UNCHANGED <<configuration, supervisor, options, child, flushing>>
       PROVE  IInv'
  <2>1. /\ worker' \in [Pids -> Workers] /\ ~Living(p)'
        /\ \A q \in Pids \ {p} : worker'[q] = worker[q]
    BY <1>0, <1>12, Ended DEF Living
  <2>2. TypeOK'
    BY <1>0, <1>12, <2>1 DEF TypeOK
  <2> QED
    BY <1>12, <2>1, <2>2, OneWorkerChanged
<1>13. ASSUME NEW p \in Pids, Bind(p) PROVE IInv'
  BY <1>11, <1>13 DEF Bind
<1>14. ASSUME NEW p \in Pids, LogStarted(p) PROVE IInv'
  <2>1. CASE worker[p].step = "refused"
    BY <1>0, <1>12, <1>14, <2>1 DEF LogStarted, Living, TypeOK
  <2>2. CASE worker[p].step # "refused"
    BY <1>11, <1>14, <2>2 DEF LogStarted
  <2> QED
    BY <2>1, <2>2
<1>15. ASSUME NEW p \in Pids, CrashWorker(p) PROVE IInv'
  <2>1. budget' \in [starts : 0 .. MaxStarts, crashes : 0 .. MaxCrashes,
                     fork_failures : 0 .. MaxForkFailures]
    BY <1>0, <1>15 DEF CrashWorker, TypeOK
  <2> QED
    BY <1>12, <1>15, <2>1 DEF CrashWorker
<1>16. ASSUME NEW p \in Pids, Terminate(p) PROVE IInv'
  BY <1>0, <1>12, <1>16 DEF Terminate, TypeOK
<1>17. CASE UNCHANGED vars
  BY <1>0, <1>17 DEF vars, IInv, TypeOK, Alone, ChildGuarded, Living, Leaving
<1> QED
  BY <1>1, <1>2, <1>3, <1>4, <1>5, <1>6, <1>7, <1>8, <1>9, <1>10, <1>13, <1>14,
     <1>15, <1>16, <1>17 DEF Next, SupervisorStep, WorkerStep

LEMMA InvariantHolds == Spec => []IInv
  BY InitInvariant, NextInvariant, PTL DEF Spec

\* Every variable keeps its type, and the supervisor waits exactly when it has
\* a worker to wait for (management/cpm_hub_starter.cpp:111-124).
THEOREM TypeCorrect == Spec => []TypeOK
<1>1. IInv => TypeOK
  BY DEF IInv
<1> QED
  BY <1>1, InvariantHolds, PTL

\* Two workers live at once only while one of them is about to be ended, or was
\* orphaned before its prctl() (management/cpm_hub_starter.cpp:115-120).
THEOREM WorkersAlone == Spec => []OneWorkerAtATime
<1>1. IInv => OneWorkerAtATime
  BY DEF IInv, Alone, OneWorkerAtATime
<1> QED
  BY <1>1, InvariantHolds, PTL

-------------------------------------------------------------------------------
\* A single digit is its own value in a base that has it.
LEMMA OneDigit ==
    ASSUME NEW base \in Nat, NEW digit \in Nat, digit < base
    PROVE  Value(base, <<digit>>) = digit
<1> DEFINE numeral == <<digit>>
           read == {n \in DOMAIN numeral : \A i \in 1 .. n : numeral[i] < base}
           Step(f) == [n \in 0 .. Len(numeral) |->
                           IF n = 0 THEN 0
                           ELSE IF n \in read THEN base * f[n - 1] + numeral[n]
                           ELSE f[n - 1]]
           upto == CHOOSE f : f = Step(f)
           given == [n \in 0 .. 1 |-> IF n = 0 THEN 0 ELSE digit]
<1>1. Len(numeral) = 1 /\ DOMAIN numeral = {1} /\ numeral[1] = digit
  OBVIOUS
<1>2. 1 \in read
  BY <1>1
<1>3. given = Step(given)
  BY <1>1, <1>2
<1>4. upto = Step(upto)
  BY <1>3, Zenon
<1>5. Value(base, numeral) = upto[1]
  BY <1>1, Zenon DEF Value
<1> HIDE DEF read, upto, numeral
<1>6. \A n \in 0 .. 1 : upto[n] = Step(upto)[n]
  BY <1>4, Zenon
<1>7. upto[0] = 0
  BY <1>1, <1>6
<1>8. upto[1] = base * upto[0] + digit
  BY <1>1, <1>2, <1>6
<1>9. upto[1] = digit
  BY <1>7, <1>8
<1> QED
  BY <1>5, <1>9, Zenon DEF numeral

\* What atoi() reads in the two texts of a switch.
LEMMA SwitchDigits ==
    /\ Numeric("0") /\ Atoi(Numeral["0"]) = 0
    /\ Numeric("1") /\ Atoi(Numeral["1"]) = 1
<1>1. Value(10, <<0>>) = 0 /\ Value(10, <<1>>) = 1
  BY OneDigit
<1>2. Atoi(Numeral["0"]) = 0 /\ Atoi(Numeral["1"]) = 1
  BY <1>1, NumeralAssumption, Zenon DEF Atoi
<1>3. ASSUME NEW digit \in 0 .. 9 PROVE <<digit>> # <<>> /\ <<digit>>[1] < 10
  OBVIOUS
<1>4. /\ <<0>> # <<>> /\ <<0>>[1] < 10
      /\ <<1>> # <<>> /\ <<1>>[1] < 10
  BY <1>3
<1>5. Numeric("0") /\ Numeric("1")
  BY <1>4, NumeralAssumption, Zenon DEF Numeric
<1> QED
  BY <1>2, <1>5

\* strtol() and atoi() read a decimal numeral alike.
LEMMA DecimalsReadAlike ==
    ASSUME NEW text, Decimal(text)
    PROVE  Strtol(Numeral[text]) = Atoi(Numeral[text])
<1>1. CASE Numeral[text][1] # 0
  BY <1>1 DEF Strtol, Atoi, Hexadecimal
<1>2. CASE Numeral[text] = <<0>>
  <2>1. Value(8, <<0>>) = 0 /\ Value(10, <<0>>) = 0
    BY OneDigit
  <2>2. ~Hexadecimal(<<0>>) /\ <<0>>[1] = 0
    BY DEF Hexadecimal
  <2> QED
    BY <1>2, <2>1, <2>2 DEF Strtol, Atoi
<1> QED
  BY <1>1, <1>2 DEF Decimal

\* A number in the ini file and in the environment.
LEMMA IntegersAgree ==
    ASSUME NEW settings, NEW name, NEW default,
           name \in DOMAIN settings => Decimal(settings[name])
    PROVE  GetInteger(settings, name, default) = EnvInt(settings, name, default)
<1>1. CASE name \in DOMAIN settings
  BY <1>1, DecimalsReadAlike DEF GetInteger, EnvInt, Get, Decimal
<1>2. CASE name \notin DOMAIN settings
  BY <1>2, NumeralAssumption DEF GetInteger, EnvInt, Get, Numeric
<1> QED
  BY <1>1, <1>2

\* The two sources read a setting alike, unless it is among those read apart.
LEMMA SettingsReadAlike ==
    ASSUME NEW settings,
           NEW field \in DOMAIN ParseIniFile(settings) \ ReadApart(settings)
    PROVE  ParseIniFile(settings)[field] = ParseEnvironmentVariables(settings)[field]
<1>1. ASSUME NEW name \in IntegerSettings, name = field, NEW default
      PROVE  GetInteger(settings, name, default) = EnvInt(settings, name, default)
  BY <1>1, IntegersAgree DEF ReadApart
<1>2. CASE field \in IntegerSettings
  BY SMTT(60), <1>1, <1>2 DEF IntegerSettings, ParseIniFile, ParseEnvironmentVariables
<1>3. ASSUME field = "security_enabled"
      PROVE  GetBoolean(settings, "security_enabled", FALSE)
                 = EnvBool(settings, "security_enabled", FALSE)
  <2>0. Get(settings, "security_enabled", "0") \in {"0", "1"}
    BY <1>3 DEF ReadApart
  <2> DEFINE ini == GetBoolean(settings, "security_enabled", FALSE)
             env == EnvBool(settings, "security_enabled", FALSE)
  <2>1. CASE "security_enabled" \notin DOMAIN settings
    <3>1. Get(settings, "security_enabled", "") = ""
      BY <2>1 DEF Get
    <3>2. ini = FALSE
      BY <3>1 DEF GetBoolean
    <3>3. env = FALSE
      BY <2>1, Zenon DEF EnvBool
    <3> QED
      BY <3>2, <3>3
  <2>2. CASE "security_enabled" \in DOMAIN settings /\ settings["security_enabled"] = "0"
    <3>1. Get(settings, "security_enabled", "") = "0"
      BY <2>2 DEF Get
    <3>2. ini = FALSE
      BY <3>1 DEF GetBoolean
    <3>3. EnvInt(settings, "security_enabled", 0) = 0
      BY <2>2, SwitchDigits, Zenon DEF EnvInt
    <3>4. env = FALSE
      BY <2>2, <3>3, Zenon DEF EnvBool
    <3> QED
      BY <3>2, <3>4
  <2>3. CASE "security_enabled" \in DOMAIN settings /\ settings["security_enabled"] = "1"
    <3>1. Get(settings, "security_enabled", "") = "1"
      BY <2>3 DEF Get
    <3>2. ini = TRUE
      BY <3>1 DEF GetBoolean
    <3>3. EnvInt(settings, "security_enabled", 0) = 1
      BY <2>3, SwitchDigits, Zenon DEF EnvInt
    <3>4. EnvInt(settings, "security_enabled", 0) # 0
      BY <3>3
    <3>5. env = TRUE
      BY <2>3, <3>4, Zenon DEF EnvBool
    <3> QED
      BY <3>2, <3>5
  <2> QED
    BY <2>0, <2>1, <2>2, <2>3 DEF Get
<1>4. CASE field = "security_enabled"
  <2>1. ParseIniFile(settings)["security_enabled"]
            = GetBoolean(settings, "security_enabled", FALSE)
    BY SMTT(30) DEF ParseIniFile
  <2>2. ParseEnvironmentVariables(settings)["security_enabled"]
            = EnvBool(settings, "security_enabled", FALSE)
    BY SMTT(30) DEF ParseEnvironmentVariables
  <2> QED
    BY Zenon, <1>3, <1>4, <2>1, <2>2
<1>5. CASE field \in {"sqlite_database", "bits_repository_type"}
  <2>1. field \in DOMAIN settings
    BY <1>5 DEF ReadApart
  <2> QED
    BY SMTT(30), <1>5, <2>1 DEF ParseIniFile, ParseEnvironmentVariables, Get
<1>6. CASE field \notin IntegerSettings
                \cup {"security_enabled", "sqlite_database", "bits_repository_type"}
  BY SMTT(60), <1>6 DEF IntegerSettings, ParseIniFile, ParseEnvironmentVariables
<1> QED
  BY <1>2, <1>4, <1>5, <1>6

\* Whatever texts are set, the ini file and the environment give every field the
\* same value, but for the two defaults, the integers that are not in decimals
\* and a switch that is no digit: strtol() and atoi() agree on the rest
\* (management/program_options_parser.cpp:42-121).
THEOREM SourcesReadAlike == Spec => []SourcesAgree
<1>1. SourcesAgree
  BY Zenon, SettingsReadAlike DEF SourcesAgree
<1> QED
  BY <1>1, PTL

===============================================================================
