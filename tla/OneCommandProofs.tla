--------------------------- MODULE OneCommandProofs ---------------------------
(***************************************************************************)
(* What one command goes through, for any arguments, files and bounds.     *)
(*                                                                         *)
(* The start: whatever the flags, the environment, config.toml and its     *)
(* rewrites by others, a command works on the database it was told to,     *)
(* needs a key where it uses a provider, and its exit code tells what      *)
(* became of it.                                                           *)
(*                                                                         *)
(* The calls to the provider: whatever it replies and in whatever order,   *)
(* vectors meet their texts, cache and requests keep to their bounds, and  *)
(* what went wrong is told as what it was.                                 *)
(*                                                                         *)
(* The splitting of a body: the parts are the body, keep the limits, and   *)
(* sections stay whole where they can.                                     *)
(*                                                                         *)
(* The shaping of the answer: whatever the table, the page, the flags and  *)
(* what others forget meanwhile, the answer tells what it leaves out.      *)
(***************************************************************************)
EXTENDS CliStartup, ProviderCalls, TextSplit, AgentSurface, FiniteSetTheorems, WellFoundedInduction, TLAPS

-----------------------------------------------------------------------------
(* Intervals *)

\* An interval of integers is finite.
LEMMA IntervalFinite ==
  ASSUME NEW a \in Int, NEW b \in Int
  PROVE  IsFiniteSet(a..b)
BY FS_Interval

\* The numbers up to n are n.
LEMMA FirstNumbers ==
  ASSUME NEW n \in Nat
  PROVE  IsFiniteSet(1..n) /\ Cardinality(1..n) = n
<1>1. IsFiniteSet(1..n) /\ Cardinality(1..n) = IF 1 > n THEN 0 ELSE n - 1 + 1
  <2>1. 1 \in Int /\ n \in Int
    OBVIOUS
  <2> QED BY <2>1, FS_Interval
<1> QED BY <1>1

-----------------------------------------------------------------------------
(* The start of a command: the inductive invariant *)

\* The databases an invocation may open.
Dbs == {a.db : a \in Argvs} \cup {c.db : c \in ConfigFiles} \cup {"none", "default"}
LastOpened == opened[Len(opened)]
StepsBefore == {"flags", "admission", "client", "backend", "key"}
\* What a command may inherit: what config.toml has named, or the default if it named none.
Inherited == (named \ {"unset"}) \cup (IF "unset" \in named THEN {"default"} ELSE {})

\* The state of main, the policy of validate_flags from then on, and what has been opened.
StartTypes ==
  /\ argv \in Argvs /\ conf \in ConfigFiles /\ rewrites \in Nat /\ DbNamed \in named /\ exit \in Int
  /\ step \in StepsBefore \cup {"work", "do", "report", "gone"} /\ (step = "gone" <=> exit # -1)
  /\ DOMAIN client = {"model", "backend"}
  /\ step \notin {"flags", "gone"} =>
       policy.installed /\ policy.explicit = Persists(argv.command) /\ policy.useActive = argv.useActive
  /\ opened \in Seq(Dbs) /\ Len(opened) <= Resolves(argv.command)
  /\ \A d \in stored : \E i \in DOMAIN opened : opened[i] = d

\* Nothing is stored before the work, nor by a command that stores nothing, nor before the first
\* database is resolved; a command that stores has stored something once a part of it succeeded;
\* an error ends the work, and a refusal or a running job leaves nothing behind.
StartFlow ==
  /\ step \in StepsBefore => opened = << >>
  /\ opened = << >> \/ ~Stores(argv.command) => stored = {}
  /\ step \notin {"report", "gone"} => fails = "none"
  /\ step = "do" => opened # << >> /\ (IF Len(opened) = 1 THEN stored = {} ELSE Stores(argv.command) => stored # {})
  /\ step = "work" /\ opened # << >> /\ Stores(argv.command) => stored # {}
  /\ step = "report" /\ fails = "none" => Len(opened) = Resolves(argv.command) /\ (Stores(argv.command) => stored # {})
  /\ fails \in {"none", "usage"} \cup WorkErrors
  /\ fails \in {"usage", "job-locked"} => stored = {}
  /\ fails = "shutdown" => signalled

\* The database a command works on is the one it was told to.
WorksWhereNamed ==
  step = "do" =>
    /\ Stores(argv.command) => LastOpened = argv.db \/ argv.useActive \/ argv.command = "init"
    /\ argv.db = "unset" /\ "broken" \notin named => LastOpened \in Inherited

\* Told to use a provider without a key for it, main never comes to the work.
Keyless ==
  argv.backend = "openrouter" /\ argv.key = "unset" /\ conf.key = "unset" /\ rewrites = 0 /\ ~Tolerates(argv.command) =>
    /\ opened = << >> /\ step \in StepsBefore \cup {"gone"}
    /\ step = "key" => client.model # "none" /\ client.backend = "openrouter"

StartInv ==
  /\ StartTypes /\ StartFlow /\ WorksWhereNamed /\ Keyless
  /\ StoresWhereNamed /\ InheritsTheActive /\ RefusedStoresNothing /\ ExitTells

\* The invariant implies what the run checks.
LEMMA StartInvSound == StartInv => StartSound
<1> SUFFICES ASSUME StartInv PROVE StartSound
  OBVIOUS
<1>1. StartTypeOK
  BY DEF StartInv, StartTypes, StartTypeOK, StepsBefore
<1>2. NoKeyNoWork
  BY DEF StartInv, Keyless, NoKeyNoWork
<1> QED BY <1>1, <1>2 DEF StartInv, StartSound

\* At the start nothing is opened.
LEMMA StartInitInv == StartInit => StartInv
<1> SUFFICES ASSUME StartInit PROVE StartInv
  OBVIOUS
<1>1. opened = << >> /\ opened \in Seq(Dbs) /\ Len(opened) = 0 /\ stored = {} /\ step = "flags" /\ fails = "none" /\ exit = -1
  BY DEF StartInit
<1>2. StartTypes
  BY <1>1 DEF StartInit, StartTypes, StepsBefore, Resolves, Unbound
<1>3. StartFlow /\ WorksWhereNamed /\ Keyless
  BY <1>1 DEF StartFlow, WorksWhereNamed, Keyless, StepsBefore, WorkErrors
<1>4. StoresWhereNamed /\ InheritsTheActive /\ RefusedStoresNothing /\ ExitTells
  BY <1>1 DEF StoresWhereNamed, InheritsTheActive, RefusedStoresNothing, ExitTells
<1> QED BY <1>2, <1>3, <1>4 DEF StartInv

\* Commands resolve at most two databases, ingest alone the second; those that store change
\* something, and of them only init may inherit its database unasked.
LEMMA CommandFacts ==
  ASSUME NEW c
  PROVE  /\ Resolves(c) \in 0..2 /\ (Resolves(c) = 2 => c = "ingest")
         /\ Stores(c) => Mutates(c) /\ Resolves(c) >= 1 /\ (Persists(c) \/ c = "init")
BY DEF Resolves, Unbound, Stores, Mutates, Persists, MayInherit

\* The exit codes: which errors give 0, a refusal or the shutdown code.
LEMMA ExitCodes ==
  ASSUME NEW e \in {"usage", "low-memory", "slots-full"} \cup WorkErrors
  PROVE  /\ ExitCode(e) \in Nat \ {0, 78, 141} /\ (ExitCode(e) = 19 <=> e = "shutdown")
         /\ ExitCode(e) \in {2, 75, 77} <=> e \in {"usage", "job-locked", "low-memory", "slots-full"}
<1>1. CASE e = "usage"
  <2>1. ExitCode(e) = 2
    BY <1>1 DEF ExitCode
  <2> QED BY <1>1, <2>1
<1>2. CASE e = "low-memory"
  <2>1. ExitCode(e) = 77
    BY <1>2 DEF ExitCode
  <2> QED BY <1>2, <2>1
<1>3. CASE e = "slots-full"
  <2>1. ExitCode(e) = 75
    BY <1>3 DEF ExitCode
  <2> QED BY <1>3, <2>1
<1>4. CASE e = "validation"
  <2>1. ExitCode(e) = 1
    BY <1>4 DEF ExitCode
  <2> QED BY <1>4, <2>1
<1>5. CASE e = "not-found"
  <2>1. ExitCode(e) = 4
    BY <1>5 DEF ExitCode
  <2> QED BY <1>5, <2>1
<1>6. CASE e = "io"
  <2>1. ExitCode(e) = 14
    BY <1>6 DEF ExitCode
  <2> QED BY <1>6, <2>1
<1>7. CASE e = "db-busy"
  <2>1. ExitCode(e) = 15
    BY <1>7 DEF ExitCode
  <2> QED BY <1>7, <2>1
<1>8. CASE e = "job-locked"
  <2>1. ExitCode(e) = 75
    BY <1>8 DEF ExitCode
  <2> QED BY <1>8, <2>1
<1>9. CASE e = "embedding"
  <2>1. ExitCode(e) = 11
    BY <1>9 DEF ExitCode
  <2> QED BY <1>9, <2>1
<1>10. CASE e = "shutdown"
  <2>1. ExitCode(e) = 19
    BY <1>10 DEF ExitCode
  <2> QED BY <1>10, <2>1
<1> QED BY <1>1, <1>2, <1>3, <1>4, <1>5, <1>6, <1>7, <1>8, <1>9, <1>10 DEF WorkErrors

\* An end of main: with which code, given what was stored and what failed.
LEMMA Gone ==
  ASSUME StartInv, step # "gone", NEW code \in Nat, Quits(code),
         code \in {2, 75, 77, 78} => stored = {},
         code = 0 => /\ fails = "none" /\ ~signalled /\ Len(opened) = Resolves(argv.command)
                     /\ Stores(argv.command) => stored # {},
         code = 19 => signalled
  PROVE  StartInv'
<1>1. step' = "gone" /\ exit' = (IF stdout = "open" THEN code ELSE 141)
      /\ UNCHANGED <<argv, conf, policy, heeds, client, target, opened, stored, fails, signalled, stdout, named, rewrites>>
  BY DEF Quits, Leaves
<1>2. StartTypes'
  BY <1>1 DEF StartInv, StartTypes, DbNamed
<1>3. StartFlow'
  BY <1>1 DEF StartInv, StartFlow, StepsBefore
<1>4. WorksWhereNamed' /\ Keyless'
  BY <1>1 DEF StartInv, WorksWhereNamed, Keyless, StepsBefore
<1>5. StoresWhereNamed' /\ InheritsTheActive' /\ RefusedStoresNothing' /\ ExitTells'
  BY <1>1 DEF StartInv, StoresWhereNamed, InheritsTheActive, RefusedStoresNothing, ExitTells
<1> QED BY <1>2, <1>3, <1>4, <1>5 DEF StartInv

\* The steps before the work open nothing.
LEMMA BeforeWork ==
  ASSUME StartInv, ValidateFlags \/ Admit \/ ReadModel \/ (ReadBackend /\ step' # "gone") \/ (ReadKey /\ step' # "gone")
  PROVE  StartInv'
<1>1. /\ step \in StepsBefore /\ step' \in (StepsBefore \ {"flags"}) \cup {"work"}
      /\ UNCHANGED <<argv, conf, target, opened, stored, fails, signalled, stdout, exit, named, rewrites>>
      /\ step = "flags" => policy' = [installed |-> TRUE, explicit |-> Persists(argv.command), useActive |-> argv.useActive]
      /\ step # "flags" => policy' = policy
  BY DEF ValidateFlags, Admit, ReadModel, ReadBackend, ReadKey, Quits, Leaves, StepsBefore
<1>2. opened = << >> /\ Len(opened) = 0 /\ stored = {} /\ fails = "none" /\ exit = -1
  BY <1>1 DEF StartInv, StartFlow, StartTypes, StepsBefore
<1>3. DOMAIN client' = {"model", "backend"}
  BY <1>1 DEF ValidateFlags, Admit, ReadModel, ReadBackend, ReadKey, Quits, Leaves, StartInv, StartTypes
<1>4. StartTypes'
  BY <1>1, <1>2, <1>3 DEF StartInv, StartTypes, StepsBefore, DbNamed
<1>5. StartFlow'
  BY <1>1, <1>2 DEF StartInv, StartFlow, StepsBefore, WorkErrors
<1>6. Keyless'
  <2>1. SUFFICES ASSUME argv.backend = "openrouter", argv.key = "unset", conf.key = "unset", rewrites = 0, ~Tolerates(argv.command)
                 PROVE  step' # "work" /\ (step' = "key" => client'.model # "none" /\ client'.backend = "openrouter")
    BY <1>1, <1>2 DEF Keyless, StepsBefore
  <2>2. Resolved(argv.backend, conf.backend, "auto") = "openrouter" /\ Resolved(argv.key, conf.key, "none") = "none"
    BY <2>1 DEF Resolved, Setting
  <2>3. CASE ReadBackend
    <3>1. client' = [client EXCEPT !.backend = "openrouter"] /\ client.model # "none" /\ step' = "key"
      BY <1>1, <2>1, <2>2, <2>3 DEF ReadBackend, Quits, Leaves, StepsBefore
    <3> QED BY <3>1 DEF StartInv, StartTypes
  <2>4. CASE ReadKey
    BY <1>1, <2>1, <2>2, <2>4 DEF ReadKey, Quits, Leaves, StartInv, Keyless, StepsBefore
  <2>5. CASE ValidateFlags \/ Admit \/ ReadModel
    BY <2>5 DEF ValidateFlags, Admit, ReadModel
  <2> QED BY <2>3, <2>4, <2>5
<1>7. WorksWhereNamed' /\ StoresWhereNamed' /\ InheritsTheActive' /\ RefusedStoresNothing' /\ ExitTells'
  BY <1>1, <1>2 DEF WorksWhereNamed, StoresWhereNamed, InheritsTheActive, RefusedStoresNothing, ExitTells, StepsBefore
<1> QED BY <1>4, <1>5, <1>6, <1>7 DEF StartInv

\* Before the work nothing is stored, so any way out is a refusal like another.
LEMMA RefusedBeforeWork ==
  ASSUME StartInv, RefuseFlags \/ NoMemory \/ NoSlot \/ (ReadBackend /\ step' = "gone") \/ (ReadKey /\ step' = "gone")
  PROVE  StartInv'
<1>1. step \in StepsBefore /\ \E code \in {2, 75, 77, 78} : Quits(code)
  BY DEF RefuseFlags, NoMemory, NoSlot, ReadBackend, ReadKey, ExitCode, StepsBefore
<1>2. stored = {} /\ step # "gone"
  BY <1>1 DEF StartInv, StartFlow, StepsBefore
<1>3. PICK code \in {2, 75, 77, 78} : Quits(code)
  BY <1>1
<1>4. code \in Nat /\ code # 0 /\ code # 19
  OBVIOUS
<1> QED BY <1>2, <1>3, <1>4, Gone

\* A path is resolved: what is opened is where the command was told to work, and what is refused
\* is refused before anything is stored, but for the second part of ingest.
LEMMA ResolveStep ==
  ASSUME StartInv, Resolve
  PROVE  StartInv'
<1> DEFINE c == argv.command
           k == Len(opened) + 1
           d == IF ResolvedDb = ".." \/ ~Allows(Source) THEN "none" ELSE ResolvedDb
           e == IF ResolvedDb = ".." THEN "validation" ELSE "usage"
<1>1. /\ step = "work" /\ Len(opened) < Resolves(c) /\ opened' = Append(opened, d)
      /\ UNCHANGED <<argv, conf, policy, heeds, client, stored, signalled, stdout, exit, named, rewrites>>
      /\ \/ d = "none" /\ FailsPart(k, e)
         \/ d = ResolvedDb /\ Allows(Source) /\ step' = "do" /\ fails' = fails
  BY DEF Resolve
<1>2. StartTypes /\ StartFlow
  BY DEF StartInv
<1>3. Resolves(c) \in 0..2 /\ (Resolves(c) = 2 => c = "ingest") /\ (Stores(c) => Mutates(c) /\ (Persists(c) \/ c = "init"))
  BY CommandFacts
<1>4. d \in Dbs /\ opened \in Seq(Dbs) /\ Len(opened) \in Nat
  BY <1>2 DEF Dbs, StartTypes, ResolvedDb, Resolved, Setting
<1>5. /\ opened' \in Seq(Dbs) /\ Len(opened') = k /\ opened'[k] = d /\ opened' # << >>
      /\ \A i \in DOMAIN opened : i \in DOMAIN opened' /\ opened'[i] = opened[i]
  <2> HIDE DEF d
  <2> QED BY <1>1, <1>4
<1>6. k = 2 => c = "ingest" /\ Swallows(k)
  BY <1>1, <1>3, <1>4 DEF Swallows
<1>7. k = 1 => opened = << >> /\ stored = {}
  BY <1>2, <1>4 DEF StartFlow
<1>8. k \in {1, 2}
  BY <1>1, <1>3, <1>4
<1>9. step' \in {"work", "report", "do"} /\ (step' = "do" => fails' = "none") /\ (step' = "work" => fails' = "none" /\ k = 2)
      /\ (step' = "report" => k = 1 /\ fails' = e)
  BY <1>1, <1>2, <1>6, <1>8 DEF FailsPart, Swallows, StartFlow
<1>10. exit' = -1 /\ fails' \in {"none", "validation", "usage"} /\ (k = 2 /\ Stores(c) => stored # {})
       /\ Len(opened') <= Resolves(c)
  BY <1>1, <1>2, <1>3, <1>4, <1>5, <1>7, <1>9 DEF StartTypes, StartFlow
<1> HIDE DEF d, e
<1>11. StartTypes'
  BY <1>1, <1>2, <1>5, <1>9, <1>10 DEF StartTypes, DbNamed, StepsBefore
<1>12. StartFlow'
  <2>1. step' = "report" => fails' \in {"usage", "validation"}
    BY <1>9 DEF e
  <2>2. ~Stores(c) => stored = {}
    BY <1>2 DEF StartFlow
  <2>3. stored' = stored /\ argv' = argv /\ signalled' = signalled
    BY <1>1
  <2> QED BY <1>5, <1>7, <1>8, <1>9, <1>10, <2>1, <2>2, <2>3 DEF StartFlow, StepsBefore, WorkErrors
<1>13. Keyless'
  BY <1>1, <1>2 DEF StartInv, Keyless, StepsBefore
<1>14. WorksWhereNamed'
  <2>1. SUFFICES ASSUME step' = "do"
                 PROVE  /\ Stores(c) => d = argv.db \/ argv.useActive \/ c = "init"
                        /\ argv.db = "unset" /\ "broken" \notin named => d \in Inherited
    BY <1>1, <1>5 DEF WorksWhereNamed, LastOpened, Inherited
  <2>2. d = ResolvedDb /\ Allows(Source)
    BY <1>1, <2>1 DEF FailsPart
  <2>3. Stores(c) => Source = "argv" \/ argv.useActive \/ c = "init"
    BY <1>1, <1>2, <1>3, <2>2 DEF Allows, StartTypes
  <2>4. Source = "argv" => ResolvedDb = argv.db
    BY DEF Source, ResolvedDb, Resolved
  <2>5. ASSUME argv.db = "unset", "broken" \notin named PROVE ResolvedDb \in Inherited
    <3>1. conf.readable /\ conf.db \in named
      BY <1>2, <2>5 DEF StartTypes, DbNamed
    <3> QED BY <2>5, <3>1 DEF ResolvedDb, Resolved, Setting, Inherited
  <2> QED BY <2>2, <2>3, <2>4, <2>5
<1>15. StoresWhereNamed' /\ InheritsTheActive' /\ RefusedStoresNothing' /\ ExitTells'
  BY <1>1, <1>10 DEF StartInv, StoresWhereNamed, InheritsTheActive, RefusedStoresNothing, ExitTells
<1> QED BY <1>11, <1>12, <1>13, <1>14, <1>15 DEF StartInv

\* The work stores into the database resolved last; a job that runs already is found before that.
LEMMA WorkStep ==
  ASSUME StartInv, NEW e \in WorkErrors \cup {"none"}, Work(e)
  PROVE  StartInv'
<1> DEFINE c == argv.command
           k == Len(opened)
<1>1. /\ step = "do"
      /\ UNCHANGED <<argv, conf, policy, heeds, client, target, opened, signalled, stdout, exit, named, rewrites>>
      /\ stored' = stored \/ (Stores(c) /\ stored' = stored \cup {LastOpened})
      /\ e = "none" /\ Stores(c) => LastOpened \in stored'
      /\ e = "shutdown" => signalled
      /\ e = "job-locked" => (c = "enrich" \/ Swallows(k)) /\ stored' = stored
      /\ \/ (e = "none" \/ Swallows(k)) /\ fails' = "none" /\ step' = "work"
         \/ e # "none" /\ ~Swallows(k) /\ fails' = e /\ step' = "report"
  BY DEF Work, LastOpened, FailsPart
<1>2. StartTypes /\ StartFlow /\ WorksWhereNamed
  BY DEF StartInv
<1>3. Resolves(c) \in 0..2 /\ (c = "enrich" => Resolves(c) = 1)
  BY CommandFacts DEF Resolves, Unbound
<1>4. opened \in Seq(Dbs) /\ opened # << >> /\ k \in Nat /\ k >= 1 /\ k <= Resolves(c)
  BY <1>1, <1>2 DEF StartTypes, StartFlow
<1>5. LastOpened \in Dbs /\ k \in DOMAIN opened /\ opened[k] = LastOpened
  BY <1>4 DEF LastOpened
<1>6. k = 1 => stored = {}
  BY <1>1, <1>2 DEF StartFlow
<1>7. Swallows(k) => k # 1 /\ (Stores(c) => stored # {})
  BY <1>1, <1>2 DEF StartFlow, Swallows
<1>8. step' = "work" /\ Stores(c) => stored' # {}
  BY <1>1, <1>7
<1>9. fails' = "job-locked" => stored' = {}
  <2>1. SUFFICES ASSUME fails' = "job-locked" PROVE stored' = {}
    OBVIOUS
  <2>2. e = "job-locked" /\ ~Swallows(k)
    BY <1>1, <2>1
  <2>3. c = "enrich" /\ stored' = stored
    BY <1>1, <2>2
  <2>4. k = 1
    <3>1. Resolves(c) = 1 /\ k \in Nat /\ k >= 1 /\ k <= Resolves(c)
      BY <1>3, <1>4, <2>3
    <3> HIDE DEF k, c
    <3> QED BY <3>1
  <2> QED BY <1>6, <2>3, <2>4
<1>10. fails' \in {"none"} \cup WorkErrors /\ fails' # "usage" /\ (step' = "report" => fails' # "none")
  BY <1>1 DEF WorkErrors
<1>11. exit' = -1
  BY <1>1, <1>2 DEF StartTypes
<1>12. StartTypes'
  BY <1>1, <1>2, <1>5, <1>11 DEF StartTypes, DbNamed, StepsBefore
<1>13. StartFlow'
  <2>1. step' \in {"work", "report"} /\ (step' = "work" => fails' = "none") /\ opened' = opened /\ argv' = argv /\ signalled' = signalled
    BY <1>1
  <2>2. ~Stores(c) => stored' = {}
    BY <1>1, <1>2 DEF StartFlow
  <2>3. fails' = "shutdown" => signalled
    BY <1>1
  <2> QED BY <1>4, <1>8, <1>9, <1>10, <2>1, <2>2, <2>3 DEF StartFlow, StepsBefore
<1>14. Keyless' /\ WorksWhereNamed'
  BY <1>1, <1>4 DEF StartInv, Keyless, WorksWhereNamed, StepsBefore, LastOpened, Inherited
<1>15. StoresWhereNamed' /\ InheritsTheActive'
  BY <1>1, <1>2 DEF StartInv, StoresWhereNamed, InheritsTheActive, WorksWhereNamed, Inherited
<1>16. RefusedStoresNothing' /\ ExitTells'
  BY <1>11 DEF RefusedStoresNothing, ExitTells
<1> QED BY <1>12, <1>13, <1>14, <1>15, <1>16 DEF StartInv

\* The answer is written or refused; a command that changed something is not refused.
LEMMA EmitStep ==
  ASSUME StartInv, Emit
  PROVE  StartInv'
<1> DEFINE c == argv.command
<1>1. /\ step = "work" /\ Len(opened) = Resolves(c)
      /\ UNCHANGED <<argv, conf, policy, heeds, client, target, opened, stored, signalled, stdout, named, rewrites>>
      /\ \/ ~Mutates(c) /\ fails' = "usage" /\ step' = "report" /\ exit' = exit
         \/ fails' = fails /\ step' = "report" /\ exit' = exit
         \/ fails' = fails /\ step' = "gone" /\ exit' = 141
  BY DEF Emit, Errs, Refuses
<1>2. StartTypes /\ StartFlow /\ exit = -1 /\ fails = "none"
  BY <1>1 DEF StartInv, StartTypes, StartFlow
<1>3. (Stores(c) => Mutates(c) /\ Resolves(c) >= 1) /\ (Len(opened) >= 1 => opened # << >>)
  BY <1>2, CommandFacts DEF StartTypes
<1>4. (Stores(c) => stored # {}) /\ (~Mutates(c) => stored = {})
  BY <1>1, <1>2, <1>3 DEF StartFlow
<1>5. StartTypes'
  BY <1>1, <1>2 DEF StartTypes, DbNamed, StepsBefore
<1>6. StartFlow'
  BY <1>1, <1>2, <1>4 DEF StartFlow, StepsBefore, WorkErrors
<1>7. Keyless' /\ WorksWhereNamed'
  BY <1>1 DEF StartInv, Keyless, WorksWhereNamed, StepsBefore, LastOpened, Inherited
<1>8. StoresWhereNamed' /\ InheritsTheActive' /\ RefusedStoresNothing' /\ ExitTells'
  BY <1>1, <1>2 DEF StartInv, StoresWhereNamed, InheritsTheActive, RefusedStoresNothing, ExitTells
<1> QED BY <1>5, <1>6, <1>7, <1>8 DEF StartInv

\* The end of main.
LEMMA FinishStep ==
  ASSUME StartInv, Finish
  PROVE  StartInv'
<1> DEFINE code == IF fails # "none" THEN ExitCode(fails) ELSE IF signalled THEN 19 ELSE 0
<1>1. step = "report" /\ Quits(code)
  BY DEF Finish
<1>2. StartFlow
  BY DEF StartInv
<1>3. /\ code \in Nat
      /\ code \in {2, 75, 77, 78} => stored = {}
      /\ code = 0 => fails = "none" /\ ~signalled
      /\ code = 19 => signalled
  <2>1. CASE fails = "none"
    BY <2>1
  <2>2. CASE fails # "none"
    <3>1. fails \in {"usage"} \cup WorkErrors /\ fails \notin {"low-memory", "slots-full"}
      BY <1>2, <2>2 DEF StartFlow, WorkErrors
    <3>2. code = ExitCode(fails)
      BY <2>2
    <3> HIDE DEF code
    <3> QED BY <1>2, <2>2, <3>1, <3>2, ExitCodes DEF StartFlow
  <2> QED BY <2>1, <2>2
<1> HIDE DEF code
<1>4. code = 0 => Len(opened) = Resolves(argv.command) /\ (Stores(argv.command) => stored # {})
  BY <1>1, <1>2, <1>3 DEF StartFlow
<1> QED BY <1>1, <1>3, <1>4, Gone

\* A signal, a reader that goes away, and config.toml rewritten by others.
LEMMA AroundStep ==
  ASSUME StartInv, Signal \/ ReaderGoes \/ RewriteConfig
  PROVE  StartInv'
<1>1. CASE Signal
  <2>1. /\ step # "gone" /\ signalled' = TRUE /\ ((step' = step /\ exit' = exit) \/ (step' = "gone" /\ exit' = 130))
        /\ UNCHANGED <<argv, conf, policy, heeds, client, target, opened, stored, fails, stdout, named, rewrites>>
    BY <1>1 DEF Signal
  <2>2. StartTypes' /\ StartFlow'
    BY <2>1 DEF StartInv, StartTypes, StartFlow, DbNamed, StepsBefore
  <2>3. Keyless' /\ WorksWhereNamed'
    BY <2>1 DEF StartInv, Keyless, WorksWhereNamed, StepsBefore, LastOpened, Inherited
  <2>4. exit = -1
    BY <2>1 DEF StartInv, StartTypes
  <2>5. StoresWhereNamed' /\ InheritsTheActive' /\ RefusedStoresNothing' /\ ExitTells'
    BY <2>1, <2>4 DEF StartInv, StoresWhereNamed, InheritsTheActive, RefusedStoresNothing, ExitTells
  <2> QED BY <2>2, <2>3, <2>5 DEF StartInv
<1>2. CASE ReaderGoes
  <2>1. step # "gone" /\ UNCHANGED <<step, argv, conf, policy, heeds, client, target, opened, stored, fails, signalled, exit, named, rewrites>>
    BY <1>2 DEF ReaderGoes
  <2>2. StartTypes' /\ StartFlow'
    BY <2>1 DEF StartInv, StartTypes, StartFlow, DbNamed, StepsBefore
  <2>3. Keyless' /\ WorksWhereNamed'
    BY <2>1 DEF StartInv, Keyless, WorksWhereNamed, StepsBefore, LastOpened, Inherited
  <2>4. exit = -1
    BY <2>1 DEF StartInv, StartTypes
  <2>5. StoresWhereNamed' /\ InheritsTheActive' /\ RefusedStoresNothing' /\ ExitTells'
    BY <2>1, <2>4 DEF StartInv, StoresWhereNamed, InheritsTheActive, RefusedStoresNothing, ExitTells
  <2> QED BY <2>2, <2>3, <2>5 DEF StartInv
<1>3. CASE RewriteConfig
  <2>1. /\ step # "gone" /\ rewrites' = rewrites + 1 /\ conf' \in ConfigFiles /\ named' = named \cup {DbNamed'}
        /\ UNCHANGED <<step, argv, policy, heeds, client, target, opened, stored, fails, signalled, stdout, exit>>
    BY <1>3 DEF RewriteConfig
  <2>2. StartTypes'
    BY <2>1 DEF StartInv, StartTypes
  <2>3. StartFlow'
    BY <2>1 DEF StartInv, StartFlow
  <2>4. rewrites' # 0
    BY <2>1 DEF StartInv, StartTypes
  <2>5. Keyless'
    BY <2>4 DEF Keyless
  <2>6. named \subseteq named' /\ (Inherited \subseteq Inherited')
    BY <2>1 DEF Inherited
  <2>7. WorksWhereNamed'
    BY <2>1, <2>6 DEF StartInv, WorksWhereNamed, LastOpened
  <2>8. InheritsTheActive'
    BY <2>1, <2>6 DEF StartInv, InheritsTheActive, Inherited
  <2>9. StoresWhereNamed' /\ RefusedStoresNothing' /\ ExitTells'
    BY <2>1 DEF StartInv, StoresWhereNamed, RefusedStoresNothing, ExitTells
  <2> QED BY <2>2, <2>3, <2>5, <2>7, <2>8, <2>9 DEF StartInv
<1> QED BY <1>1, <1>2, <1>3

\* Every step keeps the invariant.
LEMMA StartNextInv == StartInv /\ [StartNext]_startVars => StartInv'
<1> SUFFICES ASSUME StartInv, [StartNext]_startVars PROVE StartInv'
  OBVIOUS
<1>1. CASE UNCHANGED startVars
  BY <1>1 DEF startVars, StartInv, StartTypes, StartFlow, WorksWhereNamed, Keyless, DbNamed, LastOpened, Inherited,
              StoresWhereNamed, InheritsTheActive, RefusedStoresNothing, ExitTells
<1>2. CASE ReadBackend \/ ReadKey
  BY <1>2, BeforeWork, RefusedBeforeWork
<1>3. ASSUME NEW e \in WorkErrors \cup {"none"}, Work(e) PROVE StartInv'
  BY <1>3, WorkStep
<1> QED BY <1>1, <1>2, <1>3, BeforeWork, RefusedBeforeWork, ResolveStep, EmitStep, FinishStep, AroundStep DEF StartNext, Main

\* Whatever config.toml becomes during an invocation and whenever a signal comes: a command stores
\* only where it was told to, one that is refused or finds a job running stores nothing, without a
\* key it needs it opens nothing, and its exit code tells which of these it was.
THEOREM StartIsSound == StartSpec => []StartSound
<1>1. StartSpec => []StartInv
  BY StartInitInv, StartNextInv, PTL DEF StartSpec
<1> QED BY <1>1, StartInvSound, PTL

-----------------------------------------------------------------------------
(* Counting up *)

\* The least element of a set of numbers.
LEMMA Least ==
  ASSUME NEW T \in SUBSET Nat, T # {}
  PROVE  \E x \in T : \A y \in T : x <= y
<1>1. PICK x \in T : \A y \in T : <<y, x>> \notin OpToRel(<, Nat)
  <2>1. IsWellFoundedOn(OpToRel(<, Nat), Nat)
    BY NatLessThanWellFounded
  <2> QED BY <2>1, WFMin
<1>2. ASSUME NEW y \in T PROVE x <= y
  <2>1. y < x => <<y, x>> \in OpToRel(<, Nat)
    BY DEF OpToRel
  <2>2. ~(y < x) /\ x \in Nat /\ y \in Nat
    BY <1>1, <2>1
  <2> QED BY <2>2
<1> QED BY <1>2

\* What holds at 0, and at n when it holds at n - 1, holds up to m.
LEMMA UpTo ==
  ASSUME NEW m \in Nat, NEW S, 0 \in S, \A n \in 1..m : n - 1 \in S => n \in S
  PROVE  \A n \in 0..m : n \in S
<1> SUFFICES ASSUME (0..m) \ S # {} PROVE FALSE
  OBVIOUS
<1>1. PICK x \in (0..m) \ S : \A y \in (0..m) \ S : x <= y
  <2>1. (0..m) \ S \in SUBSET Nat
    OBVIOUS
  <2> QED BY <2>1, Least
<1>2. x \in 1..m /\ x - 1 \in 0..m /\ ~(x <= x - 1)
  BY <1>1
<1> QED BY <1>1, <1>2

\* A function over 1..n is a sequence of its values.
LEMMA SequenceOf ==
  ASSUME NEW n \in Nat, NEW V, NEW f \in [1..n -> V]
  PROVE  f \in Seq(V) /\ Len(f) = n /\ DOMAIN f = 1..n
OBVIOUS

-----------------------------------------------------------------------------
(* Sorting by key, cutting into chunks and putting chunks together *)

\* The keys of n items are numbers from 1 to n, each of them once.
Keyed(pairs, n) ==
  /\ Len(pairs) = n
  /\ \A k \in 1..n : pairs[k][1] \in 1..n
  /\ \A j, k \in 1..n : pairs[j][1] = pairs[k][1] => j = k

\* Then every item is found at its key when they are sorted.
LEMMA SortedAtKey ==
  ASSUME NEW pairs, NEW n \in Nat, Keyed(pairs, n)
  PROVE  /\ DOMAIN SortedByKey(pairs) = 1..n /\ Len(SortedByKey(pairs)) = n
         /\ \A k \in 1..n : SortedByKey(pairs)[pairs[k][1]] = pairs[k]
         /\ \A i \in 1..n : \E k \in 1..n : pairs[k][1] = i
<1> USE DEF Keyed
<1> DEFINE f == [k \in 1..n |-> pairs[k][1]]
           lower(k) == {j \in 1..n : pairs[j][1] < pairs[k][1]}
<1>1. f \in Injection(1..n, 1..n)
  BY DEF Injection, IsInjective
<1>2. \A i \in 1..n : \E k \in 1..n : f[k] = i
  <2>1. IsFiniteSet(1..n)
    BY FirstNumbers, Zenon
  <2>2. f \in Surjection(1..n, 1..n)
    BY <1>1, <2>1, FS_Injection
  <2> QED BY <2>2 DEF Surjection
<1>3. ASSUME NEW k \in 1..n PROVE Cardinality(lower(k)) = f[k] - 1
  <2> DEFINE g == [j \in lower(k) |-> f[j]]
             T == 1..(f[k] - 1)
  <2>1. g \in [lower(k) -> T]
    OBVIOUS
  <2>2. \A i \in T : \E j \in lower(k) : g[j] = i
    <3> SUFFICES ASSUME NEW i \in T PROVE \E j \in lower(k) : g[j] = i
      OBVIOUS
    <3>1. i \in 1..n /\ i < f[k]
      OBVIOUS
    <3>2. PICK j \in 1..n : f[j] = i
      BY <1>2, <3>1
    <3>3. j \in lower(k) /\ g[j] = i
      BY <3>1, <3>2
    <3> QED BY <3>3
  <2>3. \A a, b \in lower(k) : g[a] = g[b] => a = b
    OBVIOUS
  <2>4. g \in Bijection(lower(k), T)
    BY <2>1, <2>2, <2>3 DEF Bijection, Injection, Surjection, IsInjective
  <2>5. IsFiniteSet(lower(k))
    <3>1. IsFiniteSet(1..n)
      BY FirstNumbers, Zenon
    <3>2. lower(k) \in SUBSET (1..n)
      OBVIOUS
    <3> QED BY <3>1, <3>2, FS_Subset
  <2>6. ExistsBijection(lower(k), T)
    BY <2>4 DEF ExistsBijection
  <2>7. Cardinality(T) = Cardinality(lower(k))
    BY <2>5, <2>6, FS_Bijection
  <2>8. f[k] \in 1..n
    OBVIOUS
  <2>9. Cardinality(T) = f[k] - 1
    BY <2>8, FS_Interval
  <2> QED BY <2>7, <2>9
<1> DEFINE S == SortedByKey(pairs)
<1>4. S = [i \in 1..n |-> pairs[CHOOSE k \in 1..n : Cardinality(lower(k)) = i - 1]]
  BY DEF SortedByKey
<1>5. ASSUME NEW k \in 1..n PROVE S[pairs[k][1]] = pairs[k]
  <2> DEFINE i == pairs[k][1]
             h == CHOOSE x \in 1..n : Cardinality(lower(x)) = i - 1
  <2>0. Cardinality(lower(k)) = i - 1
    BY <1>3
  <2>1. h \in 1..n /\ Cardinality(lower(h)) = i - 1
    <3> HIDE DEF lower, i
    <3> QED BY <2>0, Zenon
  <2>2. f[h] = f[k]
    <3>1. f[h] \in 1..n /\ f[k] \in 1..n /\ f[h] - 1 = i - 1 /\ f[k] = i
      BY <1>3, <2>1
    <3> QED BY <3>1
  <2>3. h = k
    BY <2>1, <2>2
  <2> HIDE DEF lower
  <2>4. S[i] = pairs[h]
    BY <1>4
  <2> QED BY <2>3, <2>4
<1>6. DOMAIN S = 1..n /\ Len(S) = n
  <2>1. S \in [1..n -> {S[i] : i \in 1..n}]
    BY <1>4, Zenon
  <2> QED BY <2>1, SequenceOf, Zenon
<1> QED BY <1>2, <1>5, <1>6

\* The last text of chunk k.
ChunkEnd(L, k) == IF k * Chunk < L THEN k * Chunk ELSE L
\* How many chunks there are of L texts.
ChunkCount(L) == (L + Chunk - 1) \div Chunk

\* chunk_ranges covers all: the last chunk begins before the end and reaches it.
LEMMA ChunkRange ==
  ASSUME NEW L \in Nat \ {0}
  PROVE  /\ ChunkCount(L) \in Nat \ {0}
         /\ (ChunkCount(L) - 1) * Chunk < L /\ L <= ChunkCount(L) * Chunk
         /\ \A k \in 1..ChunkCount(L) : ChunkEnd(L, k) \in 1..L /\ (k - 1) * Chunk \in 0..(L - 1)
         /\ \A k \in 1..ChunkCount(L) : (k - 1) * Chunk < ChunkEnd(L, k)
         /\ \A k \in 2..ChunkCount(L) : ChunkEnd(L, k - 1) = (k - 1) * Chunk
         /\ ChunkEnd(L, ChunkCount(L)) = L
<1> DEFINE n == ChunkCount(L)
<1>1. Chunk \in Nat \ {0}
  BY CallConstants
<1>2. n \in Nat \ {0} /\ n * Chunk <= L + Chunk - 1 /\ L + Chunk - 1 < n * Chunk + Chunk
  BY <1>1 DEF ChunkCount
<1> HIDE DEF n
<1>3. (n - 1) * Chunk = n * Chunk - Chunk /\ n * Chunk \in Nat
  BY <1>1, <1>2
<1>4. (n - 1) * Chunk < L /\ L <= n * Chunk
  BY <1>1, <1>2, <1>3
<1>5. ASSUME NEW k \in 1..n
      PROVE  /\ (k - 1) * Chunk \in 0..(L - 1) /\ k * Chunk = (k - 1) * Chunk + Chunk
             /\ k < n => k * Chunk <= (n - 1) * Chunk
  <2>1. k * Chunk = (k - 1) * Chunk + Chunk /\ (k - 1) * Chunk \in Nat /\ k * Chunk \in Nat
    BY <1>1, <1>2
  <2>2. (k - 1) * Chunk <= (n - 1) * Chunk
    BY <1>1, <1>2
  <2>3. k < n => k * Chunk <= (n - 1) * Chunk
    BY <1>1, <1>2
  <2> QED BY <1>1, <1>2, <1>3, <1>4, <2>1, <2>2, <2>3
<1>6. ASSUME NEW k \in 1..n PROVE ChunkEnd(L, k) \in 1..L /\ (k - 1) * Chunk < ChunkEnd(L, k)
  BY <1>1, <1>5 DEF ChunkEnd
<1>7. ASSUME NEW k \in 2..n PROVE ChunkEnd(L, k - 1) = (k - 1) * Chunk
  <2>1. k \in 1..n
    BY <1>2
  <2>2. (k - 1) * Chunk < L
    BY <1>5, <2>1
  <2> QED BY <2>2 DEF ChunkEnd
<1>8. ChunkEnd(L, n) = L
  BY <1>3, <1>4 DEF ChunkEnd
<1> QED BY <1>2, <1>4, <1>5, <1>6, <1>7, <1>8 DEF n

\* What is cut into chunks and put together again is what it was.
LEMMA FlattenChunks ==
  ASSUME NEW V, NEW v \in Seq(V), v # <<>>
  PROVE  FlattenSeq(ChunksOf(v)) = v
<1> DEFINE L == Len(v)
           n == ChunkCount(L)
           s == ChunksOf(v)
           F == [i \in 1..n |-> SubSeq(v, 1, ChunkEnd(L, i))]
           Step(g) == [i \in 1..n |-> IF i = 1 THEN s[i] ELSE g[i - 1] \o s[i]]
<1>1. L \in Nat \ {0}
  OBVIOUS
<1> HIDE DEF L
<1>2. /\ n \in Nat \ {0}
      /\ \A k \in 1..n : ChunkEnd(L, k) \in 1..L /\ (k - 1) * Chunk \in 0..(L - 1) /\ (k - 1) * Chunk < ChunkEnd(L, k)
      /\ \A k \in 2..n : ChunkEnd(L, k - 1) = (k - 1) * Chunk
      /\ ChunkEnd(L, n) = L
  BY <1>1, ChunkRange
<1>3. s = [k \in 1..n |-> SubSeq(v, (k - 1) * Chunk + 1, ChunkEnd(L, k))]
  BY DEF ChunksOf, ChunkCount, ChunkEnd, L
<1>4. Len(s) = n /\ DOMAIN s = 1..n
  <2>1. s \in [1..n -> {s[i] : i \in 1..n}]
    BY <1>3, Zenon
  <2> QED BY <1>2, <2>1, SequenceOf, Zenon
<1> HIDE DEF n, s
<1>5. \A k \in 1..n : s[k] = SubSeq(v, (k - 1) * Chunk + 1, ChunkEnd(L, k))
  BY <1>3
<1>6. F = Step(F)
  <2> SUFFICES ASSUME NEW i \in 1..n PROVE F[i] = Step(F)[i]
    OBVIOUS
  <2>1. CASE i = 1
    <3>1. s[1] = SubSeq(v, (1 - 1) * Chunk + 1, ChunkEnd(L, 1))
      BY <1>5, <2>1
    <3>2. (1 - 1) * Chunk + 1 = 1
      BY CallConstants
    <3> QED BY <2>1, <3>1, <3>2
  <2>2. CASE i # 1
    <3> DEFINE a == (i - 1) * Chunk
               b == ChunkEnd(L, i)
    <3>1. i \in 2..n /\ i - 1 \in 1..n
      BY <1>2, <2>2
    <3>2. ChunkEnd(L, i - 1) = a /\ a \in 0..(L - 1) /\ b \in 1..L /\ a < b
      BY <1>2, <3>1
    <3>3. F[i - 1] = SubSeq(v, 1, a) /\ s[i] = SubSeq(v, a + 1, b) /\ F[i] = SubSeq(v, 1, b)
      BY <1>5, <3>1, <3>2
    <3> HIDE DEF a, b
    <3>4. SubSeq(v, 1, b) = SubSeq(v, 1, a) \o SubSeq(v, a + 1, b)
      BY <3>2 DEF L
    <3> QED BY <2>2, <3>3, <3>4
  <2> QED BY <2>1, <2>2
<1>7. ASSUME NEW g, g = Step(g) PROVE \A i \in 1..n : g[i] = F[i]
  <2> DEFINE S == {i \in 0..n : i = 0 \/ g[i] = F[i]}
  <2>1. \A i \in 1..n : i - 1 \in S => i \in S
    <3> SUFFICES ASSUME NEW i \in 1..n, i - 1 \in S PROVE i \in S
      OBVIOUS
    <3> SUFFICES g[i] = F[i]
      BY <1>2
    <3> HIDE DEF F
    <3>1. g[i] = IF i = 1 THEN s[i] ELSE g[i - 1] \o s[i]
      BY <1>7, Zenon
    <3>2. F[i] = IF i = 1 THEN s[i] ELSE F[i - 1] \o s[i]
      BY <1>6, Zenon
    <3>3. i # 1 => i - 1 # 0 /\ g[i - 1] = F[i - 1]
      BY <1>2
    <3> QED BY <3>1, <3>2, <3>3
  <2>2. 0 \in S
    BY <1>2
  <2> HIDE DEF S
  <2>3. \A i \in 0..n : i \in S
    BY <1>2, <2>1, <2>2, UpTo
  <2>4. \A i \in 1..n : i \in 0..n /\ i # 0
    BY <1>2
  <2> HIDE DEF F
  <2> QED BY <2>3, <2>4, Zenon DEF S
<1> DEFINE flatten == CHOOSE g : g = Step(g)
<1>8. flatten = Step(flatten)
  BY <1>6
<1>9. FlattenSeq(s) = flatten[n]
  BY <1>2, <1>4 DEF FlattenSeq
<1> HIDE DEF flatten, F, Step
<1>10. flatten[n] = F[n]
  BY <1>2, <1>7, <1>8
<1>11. F[n] = SubSeq(v, 1, L)
  BY <1>2 DEF F
<1> QED BY <1>9, <1>10, <1>11 DEF L, s

-----------------------------------------------------------------------------
(* Batches and their chunks *)

\* A batch is a sequence of texts.
LEMMA BatchShape ==
  ASSUME NEW b \in Batches
  PROVE  b \in Seq(Texts) /\ Len(b) \in Nat
<1>1. b \in Seq(Range(b))
  BY CallConstants
<1>2. Range(b) \subseteq Texts
  BY DEF Texts
<1> QED BY <1>1, <1>2

\* Every chunk of s is a stretch of it, of texts that follow each other.
Cuts(V, s) ==
  /\ Len(s) \in Nat \ {0} /\ ChunkCount(Len(s)) \in Nat \ {0}
  /\ Len(ChunksOf(s)) = ChunkCount(Len(s)) /\ DOMAIN ChunksOf(s) = 1..ChunkCount(Len(s))
  /\ \A t \in 1..ChunkCount(Len(s)) :
       LET a == (t - 1) * Chunk
           b == ChunkEnd(Len(s), t)
       IN  /\ a \in 0..(Len(s) - 1) /\ b \in 1..Len(s) /\ a < b
           /\ ChunksOf(s)[t] \in Seq(V) /\ Len(ChunksOf(s)[t]) = b - a
           /\ \A i \in 1..(b - a) : ChunksOf(s)[t][i] = s[a + i]

\* So are the chunks of any texts.
LEMMA ChunkShape ==
  ASSUME NEW V, NEW s \in Seq(V), s # <<>>
  PROVE  Cuts(V, s)
<1> DEFINE L == Len(s)
           n == ChunkCount(L)
           S == ChunksOf(s)
<1>1. L \in Nat \ {0}
  OBVIOUS
<1>2. /\ n \in Nat \ {0}
      /\ \A k \in 1..n : ChunkEnd(L, k) \in 1..L /\ (k - 1) * Chunk \in 0..(L - 1) /\ (k - 1) * Chunk < ChunkEnd(L, k)
  BY <1>1, ChunkRange
<1>3. S = [k \in 1..n |-> SubSeq(s, (k - 1) * Chunk + 1, ChunkEnd(L, k))]
  BY DEF ChunksOf, ChunkCount, ChunkEnd
<1>4. Len(S) = n /\ DOMAIN S = 1..n
  <2> HIDE DEF n, S, L
  <2>1. S \in [1..n -> {S[i] : i \in 1..n}]
    BY <1>3, Zenon
  <2> QED BY <1>2, <2>1, SequenceOf, Zenon
<1>5. ASSUME NEW t \in 1..n, NEW a, a = (t - 1) * Chunk, NEW b, b = ChunkEnd(L, t)
      PROVE  /\ a \in 0..(L - 1) /\ b \in 1..L /\ a < b
             /\ S[t] \in Seq(V) /\ Len(S[t]) = b - a
             /\ \A i \in 1..(b - a) : S[t][i] = s[a + i]
  <2>1. a \in 0..(L - 1) /\ b \in 1..L /\ a < b
    BY <1>2, <1>5
  <2>2. S[t] = SubSeq(s, a + 1, b)
    BY <1>3, <1>5
  <2> HIDE DEF S, n
  <2>3. /\ a \in Nat /\ b \in Nat /\ a < b /\ b <= Len(s) /\ Len(s) \in Nat
    BY <1>1, <2>1
  <2>4. SubSeq(s, a + 1, b) \in Seq(V) /\ Len(SubSeq(s, a + 1, b)) = b - a
    BY <2>3
  <2>5. ASSUME NEW i \in 1..(b - a) PROVE SubSeq(s, a + 1, b)[i] = s[a + i]
    BY <2>3, <2>5
  <2> QED BY <2>1, <2>2, <2>4, <2>5
<1> QED BY <1>1, <1>2, <1>4, <1>5 DEF Cuts

\* w holds the texts at the positions miss.
TextsAt(V, texts, miss, w) ==
  /\ texts \in Seq(V) /\ miss \in Seq(1..Len(texts)) /\ miss # <<>>
  /\ w \in Seq(V) /\ Len(w) = Len(miss) /\ \A k \in 1..Len(miss) : w[k] = texts[miss[k]]

\* A chunk of the texts that were asked for holds the texts of a chunk of the positions.
LEMMA ChunkOfTexts ==
  ASSUME NEW V, NEW texts, NEW miss, NEW w, TextsAt(V, texts, miss, w),
         NEW t \in 1..ChunkCount(Len(miss))
  PROVE  /\ ChunksOf(miss)[t] \in Seq(1..Len(texts))
         /\ ChunksOf(w)[t] \in Seq(V)
         /\ ChunksOf(w)[t] = [i \in 1..Len(ChunksOf(miss)[t]) |-> texts[ChunksOf(miss)[t][i]]]
<1> DEFINE L == Len(miss)
           m == ChunksOf(miss)[t]
           x == ChunksOf(w)[t]
           a == (t - 1) * Chunk
           b == ChunkEnd(L, t)
<1> USE DEF TextsAt
<1>1. L \in Nat \ {0} /\ Len(w) = L /\ w # <<>>
  OBVIOUS
<1>2. Cuts(1..Len(texts), miss) /\ Cuts(V, w)
  BY <1>1, ChunkShape, Zenon
<1>4. /\ a \in 0..(L - 1) /\ b \in 1..L /\ a < b
      /\ m \in Seq(1..Len(texts)) /\ Len(m) = b - a /\ \A i \in 1..(b - a) : m[i] = miss[a + i]
  BY <1>2 DEF Cuts
<1>5. x \in Seq(V) /\ Len(x) = b - a /\ \A i \in 1..(b - a) : x[i] = w[a + i]
  BY <1>1, <1>2 DEF Cuts
<1> HIDE DEF m, x, a, b, L
<1>6. ASSUME NEW i \in 1..(b - a) PROVE x[i] = texts[m[i]]
  <2>1. a + i \in 1..L
    BY <1>1, <1>4
  <2>2. w[a + i] = texts[miss[a + i]]
    BY <2>1 DEF L
  <2> QED BY <1>4, <1>5, <2>2
<1>7. x = [i \in 1..Len(m) |-> texts[m[i]]]
  <2>1. x = [i \in 1..(b - a) |-> x[i]]
    BY <1>4, <1>5
  <2> QED BY <1>4, <1>6, <2>1
<1> QED BY <1>4, <1>5, <1>7 DEF m, x

-----------------------------------------------------------------------------
(* The inductive invariant *)

Task == [state: {"sent"}, tries: Nat] \cup [state: {"ok"}, vecs: Seq(Texts)]
        \cup [state: {"failed"}, class: {"transient", "hard"}]
\* The texts a call asks the provider for.
Wanted(r) == [k \in 1..Len(r.miss) |-> r.texts[r.miss[k]]]
Collected(r) == {r.parts[k][1] : k \in 1..Len(r.parts)}

\* Every chunk that came back holds the vectors of its own texts, no chunk is collected
\* twice, and a hard failure is one of something the provider refused.
FanoutOk(r) ==
  /\ r.miss # <<>> /\ Len(r.miss) <= Len(r.texts) /\ r.miss \in Seq(1..Len(r.texts))
  /\ Len(r.tasks) <= ChunkCount(Len(r.miss))
  /\ \A t \in 1..Len(r.tasks) :
       /\ r.tasks[t].state = "ok" => r.tasks[t].vecs = ChunksOf(Wanted(r))[t]
       /\ r.tasks[t].state = "failed" => (r.tasks[t].class = "hard" => r.hard)
  /\ \A k \in 1..Len(r.parts) :
       /\ r.parts[k][1] \in 1..Len(r.tasks)
       /\ r.parts[k][2] = ChunksOf(Wanted(r))[r.parts[k][1]]
  /\ \A j, k \in 1..Len(r.parts) : r.parts[j][1] = r.parts[k][1] => j = k
  /\ Cardinality((1..Len(r.tasks)) \ Collected(r)) <= FanOut

\* The requests of the backends before the one at this place.
Spent(at) == (at - 1) * MaxRetries
\* One round of requests per backend that was tried.
QueryOk(r) ==
  /\ r.pc = "slot" => r.at = 1 /\ r.requests = 0
  /\ r.pc # "slot" => ~r.ftsOnly
  /\ r.pc = "backend" => r.requests <= Spent(r.at)
  /\ r.pc = "request" =>
       /\ r.at <= Len(r.chain.backends) /\ r.chain.backends[r.at] # "none" /\ r.chain.ready
       /\ r.requests <= Spent(r.at) + r.tries /\ r.tries < MaxRetries
  /\ r.at <= Len(r.chain.backends) + 1
  /\ r.at > 1 => r.chain.backends[r.at - 1] # "none"

\* The requests of the budgets before this one.
Rounds(length) == 2 * MaxRetries * length
\* Two rounds per budget of tokens, the second one after a refusal.
TokensOk(tokens) == tokens \in FirstTokens \/ tokens <= TokenCeiling
ChatOk(r) ==
  /\ r.tries < MaxRetries /\ r.length <= LengthRetries /\ TokensOk(r.tokens)
  /\ r.requests <= Rounds(r.length) + (IF r.reasoning THEN 0 ELSE MaxRetries) + r.tries
  /\ ~r.reasoning => r.hard

Lookups == [pc: {"lookup"}, kind: {"entities"}, texts: Batches, hard: {FALSE}]
FanoutRecord ==
  [pc: {"fanout"}, kind: {"entities"}, texts: Batches, miss: Seq(Nat), hard: BOOLEAN,
   tasks: Seq(Task), parts: Seq(Nat \X Seq(Texts))]
Fanouts == {r \in FanoutRecord : FanoutOk(r)}
QueryRecord ==
  [pc: {"slot", "backend", "request"}, kind: {"query"}, chain: BackendChains, at: 1..3, tries: Nat,
   last: Replies \cup {"none"}, requests: Nat, ftsOnly: BOOLEAN, strict: BOOLEAN]
Queries == {r \in QueryRecord : QueryOk(r)}
ChatRecord ==
  [pc: {"chat"}, kind: {"chat"}, reasoning: BOOLEAN, tries: Nat, length: Nat, tokens: Nat, requests: Nat, hard: BOOLEAN]
Chats == {r \in ChatRecord : ChatOk(r)}

Classes == {"transient", "hard"}
Codes   == TransientCodes \cup {"none", "fallback_fts_only", "embedding_failed", "dim_zero"}
EntityResults ==
  {r \in [texts: Batches, out: Batches] : r.out = r.texts}
  \cup {r \in [error: Classes, hard: BOOLEAN] : r.error = "hard" => r.hard}
QueryResults ==
  {r \in [vec: BOOLEAN, code: Codes, exit: {"served", "retry later", "failed"}, asked: BOOLEAN, strict: BOOLEAN, requests: Nat] :
     /\ r.vec <=> r.code = "none"
     /\ r.vec => r.requests > 0
     /\ r.exit = "served" <=> r.vec \/ r.asked \/ ~r.strict}
ChatResults ==
  [json: {TRUE}, requests: Nat]
  \cup {r \in [error: Classes, hard: BOOLEAN, requests: Nat] : r.error = "hard" => r.hard}
Dones ==
  [pc: {"done"}, kind: {"entities"}, result: EntityResults] \cup [pc: {"done"}, kind: {"query"}, result: QueryResults]
  \cup [pc: {"done"}, kind: {"chat"}, result: ChatResults]
States == {NoCall} \cup Lookups \cup Fanouts \cup Queries \cup Chats \cup Dones

CacheOk ==
  /\ IsFiniteSet(cache) /\ CacheBounded
  /\ cache \subseteq [text: Texts, age: 0..ticks]
  /\ \A e, f \in cache : e.text = f.text => e = f
CallInv ==
  /\ call \in [Callers -> States] /\ CacheOk
  /\ calls \in 0..MaxCalls /\ ticks \in 0..MaxTicks

\* At first nobody calls and the cache is empty.
LEMMA CallInit ==
  CallsInit => CallInv
<1> SUFFICES ASSUME CallsInit PROVE CallInv
  OBVIOUS
<1>1. IsFiniteSet({}) /\ Cardinality({}) = 0
  BY FS_EmptySet
<1> QED BY <1>1, CallConstants DEF CallsInit, CallInv, CacheOk, CacheBounded, States

\* A caller goes on to r, the cache as it was.
LEMMA Goes ==
  ASSUME CallInv, NEW c \in Callers, NEW r \in States, Becomes(c, r), UNCHANGED cache
  PROVE  CallInv'
<1>1. call' \in [Callers -> States]
  BY DEF CallInv, Becomes
<1> QED BY <1>1 DEF CallInv, CacheOk, CacheBounded, Becomes

\* A call begins with nothing spent, nothing collected and nothing refused.
LEMMA BeginStep ==
  ASSUME CallInv, NEW c \in Callers, Begin(c)
  PROVE  CallInv'
<1>1. ASSUME NEW r \in States, Begins(c, r) PROVE CallInv'
  <2>1. call' \in [Callers -> States]
    BY <1>1 DEF CallInv, Begins
  <2>2. calls' \in 0..MaxCalls
    BY <1>1, CallConstants DEF CallInv, Begins
  <2> QED BY <1>1, <2>1, <2>2 DEF CallInv, CacheOk, CacheBounded, Begins
<1>2. ASSUME NEW b \in Batches, EmbedEntities(c, b) PROVE CallInv'
  <2>1. [pc |-> "lookup", kind |-> "entities", texts |-> b, hard |-> FALSE] \in States
    BY DEF States, Lookups
  <2> QED BY <1>1, <1>2, <2>1 DEF EmbedEntities
<1>3. ASSUME NEW chain \in BackendChains, NEW f \in BOOLEAN, NEW s \in BOOLEAN, EmbedQuery(c, chain, f, s) PROVE CallInv'
  <2> DEFINE r == [pc |-> "slot", kind |-> "query", chain |-> chain, at |-> 1, tries |-> 0, last |-> "none", requests |-> 0,
                   ftsOnly |-> f, strict |-> s]
  <2>1. Len(chain.backends) \in Nat
    BY DEF BackendChains
  <2>2. r \in Queries
    BY <2>1 DEF Queries, QueryRecord, QueryOk
  <2>3. r \in States
    BY <2>2 DEF States
  <2> QED BY <1>1, <1>3, <2>3 DEF EmbedQuery
<1>4. ASSUME NEW max \in FirstTokens, Complete(c, max) PROVE CallInv'
  <2> DEFINE r == [pc |-> "chat", kind |-> "chat", reasoning |-> TRUE, tries |-> 0, length |-> 0, tokens |-> max,
                   requests |-> 0, hard |-> FALSE]
  <2>1. r \in Chats
    BY CallConstants DEF Rounds, Chats, ChatRecord, ChatOk, TokensOk
  <2>2. r \in States
    BY <2>1 DEF States
  <2> QED BY <1>1, <1>4, <2>2 DEF Complete
<1> QED BY <1>2, <1>3, <1>4 DEF Begin

\* Time passes: entries grow old, none goes.
LEMMA TickStep ==
  ASSUME CallInv, Tick
  PROVE  CallInv'
<1> DEFINE Older(e) == [e EXCEPT !.age = @ + 1]
<1>1. ticks' = ticks + 1 /\ ticks' \in 0..MaxTicks /\ ticks \in Nat
  BY CallConstants DEF CallInv, Tick
<1>2. cache' = {Older(e) : e \in cache}
  BY DEF Tick
<1>3. IsFiniteSet(cache) /\ CacheBounded
  BY DEF CallInv, CacheOk
<1>4. IsFiniteSet({Older(e) : e \in cache}) /\ Cardinality({Older(e) : e \in cache}) <= Cardinality(cache)
  <2> DEFINE T == {Older(e) : e \in cache}
             f == [e \in cache |-> Older(e)]
  <2> HIDE DEF Older
  <2>1. f \in Surjection(cache, T)
    BY DEF Surjection
  <2> HIDE DEF T, f
  <2>2. IsFiniteSet(T) /\ Cardinality(T) <= Cardinality(cache)
    BY <1>3, <2>1, FS_Surjection
  <2> QED BY <2>2 DEF T
<1>5. Cardinality(cache) \in Nat /\ Cardinality(cache') \in Nat
  BY <1>2, <1>3, <1>4, FS_CardinalityType
<1>6. Cardinality(cache) <= Ceiling => Cardinality(cache') <= Ceiling
  BY <1>2, <1>3, <1>4, <1>5, CallConstants
<1>7. ASSUME NEW e \in cache
      PROVE  Older(e) \in [text: Texts, age: 0..ticks'] /\ Older(e).text = e.text
  <2>1. e \in [text: Texts, age: 0..ticks]
    BY DEF CallInv, CacheOk
  <2> QED BY <1>1, <2>1
<1>8. \A e, f \in cache : e.text = f.text => e = f
  BY DEF CallInv, CacheOk
<1> HIDE DEF Older
<1>10. CacheBounded'
  <2>1. {e.text : e \in cache'} \subseteq {e.text : e \in cache}
    BY <1>2, <1>7
  <2> QED BY <1>3, <1>6, <2>1 DEF CacheBounded
<1>9. CacheOk'
  <2>1. cache' \subseteq [text: Texts, age: 0..ticks']
    BY <1>2, <1>7
  <2>2. \A e, f \in cache' : e.text = f.text => e = f
    BY <1>2, <1>7, <1>8
  <2> QED BY <1>2, <1>4, <1>10, <2>1, <2>2 DEF CacheOk
<1> QED BY <1>1, <1>9 DEF CallInv, Tick

-----------------------------------------------------------------------------
(* Queries and chats *)

\* What a caller is doing, from what it stands at.
LEMMA StateOf ==
  ASSUME CallInv, NEW c \in Callers
  PROVE  /\ call[c] \in States
         /\ call[c].pc = "lookup" => call[c] \in Lookups
         /\ call[c].pc = "fanout" => call[c] \in Fanouts
         /\ call[c].pc \in {"slot", "backend", "request"} => call[c] \in Queries
         /\ call[c].pc = "chat" => call[c] \in Chats
         /\ call[c].pc = "done" => call[c] \in Dones
<1>1. call[c] \in States
  BY DEF CallInv
<1>2. /\ \A r \in Lookups : r.pc = "lookup"
      /\ \A r \in Fanouts : r.pc = "fanout"
      /\ \A r \in Queries : r.pc \in {"slot", "backend", "request"}
      /\ \A r \in Chats : r.pc = "chat"
      /\ \A r \in Dones : r.pc = "done"
      /\ NoCall.pc = "idle"
  BY DEF Lookups, Fanouts, FanoutRecord, Queries, QueryRecord, Chats, ChatRecord, Dones, NoCall
<1> QED BY <1>1, <1>2 DEF States

\* What Sent says of an answer that is no success.
LEMMA SentIs ==
  ASSUME NEW tries \in Nat, NEW reply
  PROVE  LET next == Sent(tries, reply)
         IN  \/ /\ next = [state |-> "sent", tries |-> tries + 1] /\ tries + 1 < MaxRetries
             \/ /\ next = [state |-> "failed", class |-> ClassOf(reply)] /\ ClassOf(reply) \in Classes
                /\ ClassOf(reply) = "hard" <=> reply \notin Again \cup {"timeout"}
BY DEF Sent, ClassOf, Classes

\* What Spent says of the two backends a chain may have.
LEMMA SpentIs ==
  /\ Spent(1) = 0 /\ Spent(2) = MaxRetries /\ Spent(3) = 2 * MaxRetries /\ MaxRetries \in Nat \ {0}
  /\ \A at \in 1..3 : Spent(at) \in Nat
  /\ \A at \in 1..2 : Spent(at + 1) = Spent(at) + MaxRetries
<1>1. MaxRetries \in Nat \ {0}
  BY CallConstants
<1>2. Spent(1) = 0 /\ Spent(2) = MaxRetries /\ Spent(3) = 2 * MaxRetries
  BY <1>1 DEF Spent
<1>3. \A at \in 1..3 : at = 1 \/ at = 2 \/ at = 3
  OBVIOUS
<1> QED BY <1>1, <1>2, <1>3

\* Of three backends the last is "none".
LEMMA ChainShape ==
  ASSUME NEW chain \in BackendChains
  PROVE  /\ Len(chain.backends) \in 1..3 /\ chain.ready \in BOOLEAN
         /\ \A i \in 1..Len(chain.backends) : chain.backends[i] # "none" => i \in 1..2
<1>1. /\ chain.ready \in BOOLEAN
      /\ chain.backends \in {<<"openrouter">>, <<"openrouter", "openrouter", "none">>, <<"openrouter", "none">>, <<"none">>}
  BY DEF BackendChains
<1>2. CASE chain.backends = <<"openrouter">>
  BY <1>1, <1>2
<1>3. CASE chain.backends = <<"openrouter", "openrouter", "none">>
  BY <1>1, <1>3
<1>4. CASE chain.backends = <<"openrouter", "none">>
  BY <1>1, <1>4
<1>5. CASE chain.backends = <<"none">>
  BY <1>1, <1>5
<1> QED BY <1>1, <1>2, <1>3, <1>4, <1>5

\* A query goes on.
LEMMA QueryGoes ==
  ASSUME CallInv, NEW c \in Callers, NEW r \in QueryRecord, QueryOk(r), Becomes(c, r), UNCHANGED cache
  PROVE  CallInv'
<1>1. r \in Queries
  BY DEF Queries
<1>2. r \in States
  BY <1>1 DEF States
<1> QED BY <1>2, Goes

\* A query that ends without a vector says why.
LEMMA DegradedStep ==
  ASSUME CallInv, NEW c \in Callers, call[c] \in Queries, NEW code \in Codes \ {"none"},
         code = "fallback_fts_only" <=> call[c].ftsOnly, Degraded(c, code), UNCHANGED cache
  PROVE  CallInv'
<1> DEFINE b == call[c]
           res == [vec |-> FALSE, code |-> code, exit |-> ExitOf(code, b.strict), asked |-> b.ftsOnly,
                   strict |-> b.strict, requests |-> b.requests]
           r == [pc |-> "done", kind |-> b.kind, result |-> res]
<1>1. b.kind = "query" /\ b.strict \in BOOLEAN /\ b.ftsOnly \in BOOLEAN /\ b.requests \in Nat
  BY DEF Queries, QueryRecord
<1>2. res \in QueryResults
  BY <1>1 DEF QueryResults, ExitOf
<1>3. r \in States
  <2> HIDE DEF res
  <2> QED BY <1>1, <1>2 DEF States, Dones
<1>4. Becomes(c, r)
  BY DEF Degraded, Done
<1> QED BY <1>3, <1>4, Goes

\* A query that waits for its slot has asked nothing.
LEMMA AcquireSlotStep ==
  ASSUME CallInv, NEW c \in Callers, AcquireSlot(c)
  PROVE  CallInv'
<1>1. call[c] \in Queries /\ call[c].pc = "slot" /\ UNCHANGED cache
  BY StateOf DEF AcquireSlot
<1>2. call[c].ftsOnly \in BOOLEAN
  BY <1>1 DEF Queries, QueryRecord
<1>3. CASE call[c].ftsOnly /\ Degraded(c, "fallback_fts_only")
  BY <1>1, <1>2, <1>3, DegradedStep DEF Codes
<1>4. CASE ~call[c].ftsOnly /\ Degraded(c, "slot_exhausted")
  BY <1>1, <1>2, <1>4, DegradedStep DEF Codes, TransientCodes
<1>5. CASE ~call[c].ftsOnly /\ Degraded(c, "embedding_failed")
  BY <1>1, <1>2, <1>5, DegradedStep DEF Codes, TransientCodes
<1>6. CASE ~call[c].ftsOnly /\ Becomes(c, [call[c] EXCEPT !.pc = "backend"])
  <2> DEFINE b == call[c]
             r == [b EXCEPT !.pc = "backend"]
  <2>1. b \in QueryRecord /\ b.at = 1 /\ b.requests = 0 /\ b.at <= Len(b.chain.backends) + 1
    BY <1>1 DEF Queries, QueryOk
  <2>2. r \in QueryRecord
    BY <2>1 DEF QueryRecord
  <2>3. /\ r.pc = "backend" /\ r.at = b.at /\ r.requests = b.requests /\ r.chain = b.chain /\ r.ftsOnly = b.ftsOnly
        /\ Becomes(c, r)
    BY <1>6, <2>1 DEF QueryRecord
  <2> HIDE DEF r
  <2>4. QueryOk(r)
    BY <1>6, <2>1, <2>3, SpentIs DEF QueryOk
  <2> QED BY <1>1, <2>2, <2>3, <2>4, QueryGoes
<1> QED BY <1>3, <1>4, <1>5, <1>6 DEF AcquireSlot

\* The next backend has a round of its own; "none" comes last and answers without a vector.
LEMMA TryBackendStep ==
  ASSUME CallInv, NEW c \in Callers, TryBackend(c)
  PROVE  CallInv'
<1> DEFINE b == call[c]
<1>1. b \in Queries /\ b.pc = "backend" /\ UNCHANGED cache
  BY StateOf DEF TryBackend
<1>2. /\ b.chain \in BackendChains /\ b.at \in 1..3 /\ b.requests \in Nat /\ ~b.ftsOnly /\ b.ftsOnly \in BOOLEAN
      /\ b.requests <= Spent(b.at) /\ b.at <= Len(b.chain.backends) + 1
      /\ b.at > 1 => b.chain.backends[b.at - 1] # "none"
  BY <1>1 DEF Queries, QueryRecord, QueryOk
<1>12. b \in QueryRecord
  BY <1>1 DEF Queries
<1>3. /\ Len(b.chain.backends) \in 1..3
      /\ b.at <= Len(b.chain.backends) /\ b.chain.backends[b.at] # "none" => b.at \in 1..2
  BY <1>2, ChainShape
<1>4. ASSUME NEW code \in Codes \ {"none", "fallback_fts_only"}, Degraded(c, code) PROVE CallInv'
  BY <1>1, <1>2, <1>4, DegradedStep
<1>5. CodeOf(b.last) \in Codes \ {"none", "fallback_fts_only"} /\ "dim_zero" \in Codes \ {"none", "fallback_fts_only"}
  BY DEF CodeOf, Codes, TransientCodes
<1>6. CASE b.at > Len(b.chain.backends)
  BY <1>4, <1>5, <1>6 DEF TryBackend
<1>7. CASE ~(b.at > Len(b.chain.backends)) /\ b.chain.backends[b.at] = "none"
  <2>1. Degraded(c, IF b.last = "none" THEN "dim_zero" ELSE CodeOf(b.last))
    BY <1>7 DEF TryBackend
  <2>2. (IF b.last = "none" THEN "dim_zero" ELSE CodeOf(b.last)) \in Codes \ {"none", "fallback_fts_only"}
    BY <1>5
  <2> QED BY <1>4, <2>1, <2>2
<1> DEFINE goes == ~(b.at > Len(b.chain.backends)) /\ b.chain.backends[b.at] # "none"
<1>8. CASE goes /\ ~b.chain.ready
  <2> DEFINE r == [b EXCEPT !.at = @ + 1, !.last = "refused"]
  <2>1. Becomes(c, r)
    BY <1>8 DEF TryBackend
  <2>2. b.at \in 1..2 /\ b.at + 1 \in 1..3 /\ (b.at + 1) - 1 = b.at
    BY <1>2, <1>3, <1>8
  <2>3. r \in QueryRecord
    BY <1>12, <2>2 DEF QueryRecord, Replies
  <2>4. r.pc = "backend" /\ r.at = b.at + 1 /\ r.requests = b.requests /\ r.chain = b.chain /\ r.ftsOnly = b.ftsOnly
    BY <1>1, <1>12 DEF QueryRecord
  <2>5. Spent(b.at + 1) = Spent(b.at) + MaxRetries /\ Spent(b.at) \in Nat /\ MaxRetries \in Nat
    BY <1>2, <2>2, SpentIs
  <2> HIDE DEF r
  <2>7. b.requests <= Spent(r.at) /\ r.at - 1 = b.at /\ r.at <= Len(b.chain.backends) + 1
    <3>1. b.requests \in Nat /\ b.at <= Len(b.chain.backends) /\ Len(b.chain.backends) \in Nat
      <4>1. b.at \in 1..3 /\ b.requests \in Nat
        BY <1>2
      <4>2. Len(b.chain.backends) \in 1..3 /\ ~(b.at > Len(b.chain.backends))
        BY <1>3, <1>8
      <4> QED BY <4>1, <4>2
    <3>2. r.at - 1 = b.at
      BY <2>2, <2>4
    <3>3. r.at <= Len(b.chain.backends) + 1
      BY <2>2, <2>4, <3>1
    <3>4. b.requests <= Spent(r.at)
      BY <1>2, <2>4, <2>5
    <3> QED BY <3>2, <3>3, <3>4
  <2>6. QueryOk(r)
    BY <1>2, <1>8, <2>4, <2>7 DEF QueryOk
  <2> QED BY <1>1, <2>1, <2>3, <2>6, QueryGoes
<1>9. CASE goes /\ b.chain.ready
  <2> DEFINE r == [b EXCEPT !.pc = "request", !.tries = 0]
  <2>1. Becomes(c, r)
    BY <1>9 DEF TryBackend
  <2>2. r \in QueryRecord
    BY <1>12 DEF QueryRecord
  <2>3. /\ r.pc = "request" /\ r.at = b.at /\ r.tries = 0 /\ r.requests = b.requests /\ r.chain = b.chain
        /\ r.ftsOnly = b.ftsOnly
    BY <1>12 DEF QueryRecord
  <2>4. Spent(b.at) \in Nat /\ MaxRetries \in Nat \ {0}
    BY <1>2, SpentIs
  <2> HIDE DEF r
  <2>5. QueryOk(r)
    BY <1>2, <1>3, <1>9, <2>3, <2>4 DEF QueryOk
  <2> QED BY <1>1, <2>1, <2>2, <2>5, QueryGoes
<1>10. b.chain.ready \in BOOLEAN
  BY <1>2, ChainShape
<1> QED BY <1>6, <1>7, <1>8, <1>9, <1>10

\* A backend that fails leaves its round to the next one.
LEMMA QueryRepliesStep ==
  ASSUME CallInv, NEW c \in Callers, NEW reply \in Replies, QueryReplies(c, reply)
  PROVE  CallInv'
<1> DEFINE d == call[c]
           b == [d EXCEPT !.requests = @ + 1]
           next == Sent(d.tries, reply)
<1>1. d \in Queries /\ d.pc = "request" /\ UNCHANGED cache
  BY StateOf DEF QueryReplies
<1>2. /\ d.kind = "query" /\ d.chain \in BackendChains /\ d.at \in 1..3 /\ d.requests \in Nat
      /\ d.tries \in Nat /\ d.strict \in BOOLEAN /\ d.last \in Replies \cup {"none"}
      /\ ~d.ftsOnly /\ d.at <= Len(d.chain.backends) /\ d.chain.backends[d.at] # "none"
      /\ d.chain.ready
      /\ d.requests <= Spent(d.at) + d.tries /\ d.tries < MaxRetries
      /\ d.at > 1 => d.chain.backends[d.at - 1] # "none"
  BY <1>1 DEF Queries, QueryRecord, QueryOk
<1>3. /\ b.tries = d.tries /\ b.requests = d.requests + 1 /\ b.at = d.at /\ b.strict = d.strict
      /\ b.chain = d.chain /\ b.ftsOnly = d.ftsOnly /\ b.pc = "request" /\ b \in QueryRecord
  BY <1>1 DEF Queries, QueryRecord
<1>4. Len(d.chain.backends) \in 1..3 /\ d.at \in 1..2 /\ (d.at + 1) - 1 = d.at
  BY <1>2, ChainShape
<1>5. Spent(d.at + 1) = Spent(d.at) + MaxRetries /\ Spent(d.at) \in Nat /\ MaxRetries \in Nat \ {0}
  BY <1>4, <1>2, SpentIs
<1>6. CASE reply = "ok"
  <2> DEFINE res == [vec |-> TRUE, code |-> "none", exit |-> "served", asked |-> FALSE, strict |-> b.strict, requests |-> b.requests]
             r == [pc |-> "done", kind |-> d.kind, result |-> res]
  <2>1. Becomes(c, r)
    BY <1>6 DEF QueryReplies, Done
  <2>2. res \in QueryResults
    BY <1>2, <1>3 DEF QueryResults, Codes
  <2>3. r \in States
    <3> HIDE DEF res
    <3> QED BY <1>2, <2>2 DEF States, Dones
  <2> QED BY <1>1, <2>1, <2>3, Goes
<1> HIDE DEF b
<1>7. CASE reply # "ok" /\ next.state = "sent"
  <2> DEFINE r == [b EXCEPT !.tries = next.tries]
  <2>1. Becomes(c, r)
    BY <1>3, <1>7 DEF QueryReplies, b
  <2>2. next.tries = d.tries + 1 /\ next.tries < MaxRetries
    BY <1>2, <1>7, SentIs
  <2> HIDE DEF next
  <2>3. r \in QueryRecord
    BY <1>2, <1>3, <2>2 DEF QueryRecord
  <2>4. r.pc = "request" /\ r.at = d.at /\ r.tries = d.tries + 1 /\ r.requests = d.requests + 1 /\ r.chain = d.chain /\ r.ftsOnly = d.ftsOnly
    BY <1>3, <2>2 DEF QueryRecord
  <2> HIDE DEF r
  <2>7. r.tries < MaxRetries
    BY <2>2, <2>4
  <2>8. r.at <= Len(r.chain.backends) + 1
    BY <1>2, <1>4, <2>4
  <2>9. r.requests <= Spent(r.at) + r.tries
    BY <1>2, <1>5, <2>4
  <2>6. r.requests <= Spent(r.at) + r.tries /\ r.tries < MaxRetries /\ r.at <= Len(r.chain.backends) + 1
    BY <2>7, <2>8, <2>9
  <2>5. QueryOk(r)
    BY <1>2, <2>4, <2>6 DEF QueryOk
  <2> QED BY <1>1, <2>1, <2>3, <2>5, QueryGoes
<1>8. CASE reply # "ok" /\ next.state # "sent"
  <2> DEFINE r == [b EXCEPT !.pc = "backend", !.at = @ + 1, !.last = reply]
  <2>1. Becomes(c, r)
    BY <1>3, <1>8 DEF QueryReplies, b
  <2>0. b \in QueryRecord /\ b.at + 1 \in 1..3
    BY <1>3, <1>4
  <2>2. r \in QueryRecord
    BY <2>0 DEF QueryRecord
  <2>3. r.pc = "backend" /\ r.at = d.at + 1 /\ r.requests = d.requests + 1 /\ r.chain = d.chain /\ r.ftsOnly = d.ftsOnly
    BY <1>3 DEF QueryRecord
  <2> HIDE DEF r
  <2>5. r.requests <= Spent(r.at) /\ r.at - 1 = d.at /\ r.at <= Len(r.chain.backends) + 1
    <3>1. r.at - 1 = d.at
      BY <1>4, <2>3
    <3>2. r.at <= Len(r.chain.backends) + 1
      BY <1>2, <1>4, <2>3
    <3>3. r.requests <= Spent(r.at)
      BY <1>2, <1>5, <2>3
    <3> QED BY <3>1, <3>2, <3>3
  <2>4. QueryOk(r)
    BY <1>2, <2>3, <2>5 DEF QueryOk
  <2> QED BY <1>1, <2>1, <2>2, <2>4, QueryGoes
<1> QED BY <1>6, <1>7, <1>8

\* Rounds grow with the budgets, two at a time.
LEMMA RoundsAre ==
  /\ MaxRetries \in Nat \ {0} /\ Rounds(0) = 0 /\ LengthRetries \in Nat
  /\ \A n \in Nat : Rounds(n) \in Nat /\ Rounds(n + 1) = Rounds(n) + 2 * MaxRetries
  /\ \A n \in 0..LengthRetries : Rounds(n) <= Rounds(LengthRetries)
<1>1. MaxRetries \in Nat \ {0} /\ LengthRetries \in Nat
  BY CallConstants
<1>2. ASSUME NEW n \in Nat PROVE Rounds(n) \in Nat /\ Rounds(n + 1) = Rounds(n) + 2 * MaxRetries
  <2> DEFINE R == 2 * MaxRetries
  <2>1. R \in Nat
    BY <1>1
  <2> HIDE DEF R
  <2>2. R * n \in Nat /\ R * (n + 1) = R * n + R
    BY <2>1
  <2> QED BY <2>2 DEF Rounds, R
<1>3. ASSUME NEW n \in 0..LengthRetries PROVE Rounds(n) <= Rounds(LengthRetries)
  <2> DEFINE R == 2 * MaxRetries
  <2>1. R \in Nat
    BY <1>1
  <2> HIDE DEF R
  <2>2. R * n <= R * LengthRetries
    BY <1>1, <2>1
  <2> QED BY <2>2 DEF Rounds, R
<1>4. Rounds(0) = 0
  BY <1>1 DEF Rounds
<1> QED BY <1>1, <1>2, <1>3, <1>4

\* A chat goes on.
LEMMA ChatGoes ==
  ASSUME CallInv, NEW c \in Callers, NEW r \in ChatRecord, ChatOk(r), Becomes(c, r), UNCHANGED cache
  PROVE  CallInv'
<1>1. r \in Chats
  BY DEF Chats
<1>2. r \in States
  BY <1>1 DEF States
<1> QED BY <1>2, Goes

\* A chat ends.
LEMMA ChatEnds ==
  ASSUME CallInv, NEW c \in Callers, call[c].kind = "chat", NEW res \in ChatResults, Done(c, res), UNCHANGED cache
  PROVE  CallInv'
<1> DEFINE r == [pc |-> "done", kind |-> call[c].kind, result |-> res]
<1>1. r \in States
  BY DEF States, Dones
<1>2. Becomes(c, r)
  BY DEF Done
<1> QED BY <1>1, <1>2, Goes

\* What a chat that waits for an answer has spent.
LEMMA ChatFacts ==
  ASSUME NEW d \in ChatRecord, ChatOk(d)
  PROVE  /\ d.kind = "chat" /\ d.reasoning \in BOOLEAN /\ d.tries \in Nat /\ d.length \in 0..LengthRetries /\ d.tokens \in Nat
         /\ d.requests \in Nat /\ d.hard \in BOOLEAN /\ d.tries < MaxRetries /\ TokensOk(d.tokens)
         /\ d.requests <= Rounds(d.length) + (IF d.reasoning THEN 0 ELSE MaxRetries) + d.tries
         /\ ~d.reasoning => d.hard
<1>1. /\ d.kind = "chat" /\ d.reasoning \in BOOLEAN /\ d.tries \in Nat /\ d.length \in Nat /\ d.tokens \in Nat
      /\ d.requests \in Nat /\ d.hard \in BOOLEAN
  BY DEF ChatRecord
<1>2. d.tries < MaxRetries /\ d.length <= LengthRetries /\ TokensOk(d.tokens)
  BY Zenon DEF ChatOk
<1>3. d.requests <= Rounds(d.length) + (IF d.reasoning THEN 0 ELSE MaxRetries) + d.tries
  BY Zenon DEF ChatOk
<1>4. ~d.reasoning => d.hard
  BY Zenon DEF ChatOk
<1>5. d.length \in 0..LengthRetries
  BY <1>1, <1>2, CallConstants
<1> QED BY <1>1, <1>2, <1>3, <1>4, <1>5, Zenon

\* A reply to a chat spends one request; what starts another round is a refusal or a cut answer.
LEMMA ChatRepliedStep ==
  ASSUME CallInv, NEW c \in Callers, NEW reply \in ChatReplies, ChatReplied(c, reply)
  PROVE  CallInv'
<1> DEFINE d == call[c]
<1>0. PICK h \in BOOLEAN : h = (d.hard \/ reply \in Refusals)
  OBVIOUS
<1> DEFINE b == [d EXCEPT !.requests = @ + 1, !.hard = h]
           next == Sent(d.tries, reply)
<1>1. d \in Chats /\ d.pc = "chat" /\ UNCHANGED cache
  BY StateOf DEF ChatReplied
<1>2. /\ d.kind = "chat" /\ d.reasoning \in BOOLEAN /\ d.tries \in Nat /\ d.length \in 0..LengthRetries /\ d.tokens \in Nat
      /\ d.requests \in Nat /\ d.hard \in BOOLEAN /\ d.tries < MaxRetries /\ TokensOk(d.tokens)
      /\ d.requests <= Rounds(d.length) + (IF d.reasoning THEN 0 ELSE MaxRetries) + d.tries
      /\ ~d.reasoning => d.hard
  <2>1. d \in ChatRecord /\ ChatOk(d)
    BY <1>1 DEF Chats
  <2> HIDE DEF d
  <2> QED BY <2>1, ChatFacts, Zenon
<1>3. /\ b \in ChatRecord /\ b.reasoning = d.reasoning /\ b.tries = d.tries /\ b.length = d.length /\ b.tokens = d.tokens
      /\ b.requests = d.requests + 1 /\ b.hard = h
  <2>1. d \in ChatRecord
    BY <1>1 DEF Chats
  <2>2. d.requests + 1 \in Nat
    BY <1>2
  <2> HIDE DEF d
  <2>3. b \in ChatRecord
    BY <2>1, <2>2 DEF ChatRecord
  <2>4. /\ b.reasoning = d.reasoning /\ b.tries = d.tries /\ b.length = d.length /\ b.tokens = d.tokens
        /\ b.requests = d.requests + 1
    BY <2>1 DEF ChatRecord
  <2>5. b.hard = h
    BY <2>1 DEF ChatRecord
  <2> QED BY <2>3, <2>4, <2>5
<1>16. b.hard \in BOOLEAN /\ b.requests \in Nat
  BY <1>2, <1>3
<1>4. next.state = "sent" => next.tries = d.tries + 1 /\ next.tries < MaxRetries
  BY <1>2, SentIs
<1>19. next.state # "sent" => next.class \in Classes /\ (next.class = "hard" => reply \notin Again \cup {"timeout"})
  BY <1>2, SentIs
<1>5. /\ MaxRetries \in Nat \ {0} /\ Rounds(d.length) \in Nat /\ Rounds(d.length + 1) = Rounds(d.length) + 2 * MaxRetries
      /\ d.length \in Nat /\ LengthRetries \in Nat
  <2>1. d.length \in Nat
    BY <1>2
  <2> HIDE DEF d
  <2> QED BY <2>1, RoundsAre, Zenon
<1>17. b = [d EXCEPT !.requests = @ + 1, !.hard = @ \/ reply \in Refusals] /\ next = Sent(b.tries, reply)
  <2>1. b = [d EXCEPT !.requests = @ + 1, !.hard = @ \/ reply \in Refusals]
    <3> HIDE DEF d
    <3> QED BY <1>0
  <2>2. next = Sent(b.tries, reply)
    <3>1. b.tries = d.tries
      BY <1>3
    <3> HIDE DEF b
    <3> QED BY <3>1, Zenon
  <2> QED BY <2>1, <2>2
<1> DEFINE answered == [json |-> TRUE, requests |-> b.requests]
           failed(class) == [error |-> class, hard |-> b.hard, requests |-> b.requests]
           other == reply \in Again \cup {"timeout", "refused"} \/ (reply = "reasoning" /\ ~b.reasoning)
<1> HIDE DEF b, next
\* What the action does, with these names.
<1>18. \/ reply = "ok" /\ Done(c, answered)
       \/ /\ reply = "truncated" /\ b.length < LengthRetries
          /\ Becomes(c, [b EXCEPT !.length = @ + 1, !.tokens = GrowMaxTokens(@), !.reasoning = TRUE, !.tries = 0])
       \/ reply = "truncated" /\ b.length = LengthRetries /\ (Done(c, answered) \/ Done(c, failed("transient")))
       \/ reply = "no json" /\ Done(c, failed("transient"))
       \/ reply = "reasoning" /\ b.reasoning /\ Becomes(c, [b EXCEPT !.reasoning = FALSE, !.tries = 0])
       \/ other /\ next.state = "sent" /\ Becomes(c, [b EXCEPT !.tries = next.tries])
       \/ other /\ next.state # "sent" /\ Done(c, failed(IF b.reasoning THEN next.class ELSE "hard"))
  BY <1>17, Zenon DEF ChatReplied
<1>6. ASSUME Done(c, answered) PROVE CallInv'
  <2>1. answered \in ChatResults
    BY <1>16 DEF ChatResults
  <2> HIDE DEF answered
  <2> QED BY <1>1, <1>2, <1>6, <2>1, ChatEnds
<1>7. ASSUME Done(c, failed("transient")) PROVE CallInv'
  <2>1. failed("transient") \in ChatResults
    BY <1>16 DEF ChatResults, Classes
  <2> HIDE DEF failed
  <2> QED BY <1>1, <1>2, <1>7, <2>1, ChatEnds
<1>8. ASSUME b.length < LengthRetries,
             Becomes(c, [b EXCEPT !.length = @ + 1, !.tokens = GrowMaxTokens(@), !.reasoning = TRUE, !.tries = 0])
      PROVE  CallInv'
  <2> DEFINE r == [b EXCEPT !.length = @ + 1, !.tokens = GrowMaxTokens(@), !.reasoning = TRUE, !.tries = 0]
  <2>1. Becomes(c, r)
    BY <1>8
  <2>2. GrowMaxTokens(d.tokens) \in Nat /\ GrowMaxTokens(d.tokens) <= TokenCeiling
    <3> DEFINE k == d.tokens
    <3>1. k \in Nat
      BY <1>2
    <3> HIDE DEF k
    <3>2. GrowMaxTokens(k) \in Nat /\ GrowMaxTokens(k) <= TokenCeiling
      BY <3>1, CallConstants DEF GrowMaxTokens
    <3> QED BY <3>2 DEF k
  <2>7. b \in ChatRecord /\ b.length + 1 \in Nat /\ GrowMaxTokens(b.tokens) \in Nat
    <3>1. b.length = d.length /\ b.tokens = d.tokens /\ b \in ChatRecord
      BY <1>3
    <3>2. d.length + 1 \in Nat
      BY <1>5
    <3> QED BY <2>2, <3>1, <3>2, Zenon
  <2>3. r \in ChatRecord
    BY <2>7 DEF ChatRecord
  <2>4. /\ r.length = d.length + 1 /\ r.tokens = GrowMaxTokens(d.tokens) /\ r.reasoning = TRUE /\ r.tries = 0
        /\ r.requests = d.requests + 1 /\ r.hard = h
    BY <1>3 DEF ChatRecord
  <2> HIDE DEF r
  <2>5. d.requests + 1 <= Rounds(d.length + 1)
    BY <1>2, <1>5
  <2>8. d.length + 1 <= LengthRetries /\ MaxRetries > 0
    BY <1>3, <1>5, <1>8
  <2>9. r.requests <= Rounds(r.length) + 0 + r.tries
    BY <1>5, <2>4, <2>5, RoundsAre
  <2>6. ChatOk(r)
    BY <2>2, <2>4, <2>8, <2>9 DEF ChatOk, TokensOk
  <2> QED BY <1>1, <2>1, <2>3, <2>6, ChatGoes
<1>11. ASSUME reply = "reasoning", b.reasoning, Becomes(c, [b EXCEPT !.reasoning = FALSE, !.tries = 0]) PROVE CallInv'
  <2> DEFINE r == [b EXCEPT !.reasoning = FALSE, !.tries = 0]
  <2>1. Becomes(c, r)
    BY <1>11
  <2>2. r \in ChatRecord
    BY <1>3 DEF ChatRecord
  <2>3. /\ r.length = d.length /\ r.tokens = d.tokens /\ r.reasoning = FALSE /\ r.tries = 0
        /\ r.requests = d.requests + 1 /\ r.hard = h /\ h
    BY <1>0, <1>3, <1>11 DEF ChatRecord, Refusals
  <2> HIDE DEF r
  <2>4. d.requests + 1 <= Rounds(d.length) + MaxRetries
    BY <1>2, <1>3, <1>5, <1>11
  <2>5. ChatOk(r)
    BY <1>2, <1>5, <2>3, <2>4 DEF ChatOk
  <2> QED BY <1>1, <2>1, <2>2, <2>5, ChatGoes
<1>12. ASSUME next.state = "sent", Becomes(c, [b EXCEPT !.tries = next.tries]) PROVE CallInv'
  <2> DEFINE r == [b EXCEPT !.tries = next.tries]
  <2>1. Becomes(c, r)
    BY <1>12
  <2>2. next.tries = d.tries + 1 /\ next.tries < MaxRetries
    BY <1>4, <1>12
  <2>3. r \in ChatRecord
    BY <1>2, <1>3, <2>2 DEF ChatRecord
  <2>4. /\ r.length = d.length /\ r.tokens = d.tokens /\ r.reasoning = d.reasoning /\ r.tries = d.tries + 1
        /\ r.requests = d.requests + 1 /\ r.hard = h
    BY <1>3, <2>2 DEF ChatRecord
  <2> HIDE DEF r
  <2>5. d.requests + 1 <= Rounds(d.length) + (IF d.reasoning THEN 0 ELSE MaxRetries) + (d.tries + 1)
    BY <1>2, <1>5
  <2>6. ~d.reasoning => h
    BY <1>0, <1>2
  <2>7. ChatOk(r)
    BY <1>2, <2>2, <2>4, <2>5, <2>6 DEF ChatOk
  <2> QED BY <1>1, <2>1, <2>3, <2>7, ChatGoes
<1>13. ASSUME other, next.state # "sent", Done(c, failed(IF b.reasoning THEN next.class ELSE "hard")) PROVE CallInv'
  <2> DEFINE res == failed(IF b.reasoning THEN next.class ELSE "hard")
  <2>1. Done(c, res)
    BY <1>13
  <2>2. next.class \in Classes /\ (next.class = "hard" => reply \notin Again \cup {"timeout"})
    BY <1>19, <1>13
  <2>3. reply \notin Again \cup {"timeout"} => reply \in Refusals
    BY <1>13 DEF ChatReplies, Refusals
  <2>4. res.error = "hard" => b.hard
    BY <1>0, <1>2, <1>3, <2>2, <2>3
  <2>6. (IF b.reasoning THEN next.class ELSE "hard") \in Classes
    BY <2>2 DEF Classes
  <2>5. res \in ChatResults
    BY <1>16, <2>4, <2>6 DEF ChatResults
  <2> HIDE DEF res
  <2> QED BY <1>1, <1>2, <2>1, <2>5, ChatEnds
<1> QED BY <1>6, <1>7, <1>8, <1>11, <1>12, <1>13, <1>18

-----------------------------------------------------------------------------
(* Texts of entities *)

\* A fan-out goes on.
LEMMA FanoutGoes ==
  ASSUME CallInv, NEW c \in Callers, NEW r \in FanoutRecord, FanoutOk(r), Becomes(c, r), UNCHANGED cache
  PROVE  CallInv'
<1>1. r \in Fanouts
  BY DEF Fanouts
<1>2. r \in States
  BY <1>1 DEF States
<1> QED BY <1>2, Goes

\* A call for entity texts ends.
LEMMA EntitiesEnd ==
  ASSUME CallInv, NEW c \in Callers, call[c].kind = "entities", NEW res \in EntityResults, Done(c, res), UNCHANGED cache
  PROVE  CallInv'
<1> DEFINE r == [pc |-> "done", kind |-> call[c].kind, result |-> res]
<1>1. r \in States
  BY DEF States, Dones
<1>2. Becomes(c, r)
  BY DEF Done
<1> QED BY <1>1, <1>2, Goes

\* What the cache has not got is asked for, in its order.
LEMMA LookupStep ==
  ASSUME CallInv, NEW c \in Callers, LookupCache(c)
  PROVE  CallInv'
<1> DEFINE texts == call[c].texts
           M == Misses(texts)
           n == Cardinality(M)
<1>1. call[c] \in Lookups /\ call[c].kind = "entities" /\ texts \in Batches /\ UNCHANGED cache
  BY StateOf DEF LookupCache, Lookups
<1>2. texts \in Seq(Texts) /\ Len(texts) \in Nat
  BY <1>1, BatchShape
<1>3. CASE M = {}
  <2> DEFINE res == [texts |-> texts, out |-> texts]
  <2>1. Done(c, res)
    BY <1>3 DEF LookupCache
  <2>2. res \in EntityResults
    BY <1>1 DEF EntityResults
  <2> HIDE DEF res
  <2> QED BY <1>1, <2>1, <2>2, EntitiesEnd
<1>4. CASE M # {}
  <2> DEFINE Start(miss) == [pc |-> "fanout", kind |-> "entities", texts |-> texts, miss |-> miss, hard |-> FALSE,
                            tasks |-> <<>>, parts |-> <<>>]
  <2>1. PICK miss \in [1..n -> M] : Becomes(c, Start(miss))
    BY <1>4 DEF LookupCache
  <2>2. M \in SUBSET (1..Len(texts))
    BY DEF Misses
  <2>3. IsFiniteSet(1..Len(texts)) /\ Cardinality(1..Len(texts)) = Len(texts)
    <3> DEFINE L == Len(texts)
    <3>1. L \in Nat /\ L \in Int
      BY <1>2
    <3> HIDE DEF L
    <3>2. IsFiniteSet(1..L) /\ Cardinality(1..L) = L
      BY <3>1, FirstNumbers, Zenon
    <3> QED BY <3>2 DEF L
  <2>4. IsFiniteSet(M) /\ n <= Len(texts) /\ n \in Nat /\ n # 0
    <3>1. IsFiniteSet(M) /\ n <= Len(texts)
      BY <2>2, <2>3, FS_Subset
    <3>2. n \in Nat /\ n # 0
      BY <1>4, <3>1, FS_CardinalityType, FS_EmptySet
    <3> QED BY <3>1, <3>2
  <2> HIDE DEF n, M
  <2>5. miss \in [1..n -> 1..Len(texts)] /\ miss \in [1..n -> Nat]
    <3>1. M \subseteq Nat
      BY <1>2, <2>2
    <3> QED BY <2>1, <2>2, <3>1
  <2>6. miss \in Seq(1..Len(texts)) /\ miss \in Seq(Nat) /\ Len(miss) = n /\ miss # <<>>
    BY <2>4, <2>5, SequenceOf
  <2> DEFINE r == Start(miss)
  <2>7. r \in FanoutRecord
    BY <1>1, <2>6 DEF FanoutRecord
  <2>8. FanoutOk(r)
    <3>1. ChunkCount(Len(miss)) \in Nat
      BY <2>4, <2>6, ChunkRange
    <3>2. (1..Len(r.tasks)) \ Collected(r) = {} /\ Cardinality({}) = 0
      BY FS_EmptySet DEF Collected
    <3>3. FanOut \in Nat
      BY CallConstants
    <3>4. /\ r.miss = miss /\ r.texts = texts /\ Len(r.tasks) = 0 /\ Len(r.parts) = 0
      OBVIOUS
    <3> HIDE DEF r
    <3> QED BY <2>4, <2>6, <3>1, <3>2, <3>3, <3>4 DEF FanoutOk
  <2> HIDE DEF r
  <2>9. Becomes(c, r)
    BY <2>1 DEF r
  <2> QED BY <1>1, <2>7, <2>8, <2>9, FanoutGoes
<1> QED BY <1>3, <1>4

\* A caller whose requests are on their way.
LEMMA FanoutShape ==
  ASSUME CallInv, NEW c \in Callers, call[c].pc = "fanout"
  PROVE  LET r == call[c]
         IN  /\ r \in FanoutRecord /\ FanoutOk(r) /\ r.kind = "entities" /\ r.pc = "fanout"
             /\ r.texts \in Batches /\ r.texts \in Seq(Texts) /\ Len(r.texts) \in Nat
             /\ r.miss \in Seq(1..Len(r.texts)) /\ r.miss # <<>> /\ Len(r.miss) \in Nat \ {0} /\ Len(r.miss) <= Len(r.texts)
             /\ r.tasks \in Seq(Task) /\ Len(r.tasks) \in Nat
             /\ r.parts \in Seq(Nat \X Seq(Texts)) /\ Len(r.parts) \in Nat
             /\ r.hard \in BOOLEAN
             /\ Len(Chunks(c)) = ChunkCount(Len(r.miss)) /\ ChunkCount(Len(r.miss)) \in Nat
             /\ Joined(c) = Collected(r) /\ InFlight(c) = (1..Len(r.tasks)) \ Collected(r)
<1> DEFINE r == call[c]
<1>1. r \in FanoutRecord /\ FanoutOk(r)
  BY StateOf DEF Fanouts
<1>2. /\ r.kind = "entities" /\ r.texts \in Batches /\ r.tasks \in Seq(Task) /\ r.parts \in Seq(Nat \X Seq(Texts))
      /\ r.hard \in BOOLEAN /\ r.miss \in Seq(Nat)
  BY <1>1 DEF FanoutRecord
<1>3. r.texts \in Seq(Texts) /\ Len(r.texts) \in Nat
  BY <1>2, BatchShape
<1>4. r.miss \in Seq(1..Len(r.texts)) /\ r.miss # <<>> /\ Len(r.miss) <= Len(r.texts)
  BY <1>1 DEF FanoutOk
<1>5. Cuts(1..Len(r.texts), r.miss)
  BY <1>4, ChunkShape
<1>6. Len(Chunks(c)) = ChunkCount(Len(r.miss)) /\ ChunkCount(Len(r.miss)) \in Nat /\ Len(r.miss) \in Nat \ {0}
  BY <1>5 DEF Cuts, Chunks
<1>7. Joined(c) = Collected(r) /\ InFlight(c) = (1..Len(r.tasks)) \ Collected(r)
  BY DEF Joined, Collected, InFlight
<1>8. Len(r.tasks) \in Nat /\ Len(r.parts) \in Nat
  BY <1>2
<1> HIDE DEF r
<1> QED BY <1>1, <1>2, <1>3, <1>4, <1>6, <1>7, <1>8 DEF r

\* One more chunk is sent while fewer than FanOut are in flight.
LEMMA SpawnStep ==
  ASSUME CallInv, NEW c \in Callers, SpawnChunk(c)
  PROVE  CallInv'
<1> DEFINE d == call[c]
           w == [state |-> "sent", tries |-> 0]
           n == Len(d.tasks)
           r == [d EXCEPT !.tasks = Append(@, w)]
           F == (1..n) \ Collected(d)
<1>1. d.pc = "fanout" /\ Becomes(c, r) /\ UNCHANGED cache /\ n < Len(Chunks(c)) /\ Cardinality(InFlight(c)) < FanOut
  BY DEF SpawnChunk
<1>2. /\ d \in FanoutRecord /\ FanoutOk(d) /\ d.tasks \in Seq(Task) /\ n \in Nat /\ Len(d.parts) \in Nat
      /\ Len(Chunks(c)) = ChunkCount(Len(d.miss)) /\ ChunkCount(Len(d.miss)) \in Nat /\ InFlight(c) = F
  BY <1>1, FanoutShape
<1>3. w \in Task
  BY DEF Task
<1> HIDE DEF w
<1>4. Append(d.tasks, w) \in Seq(Task) /\ Len(Append(d.tasks, w)) = n + 1
      /\ \A t \in 1..n : Append(d.tasks, w)[t] = d.tasks[t]
  BY <1>2, <1>3
<1>5. Append(d.tasks, w)[n + 1] = w
  BY <1>2, <1>3
<1> HIDE DEF d
<1>6. r \in FanoutRecord
  BY <1>2, <1>4 DEF FanoutRecord
<1>7. /\ r.tasks = Append(d.tasks, w) /\ r.miss = d.miss /\ r.texts = d.texts /\ r.parts = d.parts /\ r.hard = d.hard
  BY <1>2 DEF FanoutRecord
<1> HIDE DEF r
<1>8. Collected(r) = Collected(d) /\ Wanted(r) = Wanted(d)
  BY <1>7 DEF Collected, Wanted
<1>9. Cardinality((1..(n + 1)) \ Collected(r)) <= FanOut
  <2>1. IsFiniteSet(1..n) /\ F \in SUBSET (1..n)
    <3>1. F \in SUBSET (1..n)
      OBVIOUS
    <3> HIDE DEF F, n
    <3>2. n \in Int
      BY <1>2
    <3> QED BY <3>1, <3>2, FS_Interval
  <2>2. IsFiniteSet(F)
    BY <2>1, FS_Subset
  <2>3. /\ IsFiniteSet(F \cup {n + 1})
        /\ Cardinality(F \cup {n + 1}) = IF n + 1 \in F THEN Cardinality(F) ELSE Cardinality(F) + 1
    BY <2>2, FS_AddElement
  <2>4. Cardinality(F) \in Nat /\ FanOut \in Nat /\ Cardinality(F \cup {n + 1}) \in Nat
    BY <2>2, <2>3, FS_CardinalityType, CallConstants
  <2>5. Cardinality(F \cup {n + 1}) <= FanOut
    BY <1>1, <1>2, <2>3, <2>4
  <2>6. (1..(n + 1)) \ Collected(r) \in SUBSET (F \cup {n + 1})
    BY <1>2, <1>8
  <2>7. Cardinality((1..(n + 1)) \ Collected(r)) <= Cardinality(F \cup {n + 1}) /\ IsFiniteSet((1..(n + 1)) \ Collected(r))
    BY <2>3, <2>6, FS_Subset
  <2>8. Cardinality((1..(n + 1)) \ Collected(r)) \in Nat
    BY <2>7, FS_CardinalityType
  <2> HIDE DEF F
  <2> QED BY <2>4, <2>5, <2>7, <2>8
<1>10. FanoutOk(r)
  <2>1. /\ r.miss # <<>> /\ Len(r.miss) <= Len(r.texts) /\ r.miss \in Seq(1..Len(r.texts))
    BY <1>2, <1>7 DEF FanoutOk
  <2>2. Len(r.tasks) = n + 1 /\ Len(r.tasks) <= ChunkCount(Len(r.miss))
    BY <1>1, <1>2, <1>4, <1>7
  <2>3. ASSUME NEW t \in 1..Len(r.tasks)
        PROVE  /\ r.tasks[t].state = "ok" => r.tasks[t].vecs = ChunksOf(Wanted(r))[t]
               /\ r.tasks[t].state = "failed" => (r.tasks[t].class = "hard" => r.hard)
    <3>1. CASE t \in 1..n
      <4>1. r.tasks[t] = d.tasks[t]
        BY <1>4, <1>7, <3>1
      <4> QED BY <1>2, <1>7, <1>8, <3>1, <4>1 DEF FanoutOk
    <3>2. CASE t = n + 1
      BY <1>5, <1>7, <3>2 DEF w
    <3> QED BY <1>2, <2>2, <3>1, <3>2
  <2>4. \A k \in 1..Len(r.parts) :
          /\ r.parts[k][1] \in 1..Len(r.tasks)
          /\ r.parts[k][2] = ChunksOf(Wanted(r))[r.parts[k][1]]
    <3>1. \A k \in 1..Len(d.parts) : d.parts[k][1] \in 1..n /\ d.parts[k][2] = ChunksOf(Wanted(d))[d.parts[k][1]]
      BY <1>2 DEF FanoutOk
    <3>2. 1..n \subseteq 1..Len(r.tasks)
      BY <1>2, <2>2
    <3> QED BY <1>7, <1>8, <3>1, <3>2
  <2>5. \A j, k \in 1..Len(r.parts) : r.parts[j][1] = r.parts[k][1] => j = k
    BY <1>2, <1>7 DEF FanoutOk
  <2>6. Cardinality((1..Len(r.tasks)) \ Collected(r)) <= FanOut
    BY <1>9, <2>2
  <2> QED BY <2>1, <2>2, <2>3, <2>4, <2>5, <2>6 DEF FanoutOk
<1> QED BY <1>1, <1>6, <1>10, FanoutGoes DEF r, d

\* A task that was sent becomes w, and perhaps a refusal is noted.
LEMMA TaskChanges ==
  ASSUME CallInv, NEW c \in Callers, call[c].pc = "fanout", UNCHANGED cache,
         NEW t \in 1..Len(call[c].tasks), call[c].tasks[t].state = "sent", NEW w \in Task,
         w.state = "ok" => w.vecs = ChunksOf(Wanted(call[c]))[t],
         NEW r \in FanoutRecord, Becomes(c, r), r.texts = call[c].texts, r.miss = call[c].miss, r.parts = call[c].parts,
         r.tasks = [call[c].tasks EXCEPT ![t] = w],
         call[c].hard => r.hard, w.state = "failed" => (w.class = "hard" => r.hard)
  PROVE  CallInv'
<1> DEFINE d == call[c]
<1>1. FanoutOk(d) /\ d.tasks \in Seq(Task) /\ Len(d.tasks) \in Nat
  BY FanoutShape
<1>2. Len(r.tasks) = Len(d.tasks) /\ r.tasks[t] = w /\ \A u \in 1..Len(d.tasks) : u # t => r.tasks[u] = d.tasks[u]
  BY <1>1
<1> HIDE DEF d
<1>3. r.texts = d.texts /\ r.miss = d.miss /\ r.parts = d.parts /\ (d.hard => r.hard)
  BY DEF d
<1>4. Collected(r) = Collected(d) /\ Wanted(r) = Wanted(d)
  BY <1>3 DEF Collected, Wanted
<1>5. FanoutOk(r)
  <2>1. /\ r.miss # <<>> /\ Len(r.miss) <= Len(r.texts) /\ r.miss \in Seq(1..Len(r.texts))
        /\ Len(r.tasks) <= ChunkCount(Len(r.miss))
    BY <1>1, <1>2, <1>3 DEF FanoutOk
  <2>2. ASSUME NEW u \in 1..Len(r.tasks)
        PROVE  /\ r.tasks[u].state = "ok" => r.tasks[u].vecs = ChunksOf(Wanted(r))[u]
               /\ r.tasks[u].state = "failed" => (r.tasks[u].class = "hard" => r.hard)
    <3>1. CASE u = t
      BY <1>2, <1>4, <3>1 DEF d
    <3>2. CASE u # t
      <4>1. u \in 1..Len(d.tasks) /\ r.tasks[u] = d.tasks[u]
        BY <1>2, <3>2
      <4> QED BY <1>1, <1>3, <1>4, <4>1 DEF FanoutOk
    <3> QED BY <3>1, <3>2
  <2>3. \A k \in 1..Len(r.parts) :
          /\ r.parts[k][1] \in 1..Len(r.tasks)
          /\ r.parts[k][2] = ChunksOf(Wanted(r))[r.parts[k][1]]
    BY <1>1, <1>2, <1>3, <1>4 DEF FanoutOk
  <2>4. \A j, k \in 1..Len(r.parts) : r.parts[j][1] = r.parts[k][1] => j = k
    BY <1>1, <1>3 DEF FanoutOk
  <2>5. Cardinality((1..Len(r.tasks)) \ Collected(r)) <= FanOut
    BY <1>1, <1>2, <1>4 DEF FanoutOk
  <2> QED BY <2>1, <2>2, <2>3, <2>4, <2>5 DEF FanoutOk
<1> QED BY <1>5, FanoutGoes

\* Vectors in any order are put in the order of their texts.
LEMMA VectorsAreSorted ==
  ASSUME CallInv, NEW c \in Callers, call[c].pc = "fanout", NEW t \in 1..Len(call[c].tasks),
         NEW o \in Orders(Len(Chunks(c)[t]))
  PROVE  Vectors(c, t, o) = ChunksOf(Wanted(call[c]))[t] /\ Vectors(c, t, o) \in Seq(Texts)
<1> DEFINE d == call[c]
           w == Wanted(d)
           m == Chunks(c)[t]
           n == Len(m)
           pairs == [i \in 1..n |-> <<o[i], d.texts[m[o[i]]]>>]
           S == SortedByKey(pairs)
<1>1. /\ d.texts \in Seq(Texts) /\ Len(d.texts) \in Nat /\ d.miss \in Seq(1..Len(d.texts)) /\ d.miss # <<>>
      /\ Len(d.miss) \in Nat /\ FanoutOk(d) /\ Len(d.tasks) \in Nat /\ ChunkCount(Len(d.miss)) \in Nat
  BY FanoutShape
<1>2. w \in [1..Len(d.miss) -> Texts]
  <2>1. \A k \in 1..Len(d.miss) : d.texts[d.miss[k]] \in Texts
    BY <1>1
  <2> QED BY <2>1 DEF Wanted
<1>3. w \in Seq(Texts) /\ Len(w) = Len(d.miss) /\ \A k \in 1..Len(d.miss) : w[k] = d.texts[d.miss[k]]
  <2>1. w \in Seq(Texts) /\ Len(w) = Len(d.miss)
    BY <1>1, <1>2, SequenceOf
  <2> QED BY <2>1 DEF Wanted
<1>4. t \in 1..ChunkCount(Len(d.miss))
  BY <1>1 DEF FanoutOk
<1>5. Chunks(c) = ChunksOf(d.miss)
  BY DEF Chunks
<1> HIDE DEF d, w
<1>6. m \in Seq(1..Len(d.texts)) /\ ChunksOf(w)[t] \in Seq(Texts)
      /\ ChunksOf(w)[t] = [i \in 1..n |-> d.texts[m[i]]]
  <2> DEFINE x == d.texts
             q == d.miss
  <2>1. TextsAt(Texts, x, q, w) /\ t \in 1..ChunkCount(Len(q))
    BY <1>1, <1>3, <1>4 DEF TextsAt
  <2>2. m = ChunksOf(q)[t]
    BY <1>5
  <2> HIDE DEF x, q
  <2>3. /\ ChunksOf(q)[t] \in Seq(1..Len(x)) /\ ChunksOf(w)[t] \in Seq(Texts)
        /\ ChunksOf(w)[t] = [i \in 1..Len(ChunksOf(q)[t]) |-> x[ChunksOf(q)[t][i]]]
    BY <2>1, ChunkOfTexts
  <2> HIDE DEF m
  <2> QED BY <2>2, <2>3, Zenon DEF x
<1>7. n \in Nat /\ o \in [1..n -> 1..n] /\ \A i, j \in 1..n : o[i] = o[j] => i = j
  <2>1. n \in Nat
    <3>1. m \in Seq(1..Len(d.texts))
      BY <1>6
    <3> HIDE DEF m
    <3> QED BY <3>1
  <2>2. o \in Orders(n)
    OBVIOUS
  <2> HIDE DEF n
  <2>3. o \in [1..n -> 1..n]
    BY <2>2 DEF Orders
  <2>4. \A i, j \in 1..n : o[i] = o[j] => i = j
    BY <2>2 DEF Orders
  <2> QED BY <2>1, <2>3, <2>4, Zenon
<1>8. Vectors(c, t, o) = [i \in 1..n |-> S[i][2]]
  BY DEF Vectors, d
<1> HIDE DEF m, n
<1>9. /\ Len(pairs) = n /\ \A k \in 1..n : pairs[k][1] \in 1..n /\ pairs[k][1] = o[k] /\ pairs[k][2] = d.texts[m[o[k]]]
      /\ \A j, k \in 1..n : pairs[j][1] = pairs[k][1] => j = k
  <2>1. Len(pairs) = n
    <3>1. pairs \in [1..n -> {pairs[i] : i \in 1..n}]
      BY Zenon
    <3> HIDE DEF pairs
    <3> QED BY <1>7, <3>1, SequenceOf, Zenon
  <2>2. \A k \in 1..n : pairs[k][1] = o[k] /\ pairs[k][2] = d.texts[m[o[k]]]
    OBVIOUS
  <2> HIDE DEF pairs
  <2>3. \A k \in 1..n : pairs[k][1] \in 1..n
    BY <1>7, <2>2
  <2>4. \A j, k \in 1..n : pairs[j][1] = pairs[k][1] => j = k
    BY <1>7, <2>2
  <2> QED BY <2>1, <2>2, <2>3, <2>4, Zenon
<1> HIDE DEF pairs
<1>10. /\ \A k \in 1..n : S[pairs[k][1]] = pairs[k]
       /\ \A i \in 1..n : \E k \in 1..n : pairs[k][1] = i
  <2>1. Keyed(pairs, n)
    BY <1>9 DEF Keyed
  <2> QED BY <1>7, <2>1, SortedAtKey, Zenon
<1> HIDE DEF S
<1>11. ASSUME NEW i \in 1..n PROVE S[i][2] = d.texts[m[i]]
  <2>1. PICK k \in 1..n : pairs[k][1] = i
    BY <1>10
  <2>2. S[i] = pairs[k] /\ o[k] = i /\ pairs[k][2] = d.texts[m[o[k]]]
    BY <1>9, <1>10, <2>1
  <2> QED BY <2>2
<1>12. [i \in 1..n |-> S[i][2]] = [i \in 1..n |-> d.texts[m[i]]]
  BY <1>11
<1> QED BY <1>6, <1>8, <1>12, Zenon DEF w, d

\* The provider answers one chunk, with its vectors in any order or with an error.
LEMMA ChunkRepliesStep ==
  ASSUME CallInv, NEW c \in Callers, NEW t \in 1..Len(call[c].tasks), NEW reply \in Replies, ChunkReplies(c, t, reply)
  PROVE  CallInv'
<1> DEFINE d == call[c]
<1>1. d.pc = "fanout" /\ d.tasks[t].state = "sent" /\ UNCHANGED cache
  BY DEF ChunkReplies
<1>2. d \in FanoutRecord /\ d.tasks \in Seq(Task) /\ Len(d.tasks) \in Nat /\ d.hard \in BOOLEAN /\ d.tasks[t] \in Task
  BY <1>1, FanoutShape
<1>3. \A w \in Task : [d.tasks EXCEPT ![t] = w] \in Seq(Task)
  BY <1>2
<1>4. CASE reply = "ok"
  <2>1. PICK o \in Orders(Len(Chunks(c)[t])) :
          Becomes(c, [d EXCEPT !.tasks[t] = [state |-> "ok", vecs |-> Vectors(c, t, o)]])
    BY <1>4 DEF ChunkReplies
  <2> DEFINE w == [state |-> "ok", vecs |-> Vectors(c, t, o)]
             r == [d EXCEPT !.tasks[t] = w]
  <2>2. Vectors(c, t, o) = ChunksOf(Wanted(d))[t] /\ Vectors(c, t, o) \in Seq(Texts)
    BY <1>1, VectorsAreSorted
  <2>3. w \in Task /\ w.state = "ok" /\ w.vecs = ChunksOf(Wanted(d))[t]
    BY <2>2 DEF Task
  <2>4. Becomes(c, r)
    BY <2>1
  <2> HIDE DEF w
  <2>5. /\ r.tasks = [d.tasks EXCEPT ![t] = w] /\ r.texts = d.texts /\ r.miss = d.miss /\ r.parts = d.parts /\ r.hard = d.hard
    BY <1>2 DEF FanoutRecord
  <2>6. r \in FanoutRecord
    BY <1>2, <1>3, <2>3 DEF FanoutRecord
  <2> HIDE DEF r
  <2> QED BY <1>1, <2>3, <2>4, <2>5, <2>6, TaskChanges
<1>5. CASE reply # "ok"
  <2> DEFINE w == Sent(d.tasks[t].tries, reply)
  <2>0. d.tasks[t].tries \in Nat
    BY <1>1, <1>2 DEF Task
  <2>1. PICK h \in BOOLEAN : h = (d.hard \/ reply \in Refusals)
    OBVIOUS
  <2> DEFINE r == [d EXCEPT !.tasks[t] = w, !.hard = h]
  <2>2. w \in Task /\ w.state # "ok" /\ (w.state = "failed" => (w.class = "hard" => reply \notin Again \cup {"timeout"}))
    BY <2>0, SentIs DEF Task, Classes
  <2>3. Becomes(c, r)
    BY <1>5, <2>1 DEF ChunkReplies
  <2>4. reply \notin Again \cup {"timeout"} => h
    BY <1>5, <2>1 DEF Replies, Refusals
  <2> HIDE DEF w
  <2>5. /\ r.tasks = [d.tasks EXCEPT ![t] = w] /\ r.texts = d.texts /\ r.miss = d.miss /\ r.parts = d.parts /\ r.hard = h
    BY <1>2 DEF FanoutRecord
  <2>6. r \in FanoutRecord
    BY <1>2, <1>3, <2>2 DEF FanoutRecord
  <2> HIDE DEF r
  <2>7. (d.hard => r.hard) /\ (w.state = "failed" => (w.class = "hard" => r.hard))
    BY <2>1, <2>2, <2>4, <2>5
  <2> QED BY <1>1, <2>2, <2>3, <2>5, <2>6, <2>7, TaskChanges
<1> QED BY <1>4, <1>5

\* A chunk that came back is collected, once; one that failed ends the call.
LEMMA JoinNextStep ==
  ASSUME CallInv, NEW c \in Callers, call[c].pc = "fanout", NEW t \in 1..Len(call[c].tasks), JoinNext(c, t)
  PROVE  CallInv'
<1> DEFINE d == call[c]
           w == d.tasks[t]
<1>1. t \in InFlight(c) /\ w.state # "sent" /\ UNCHANGED cache
  BY DEF JoinNext
<1>2. /\ d \in FanoutRecord /\ FanoutOk(d) /\ d.kind = "entities" /\ d.tasks \in Seq(Task) /\ w \in Task
      /\ d.parts \in Seq(Nat \X Seq(Texts)) /\ Len(d.tasks) \in Nat /\ Len(d.parts) \in Nat
      /\ d.hard \in BOOLEAN /\ InFlight(c) = (1..Len(d.tasks)) \ Collected(d)
  BY FanoutShape
<1>3. CASE w.state = "failed"
  <2> DEFINE res == [error |-> w.class, hard |-> d.hard]
  <2>1. Done(c, res)
    BY <1>3 DEF JoinNext
  <2>2. w.class \in Classes /\ (w.class = "hard" => d.hard)
    BY <1>2, <1>3 DEF Task, Classes, FanoutOk
  <2>3. res \in EntityResults
    BY <1>2, <2>2 DEF EntityResults
  <2> HIDE DEF res
  <2> QED BY <1>1, <1>2, <2>1, <2>3, EntitiesEnd
<1>4. CASE w.state # "failed"
  <2> DEFINE p == <<t, w.vecs>>
             r == [d EXCEPT !.parts = Append(@, p)]
             n == Len(d.parts)
  <2>1. Becomes(c, r)
    BY <1>4 DEF JoinNext
  <2>2. w.state = "ok" /\ w.vecs \in Seq(Texts) /\ w.vecs = ChunksOf(Wanted(d))[t]
    BY <1>1, <1>2, <1>4 DEF Task, FanoutOk
  <2>3. p \in Nat \X Seq(Texts) /\ p[1] = t /\ p[2] = ChunksOf(Wanted(d))[t]
    BY <1>2, <2>2
  <2> HIDE DEF p, w
  <2>4. /\ Append(d.parts, p) \in Seq(Nat \X Seq(Texts)) /\ Len(Append(d.parts, p)) = n + 1
        /\ \A k \in 1..n : Append(d.parts, p)[k] = d.parts[k]
    BY <1>2, <2>3
  <2>5. Append(d.parts, p)[n + 1] = p
    BY <1>2, <2>3
  <2> HIDE DEF d
  <2>6. r \in FanoutRecord
    BY <1>2, <2>4 DEF FanoutRecord
  <2>7. r.parts = Append(d.parts, p) /\ r.tasks = d.tasks /\ r.miss = d.miss /\ r.texts = d.texts /\ r.hard = d.hard
    BY <1>2 DEF FanoutRecord
  <2> HIDE DEF r
  <2>8. Wanted(r) = Wanted(d) /\ Len(r.parts) = n + 1 /\ n \in Nat
    BY <1>2, <2>4, <2>7 DEF Wanted
  <2>9. \A k \in 1..(n + 1) : (k \in 1..n /\ r.parts[k] = d.parts[k]) \/ (k = n + 1 /\ r.parts[k] = p)
    BY <2>4, <2>5, <2>7, <2>8
  <2>10. \A k \in 1..n : d.parts[k][1] \in Collected(d)
    BY DEF Collected
  <2>11. t \notin Collected(d)
    BY <1>1, <1>2
  <2>12. FanoutOk(r)
    <3>1. /\ r.miss # <<>> /\ Len(r.miss) <= Len(r.texts) /\ r.miss \in Seq(1..Len(r.texts))
          /\ Len(r.tasks) <= ChunkCount(Len(r.miss))
          /\ \A u \in 1..Len(r.tasks) :
               /\ r.tasks[u].state = "ok" => r.tasks[u].vecs = ChunksOf(Wanted(r))[u]
               /\ r.tasks[u].state = "failed" => (r.tasks[u].class = "hard" => r.hard)
      BY <1>2, <2>7, <2>8 DEF FanoutOk
    <3>2. \A k \in 1..n : d.parts[k][1] \in 1..Len(d.tasks) /\ d.parts[k][2] = ChunksOf(Wanted(d))[d.parts[k][1]]
      BY <1>2 DEF FanoutOk
    <3>3. ASSUME NEW k \in 1..Len(r.parts)
          PROVE  r.parts[k][1] \in 1..Len(r.tasks) /\ r.parts[k][2] = ChunksOf(Wanted(r))[r.parts[k][1]]
      <4>1. CASE k \in 1..n /\ r.parts[k] = d.parts[k]
        BY <2>7, <2>8, <3>2, <4>1
      <4>2. CASE k = n + 1 /\ r.parts[k] = p
        BY <2>3, <2>7, <2>8, <4>2 DEF d
      <4> QED BY <2>8, <2>9, <4>1, <4>2
    <3>4. ASSUME NEW j \in 1..Len(r.parts), NEW k \in 1..Len(r.parts), r.parts[j][1] = r.parts[k][1]
          PROVE  j = k
      <4>1. CASE j \in 1..n /\ r.parts[j] = d.parts[j] /\ k \in 1..n /\ r.parts[k] = d.parts[k]
        BY <1>2, <3>4, <4>1 DEF FanoutOk
      <4>2. CASE j \in 1..n /\ r.parts[j] = d.parts[j] /\ k = n + 1 /\ r.parts[k] = p
        BY <2>3, <2>10, <2>11, <3>4, <4>2
      <4>3. CASE k \in 1..n /\ r.parts[k] = d.parts[k] /\ j = n + 1 /\ r.parts[j] = p
        BY <2>3, <2>10, <2>11, <3>4, <4>3
      <4>4. CASE j = n + 1 /\ k = n + 1
        BY <4>4
      <4> QED BY <2>8, <2>9, <4>1, <4>2, <4>3, <4>4
    <3>5. Cardinality((1..Len(r.tasks)) \ Collected(r)) <= FanOut
      <4> DEFINE F == (1..Len(d.tasks)) \ Collected(d)
                 G == (1..Len(r.tasks)) \ Collected(r)
      <4>1. G \in SUBSET F
        <5>1. Collected(d) \subseteq Collected(r)
          BY <2>7, <2>8, <2>4 DEF Collected
        <5> QED BY <2>7, <5>1
      <4>2. IsFiniteSet(F)
        <5> DEFINE L == Len(d.tasks)
        <5>1. L \in Int
          BY <1>2
        <5> HIDE DEF L
        <5>2. IsFiniteSet(1..L)
          <6>1. 1 \in Int
            OBVIOUS
          <6> QED BY <5>1, <6>1, IntervalFinite, Zenon
        <5>3. (1..L) \ Collected(d) \in SUBSET (1..L)
          OBVIOUS
        <5>4. IsFiniteSet((1..L) \ Collected(d))
          BY <5>2, <5>3, FS_Subset
        <5> QED BY <5>4 DEF L
      <4>3. Cardinality(F) <= FanOut
        BY <1>2 DEF FanoutOk
      <4> HIDE DEF F, G
      <4>4. IsFiniteSet(G) /\ Cardinality(G) <= Cardinality(F)
        BY <4>1, <4>2, FS_Subset
      <4>5. Cardinality(G) \in Nat /\ Cardinality(F) \in Nat /\ FanOut \in Nat
        BY <4>2, <4>4, FS_CardinalityType, CallConstants
      <4>6. Cardinality(G) <= FanOut
        BY <4>3, <4>4, <4>5
      <4> QED BY <4>6 DEF G
    <3> QED BY <3>1, <3>3, <3>4, <3>5 DEF FanoutOk
  <2> QED BY <1>1, <2>1, <2>6, <2>12, FanoutGoes DEF r, d
<1> QED BY <1>3, <1>4

\* When every chunk is collected, putting them together gives back the texts asked for.
LEMMA Reassembled ==
  ASSUME CallInv, NEW c \in Callers, call[c].pc = "fanout", Len(call[c].parts) = Len(Chunks(c))
  PROVE  /\ ReassembleOrdered(call[c].parts) = Wanted(call[c])
         /\ Wanted(call[c]) \in Seq(Texts) /\ Len(Wanted(call[c])) = Len(call[c].miss)
<1> DEFINE d == call[c]
           w == Wanted(d)
           n == ChunkCount(Len(d.miss))
           S == SortedByKey(d.parts)
           X == ChunksOf(w)
<1>1. /\ d.texts \in Seq(Texts) /\ d.miss \in Seq(1..Len(d.texts)) /\ d.miss # <<>> /\ Len(d.miss) \in Nat \ {0}
      /\ FanoutOk(d) /\ n \in Nat /\ Len(d.parts) = n /\ Len(d.tasks) \in Nat
  BY FanoutShape
<1>2. w \in Seq(Texts) /\ Len(w) = Len(d.miss) /\ w # <<>>
  <2>1. \A k \in 1..Len(d.miss) : d.texts[d.miss[k]] \in Texts
    BY <1>1
  <2>2. w \in [1..Len(d.miss) -> Texts]
    BY <2>1 DEF Wanted
  <2>3. w \in Seq(Texts) /\ Len(w) = Len(d.miss)
    BY <1>1, <2>2, SequenceOf
  <2> QED BY <1>1, <2>3
<1> HIDE DEF d, w
<1>3. Keyed(d.parts, n) /\ \A k \in 1..n : d.parts[k][2] = X[d.parts[k][1]]
  <2>1. Len(d.tasks) <= n
    BY <1>1 DEF FanoutOk
  <2>2. 1..Len(d.tasks) \subseteq 1..n
    BY <1>1, <2>1
  <2> HIDE DEF n
  <2>3. \A k \in 1..n : d.parts[k][1] \in 1..n
    BY <1>1, <2>2 DEF FanoutOk
  <2> QED BY <1>1, <2>3 DEF FanoutOk, Keyed, w
<1>4. X = [k \in 1..n |-> X[k]]
  BY <1>2 DEF ChunksOf, ChunkCount
<1> HIDE DEF n, X
<1>5. /\ Len(S) = n /\ \A k \in 1..n : S[d.parts[k][1]] = d.parts[k]
      /\ \A i \in 1..n : \E k \in 1..n : d.parts[k][1] = i
  <2>1. n \in Nat /\ Keyed(d.parts, n)
    BY <1>1, <1>3
  <2> QED BY <2>1, SortedAtKey, Zenon
<1> HIDE DEF S
<1>6. ASSUME NEW i \in 1..n PROVE S[i][2] = X[i]
  <2>1. PICK k \in 1..n : d.parts[k][1] = i
    BY <1>5
  <2> QED BY <1>3, <1>5, <2>1
<1>7. [k \in 1..n |-> S[k][2]] = X
  <2>1. [k \in 1..n |-> S[k][2]] = [k \in 1..n |-> X[k]]
    BY <1>6
  <2> QED BY <1>4, <2>1, Zenon
<1>8. ReassembleOrdered(d.parts) = FlattenSeq(X)
  BY <1>5, <1>7, Zenon DEF ReassembleOrdered, S
<1>9. FlattenSeq(X) = w
  BY <1>2, FlattenChunks, Zenon DEF X
<1> QED BY <1>2, <1>8, <1>9, Zenon DEF d, w

\* Room is made for the whole batch, as far as there is any.
LEMMA RoomIsMade ==
  ASSUME CacheOk, NEW m \in Nat, NEW K \in Kept(m)
  PROVE  /\ K \subseteq cache /\ IsFiniteSet(K)
         /\ m <= Ceiling => Cardinality(K) <= Ceiling - m
         /\ m > Ceiling => K = {}
<1>1. Fresh \in SUBSET cache /\ IsFiniteSet(cache) /\ Ceiling \in Nat
  BY CallConstants DEF Fresh, CacheOk
<1>2. IsFiniteSet(Fresh)
  BY <1>1, FS_Subset
<1> DEFINE room == IF m < Ceiling THEN Ceiling - m ELSE 0
<1>3. room \in Nat /\ (m <= Ceiling => room = Ceiling - m) /\ (m > Ceiling => room = 0)
  BY <1>1
<1>4. K \in SUBSET Fresh /\ (Cardinality(K) = room \/ (K = Fresh /\ Cardinality(Fresh) <= room))
  BY DEF Kept
<1>5. IsFiniteSet(K)
  BY <1>2, <1>4, FS_Subset
<1>6. Cardinality(K) \in Nat
  BY <1>5, FS_CardinalityType
<1> HIDE DEF room
<1>7. Cardinality(K) <= room
  BY <1>3, <1>4, <1>6
<1>8. Cardinality(K) = 0 => K = {}
  BY <1>5, FS_EmptySet
<1>9. m > Ceiling => Cardinality(K) = 0
  BY <1>3, <1>6, <1>7
<1> QED BY <1>1, <1>3, <1>4, <1>5, <1>7, <1>8, <1>9

\* The answer has every text's own vector, and what is new goes into the cache.
LEMMA InsertStep ==
  ASSUME CallInv, NEW c \in Callers, Insert(c)
  PROVE  CallInv'
<1> DEFINE d == call[c]
           x == d.texts
           q == d.miss
           w == Wanted(d)
           m == Len(q)
           new == {w[k] : k \in 1..m}
           made == [i \in 1..Len(x) |-> IF \E k \in 1..m : q[k] = i THEN w[CHOOSE k \in 1..m : q[k] = i] ELSE x[i]]
           res == [texts |-> x, out |-> made]
           Entry(t) == [text |-> t, age |-> 0]
           N == {Entry(t) : t \in new}
<1>1. d.pc = "fanout" /\ Len(d.parts) = Len(Chunks(c))
  BY DEF Insert
<1>2. ReassembleOrdered(d.parts) = w /\ w \in Seq(Texts) /\ Len(w) = m
  BY <1>1, Reassembled
<1>3. PICK K \in Kept(m) : cache' = {e \in K : e.text \notin new} \cup N
  BY <1>2 DEF Insert
<1>4. Done(c, res)
  BY <1>2 DEF Insert
<1>5. /\ x \in Batches /\ x \in Seq(Texts) /\ Len(x) \in Nat /\ m \in Nat /\ m <= Len(x) /\ d.kind = "entities"
      /\ q \in Seq(1..Len(x))
  <2>1. m \in Nat \ {0}
    BY <1>1, FanoutShape
  <2> QED BY <1>1, <2>1, FanoutShape
<1>6. \A k \in 1..m : w[k] = x[q[k]]
  BY DEF Wanted
<1> HIDE DEF d, x, q, w, m
<1>7. made = x
  <2>1. ASSUME NEW i \in 1..Len(x) PROVE made[i] = x[i]
    <3>1. CASE \E k \in 1..m : q[k] = i
      <4> DEFINE k == CHOOSE k \in 1..m : q[k] = i
      <4>1. k \in 1..m /\ q[k] = i
        BY <3>1
      <4>2. made[i] = w[k]
        BY <3>1
      <4> QED BY <1>6, <4>1, <4>2
    <3> QED BY <3>1
  <2>2. made = [i \in 1..Len(x) |-> made[i]]
    OBVIOUS
  <2>3. x = [i \in 1..Len(x) |-> x[i]]
    BY <1>5
  <2> HIDE DEF made
  <2>4. [i \in 1..Len(x) |-> made[i]] = [i \in 1..Len(x) |-> x[i]]
    BY <2>1
  <2> QED BY <2>2, <2>3, <2>4, Zenon
<1>8. res \in EntityResults
  BY <1>5, <1>7 DEF EntityResults
<1>9. CacheOk /\ ticks \in Nat
  BY CallConstants DEF CallInv
<1>10. /\ K \subseteq cache /\ IsFiniteSet(K)
       /\ m <= Ceiling => Cardinality(K) <= Ceiling - m
       /\ m > Ceiling => K = {}
  BY <1>5, <1>9, RoomIsMade
<1>11. IsFiniteSet(N) /\ Cardinality(N) <= m
  <2> DEFINE f == [k \in 1..m |-> Entry(w[k])]
  <2>1. f \in Surjection(1..m, N)
    <3>1. f \in [1..m -> N]
      OBVIOUS
    <3>2. \A e \in N : \E k \in 1..m : f[k] = e
      OBVIOUS
    <3> QED BY <3>1, <3>2 DEF Surjection
  <2>2. m \in Int /\ 1 \in Int
    BY <1>5
  <2>3. IsFiniteSet(1..m) /\ Cardinality(1..m) = IF 1 > m THEN 0 ELSE m - 1 + 1
    BY <2>2, FS_Interval
  <2>4. Cardinality(1..m) = m
    BY <1>5, <2>3
  <2> HIDE DEF N
  <2> QED BY <2>1, <2>3, <2>4, FS_Surjection
<1> DEFINE L == {e \in K : e.text \notin new}
<1>12. IsFiniteSet(L) /\ Cardinality(L) <= Cardinality(K)
  BY <1>10, FS_Subset
<1>13. N \subseteq [text: Texts, age: 0..ticks] /\ \A e \in N : e.text \in new
  <2>1. \A k \in 1..m : w[k] \in Texts
    BY <1>2
  <2>2. 0 \in 0..ticks
    BY <1>9
  <2> QED BY <2>1, <2>2
<1>14. \A e, f \in N : e.text = f.text => e = f
  OBVIOUS
<1>15. \A e \in L : e \in K /\ e.text \notin new
  OBVIOUS
<1>16. cache' = L \cup N
  BY <1>3
<1>22. new \subseteq Range(x)
  <2>1. ASSUME NEW k \in 1..m PROVE w[k] \in Range(x)
    <3>1. q[k] \in 1..Len(x) /\ DOMAIN x = 1..Len(x)
      BY <1>5 DEF m
    <3> QED BY <1>6, <3>1 DEF Range
  <2> QED BY <2>1
<1> HIDE DEF L, N, new, Entry
<1>17. IsFiniteSet(L \cup N) /\ (m <= Ceiling => Cardinality(L \cup N) <= Ceiling)
  <2>1. /\ IsFiniteSet(L \cup N)
        /\ Cardinality(L \cup N) = Cardinality(L) + Cardinality(N) - Cardinality(L \cap N)
    BY <1>11, <1>12, FS_Union
  <2>2. IsFiniteSet(L \cap N)
    <3>1. L \cap N \in SUBSET L
      OBVIOUS
    <3> QED BY <1>12, <3>1, FS_Subset
  <2>3. Cardinality(L) \in Nat /\ Cardinality(N) \in Nat /\ Cardinality(L \cap N) \in Nat /\ Cardinality(K) \in Nat
    BY <1>10, <1>11, <1>12, <2>2, FS_CardinalityType
  <2>4. Ceiling \in Nat
    BY CallConstants
  <2> QED BY <1>5, <1>10, <1>11, <1>12, <2>1, <2>3, <2>4
<1>23. CacheBounded'
  <2>1. Ceiling \in Nat
    BY CallConstants
  <2>2. CASE m <= Ceiling
    <3>1. Cardinality(cache') <= Ceiling
      BY <1>16, <1>17, <2>2
    <3> QED BY <3>1 DEF CacheBounded
  <2>3. CASE m > Ceiling
    <3>1. Len(x) > Ceiling
      BY <1>5, <2>1, <2>3
    <3>2. \A e \in cache' : e.text \in new
      BY <1>10, <1>13, <1>15, <1>16, <2>3
    <3>3. {e.text : e \in cache'} \subseteq Range(x)
      BY <1>22, <3>2
    <3> QED BY <1>5, <3>1, <3>3 DEF CacheBounded
  <2> QED BY <1>5, <2>1, <2>2, <2>3
<1>18. CacheOk'
  <2>1. cache' \subseteq [text: Texts, age: 0..ticks']
    <3>1. cache \subseteq [text: Texts, age: 0..ticks] /\ ticks' = ticks
      BY <1>4, <1>9 DEF CacheOk, Done, Becomes
    <3> QED BY <1>10, <1>13, <1>15, <1>16, <3>1
  <2>2. ASSUME NEW e \in cache', NEW f \in cache', e.text = f.text PROVE e = f
    <3>1. \A a, b \in cache : a.text = b.text => a = b
      BY <1>9 DEF CacheOk
    <3> QED BY <1>10, <1>13, <1>14, <1>15, <1>16, <2>2, <3>1
  <2> QED BY <1>16, <1>17, <1>23, <2>1, <2>2 DEF CacheOk
<1> DEFINE r == [pc |-> "done", kind |-> "entities", result |-> res]
<1>19. r \in States
  <2> HIDE DEF res
  <2> QED BY <1>8 DEF States, Dones
<1>20. Becomes(c, r)
  BY <1>4, <1>5 DEF Done, d
<1> HIDE DEF r
<1>21. call' \in [Callers -> States]
  BY <1>19, <1>20 DEF CallInv, Becomes
<1> QED BY <1>18, <1>20, <1>21 DEF CallInv, Becomes

\* The caller takes its result.
LEMMA ReturnStep ==
  ASSUME CallInv, NEW c \in Callers, Return(c)
  PROVE  CallInv'
<1>1. NoCall \in States
  BY DEF States
<1> QED BY <1>1, Goes DEF Return

\* Every step keeps the invariant.
LEMMA StepPreserves ==
  CallInv /\ [CallsNext]_callVars => CallInv'
<1> SUFFICES ASSUME CallInv, [CallsNext]_callVars PROVE CallInv'
  OBVIOUS
<1>1. CASE UNCHANGED callVars
  BY <1>1 DEF callVars, CallInv, CacheOk, CacheBounded
<1>2. CASE Tick
  BY <1>2, TickStep
<1>3. ASSUME NEW c \in Callers, Begin(c) PROVE CallInv'
  BY <1>3, BeginStep
<1>4. ASSUME NEW c \in Callers, EntityStep(c) PROVE CallInv'
  <2>1. ASSUME call[c].pc = "fanout", NEW t \in 1..Len(call[c].tasks), JoinNext(c, t) PROVE CallInv'
    BY <2>1, JoinNextStep
  <2> QED BY <1>4, <2>1, LookupStep, SpawnStep, InsertStep DEF EntityStep
<1>5. ASSUME NEW c \in Callers, QueryStep(c) PROVE CallInv'
  BY <1>5, AcquireSlotStep, TryBackendStep DEF QueryStep
<1>6. ASSUME NEW c \in Callers, ProviderAnswers(c) PROVE CallInv'
  <2>1. ASSUME NEW t \in 1..Len(call[c].tasks), NEW reply \in Replies, ChunkReplies(c, t, reply) PROVE CallInv'
    BY <2>1, ChunkRepliesStep
  <2>2. ASSUME NEW reply \in Replies \ {"short"}, QueryReplies(c, reply) PROVE CallInv'
    BY <2>2, QueryRepliesStep
  <2>3. ASSUME NEW reply \in ChatReplies, ChatReplied(c, reply) PROVE CallInv'
    BY <2>3, ChatRepliedStep
  <2> QED BY <1>6, <2>1, <2>2, <2>3 DEF ProviderAnswers
<1>7. ASSUME NEW c \in Callers, Return(c) PROVE CallInv'
  BY <1>7, ReturnStep
<1> QED BY <1>1, <1>2, <1>3, <1>4, <1>5, <1>6, <1>7 DEF CallsNext, Steps

\* What the invariant says of a result, per kind of call.
LEMMA ResultOf ==
  ASSUME CallInv, NEW c \in Callers, call[c].pc = "done"
  PROVE  LET r == call[c].result
         IN  /\ \/ call[c].kind = "entities" /\ r \in EntityResults
                \/ call[c].kind = "query" /\ r \in QueryResults
                \/ call[c].kind = "chat" /\ r \in ChatResults
             /\ call[c].kind \in {"entities", "query", "chat"}
<1>1. call[c] \in Dones
  BY StateOf
<1> QED BY <1>1 DEF Dones

\* The invariant implies what the run checks.
LEMMA CallInvIsEnough ==
  CallInv => CallsSound
<1> SUFFICES ASSUME CallInv PROVE CallsSound
  OBVIOUS
<1>1. CallsTypeOK
  <2>1. cache \subseteq [text: Texts, age: 0..MaxTicks] /\ calls \in 0..MaxCalls /\ \A e, f \in cache : e.text = f.text => e = f
    <3>1. 0..ticks \subseteq 0..MaxTicks
      BY CallConstants DEF CallInv
    <3>2. cache \subseteq [text: Texts, age: 0..ticks] /\ calls \in 0..MaxCalls /\ \A e, f \in cache : e.text = f.text => e = f
      BY DEF CallInv, CacheOk
    <3> QED BY <3>1, <3>2
  <2>2. ASSUME NEW c \in Callers
        PROVE  /\ call[c].pc \in {"idle", "lookup", "fanout", "slot", "backend", "request", "chat", "done"}
               /\ call[c].pc = "chat" => call[c].tokens \in FirstTokens \/ call[c].tokens <= TokenCeiling
               /\ call[c].pc = "fanout" => Cardinality(InFlight(c)) <= FanOut
    <3>1. call[c].pc \in {"idle", "lookup", "fanout", "slot", "backend", "request", "chat", "done"}
      <4>1. /\ \A r \in Lookups : r.pc = "lookup"
            /\ \A r \in Fanouts : r.pc = "fanout"
            /\ \A r \in Queries : r.pc \in {"slot", "backend", "request"}
            /\ \A r \in Chats : r.pc = "chat"
            /\ \A r \in Dones : r.pc = "done"
            /\ NoCall.pc = "idle"
        BY DEF Lookups, Fanouts, FanoutRecord, Queries, QueryRecord, Chats, ChatRecord, Dones, NoCall
      <4> QED BY <4>1, StateOf DEF States
    <3>2. call[c].pc = "chat" => call[c].tokens \in FirstTokens \/ call[c].tokens <= TokenCeiling
      BY StateOf DEF Chats, ChatOk, TokensOk
    <3>3. ASSUME call[c].pc = "fanout" PROVE Cardinality(InFlight(c)) <= FanOut
      BY <3>3, FanoutShape DEF FanoutOk
    <3> QED BY <3>1, <3>2, <3>3
  <2> QED BY <2>1, <2>2 DEF CallsTypeOK
<1>2. VectorsAligned
  <2> SUFFICES ASSUME NEW c \in Callers, call[c].pc = "done", call[c].kind = "entities", "out" \in DOMAIN call[c].result
               PROVE  call[c].result.out = call[c].result.texts
    BY DEF VectorsAligned
  <2>1. call[c].result \in EntityResults
    BY ResultOf
  <2>2. \A r \in [error: Classes, hard: BOOLEAN] : DOMAIN r = {"error", "hard"}
    OBVIOUS
  <2>3. call[c].result \notin [error: Classes, hard: BOOLEAN]
    BY <2>2
  <2> QED BY <2>1, <2>3 DEF EntityResults
<1>3. CacheBounded
  BY DEF CallInv, CacheOk
<1>4. RequestsBounded
  <2>1. ASSUME NEW c \in Callers, call[c].pc \in {"request", "backend"} PROVE call[c].requests <= 2 * MaxRetries
    <3>1. call[c] \in Queries
      BY <2>1, StateOf
    <3> DEFINE r == call[c]
    <3>2. r \in QueryRecord /\ QueryOk(r)
      BY <3>1 DEF Queries
    <3>3. r.at \in 1..3 /\ r.requests \in Nat /\ r.tries \in Nat /\ r.chain \in BackendChains
      BY <3>2 DEF QueryRecord
    <3>4. /\ Len(r.chain.backends) \in 1..3
          /\ Len(r.chain.backends) = 3 => r.chain.backends[3] = "none"
      BY <3>3, ChainShape
    <3>5. CASE r.pc = "backend"
      <4>1. r.requests <= Spent(r.at)
        BY <3>2, <3>5 DEF QueryOk
      <4> HIDE DEF r
      <4> QED BY <3>3, <4>1, SpentIs DEF r
    <3>6. CASE r.pc = "request"
      <4>1. r.requests <= Spent(r.at) + r.tries /\ r.tries < MaxRetries
            /\ r.at <= Len(r.chain.backends) /\ r.chain.backends[r.at] # "none"
        BY <3>2, <3>6 DEF QueryOk
      <4>2. r.at \in 1..2
        BY <3>3, <3>4, <4>1
      <4> HIDE DEF r
      <4>3. r.requests <= Spent(r.at) + MaxRetries
        <5>1. Spent(r.at) \in Nat /\ MaxRetries \in Nat
          BY <3>3, SpentIs
        <5> QED BY <3>3, <4>1, <5>1
      <4>4. r.requests <= Spent(r.at + 1)
        BY <4>2, <4>3, SpentIs
      <4>5. r.at + 1 = 2 \/ r.at + 1 = 3
        BY <4>2
      <4>6. Spent(r.at + 1) <= 2 * MaxRetries
        BY <4>5, SpentIs
      <4>7. Spent(r.at + 1) \in Nat
        BY <4>5, SpentIs
      <4>8. r.requests <= 2 * MaxRetries
        BY <3>3, <4>4, <4>6, <4>7, SpentIs
      <4> QED BY <4>8 DEF r
    <3> QED BY <2>1, <3>5, <3>6
  <2>2. ASSUME NEW c \in Callers, call[c].pc = "chat" PROVE call[c].requests <= 2 * MaxRetries * (LengthRetries + 1)
    <3> DEFINE r == call[c]
    <3>1. r \in ChatRecord /\ ChatOk(r)
      BY <2>2, StateOf DEF Chats
    <3>2. /\ r.requests \in Nat /\ r.tries \in Nat /\ r.length \in Nat /\ r.reasoning \in BOOLEAN
          /\ r.tries < MaxRetries /\ r.length <= LengthRetries
          /\ r.requests <= Rounds(r.length) + (IF r.reasoning THEN 0 ELSE MaxRetries) + r.tries
      BY <3>1 DEF ChatRecord, ChatOk
    <3> HIDE DEF r
    <3>3. MaxRetries \in Nat /\ LengthRetries \in Nat
      BY CallConstants
    <3>4. Rounds(r.length) = 2 * (MaxRetries * r.length) /\ MaxRetries * r.length \in Nat
      BY <3>2, <3>3 DEF Rounds
    <3>5. MaxRetries * r.length <= MaxRetries * LengthRetries /\ MaxRetries * LengthRetries \in Nat
      BY <3>2, <3>3
    <3>6. r.requests <= 2 * (MaxRetries * r.length) + 2 * MaxRetries
      BY <3>2, <3>3, <3>4
    <3>7. 2 * MaxRetries * (LengthRetries + 1) = 2 * (MaxRetries * LengthRetries) + 2 * MaxRetries
      BY <3>3
    <3>8. r.requests <= 2 * (MaxRetries * LengthRetries) + 2 * MaxRetries
      BY <3>2, <3>3, <3>4, <3>5, <3>6
    <3> QED BY <3>7, <3>8 DEF r
  <2> QED BY <2>1, <2>2 DEF RequestsBounded
<1>5. HardMeansRefused
  <2> SUFFICES ASSUME NEW c \in Callers, call[c].pc = "done", "error" \in DOMAIN call[c].result, call[c].result.error = "hard"
               PROVE  call[c].result.hard
    BY DEF HardMeansRefused
  <2>1. call[c].result \in EntityResults \/ call[c].result \in QueryResults \/ call[c].result \in ChatResults
    BY ResultOf
  <2>2. CASE call[c].result \in EntityResults
    <3>1. \A r \in [texts: Batches, out: Batches] : DOMAIN r = {"texts", "out"}
      OBVIOUS
    <3>2. call[c].result \notin [texts: Batches, out: Batches]
      BY <3>1
    <3> QED BY <2>2, <3>2 DEF EntityResults
  <2>3. CASE call[c].result \in QueryResults
    <3>1. DOMAIN call[c].result = {"vec", "code", "exit", "asked", "strict", "requests"}
      BY <2>3 DEF QueryResults
    <3> QED BY <3>1
  <2>4. CASE call[c].result \in ChatResults
    <3>1. \A r \in [json: {TRUE}, requests: Nat] : DOMAIN r = {"json", "requests"}
      OBVIOUS
    <3>2. ASSUME call[c].result \in [json: {TRUE}, requests: Nat] PROVE FALSE
      <4>1. DOMAIN call[c].result = {"json", "requests"}
        BY <3>1, <3>2
      <4> QED BY <4>1
    <3> QED BY <2>4, <3>2 DEF ChatResults
  <2> QED BY <2>1, <2>2, <2>3, <2>4
<1>6. DegradedIsSaid
  <2> SUFFICES ASSUME NEW c \in Callers, call[c].pc = "done", call[c].kind = "query"
               PROVE  LET r == call[c].result
                      IN  /\ r.vec <=> r.code = "none"
                          /\ r.vec => r.requests > 0
                          /\ r.exit = "served" <=> r.vec \/ r.asked \/ ~r.strict
    BY DEF DegradedIsSaid
  <2>1. call[c].result \in QueryResults
    BY ResultOf
  <2> QED BY <2>1 DEF QueryResults
<1> QED BY <1>1, <1>2, <1>3, <1>4, <1>5, <1>6 DEF CallsSound

\* Whatever the provider replies and in whatever order: vectors meet their texts, the cache
\* and the requests stay within bounds, a hard failure is one of something that was refused,
\* and a query without a vector says so (entity_cache.rs, fan_out.rs, embed_chain.rs, chat_api.rs).
THEOREM CallsAreSound == CallsSpec => []CallsSound
<1>1. CallsSpec => []CallInv
  BY CallInit, StepPreserves, PTL DEF CallsSpec
<1> QED BY <1>1, CallInvIsEnough, PTL

-----------------------------------------------------------------------------
(* Recursion over 0..n, and sums *)

\* n steps from a, each of which takes what the one before it left.
Recursive(n, X, a, h) == \E f \in [0..n -> X] : f[0] = a /\ \A i \in 1..n : f[i] = h[<<i, f[i - 1]>>]

\* They exist.
LEMMA Recursion ==
  ASSUME NEW n \in Nat, NEW X, NEW a \in X, NEW h \in [(1..n) \X X -> X]
  PROVE  Recursive(n, X, a, h)
<1> DEFINE Good(f, m) == f[0] = a /\ \A i \in 1..m : f[i] = h[<<i, f[i - 1]>>]
           S == {m \in 0..n : \E f \in [0..m -> X] : Good(f, m)}
<1>1. 0 \in S
  <2> DEFINE f == [i \in 0..0 |-> a]
  <2>1. f \in [0..0 -> X] /\ f[0] = a /\ \A i \in 1..0 : f[i] = h[<<i, f[i - 1]>>]
    OBVIOUS
  <2>2. 0 \in 0..n
    OBVIOUS
  <2> HIDE DEF f
  <2> QED BY <2>1, <2>2
<1>2. ASSUME NEW m \in 1..n, m - 1 \in S PROVE m \in S
  <2>1. PICK f \in [0..(m - 1) -> X] : Good(f, m - 1)
    BY <1>2
  <2> DEFINE g == [i \in 0..m |-> IF i = m THEN h[<<m, f[m - 1]>>] ELSE f[i]]
  <2>2. m - 1 \in 0..(m - 1) /\ m \in 0..n
    OBVIOUS
  <2>3. f[m - 1] \in X /\ h[<<m, f[m - 1]>>] \in X
    BY <2>2
  <2>4. g \in [0..m -> X]
    BY <2>3
  <2>5. g[0] = a
    BY <2>1
  <2>6. ASSUME NEW i \in 1..m PROVE g[i] = h[<<i, g[i - 1]>>]
    <3>1. CASE i = m
      <4>1. g[m - 1] = f[m - 1] /\ g[m] = h[<<m, f[m - 1]>>]
        OBVIOUS
      <4> QED BY <3>1, <4>1
    <3>2. CASE i # m
      <4>1. i \in 1..(m - 1) /\ i - 1 \in 0..(m - 1) /\ i - 1 # m /\ i \in 0..m /\ i - 1 \in 0..m
        BY <3>2
      <4>2. g[i] = f[i] /\ g[i - 1] = f[i - 1]
        BY <3>2, <4>1
      <4> QED BY <2>1, <4>1, <4>2
    <3> QED BY <3>1, <3>2
  <2> HIDE DEF g
  <2> QED BY <2>2, <2>4, <2>5, <2>6
<1> HIDE DEF S
<1>3. n \in S
  <2>1. \A m \in 0..n : m \in S
    BY <1>1, <1>2, UpTo
  <2> QED BY <2>1
<1> QED BY <1>3 DEF S, Recursive

\* A sum grows by one number at a time.
LEMMA TotalSteps ==
  ASSUME NEW ns \in Seq(Nat)
  PROVE  \E t \in [0..Len(ns) -> Nat] :
           t[0] = 0 /\ Total(ns) = t[Len(ns)] /\ \A i \in 1..Len(ns) : t[i] = t[i - 1] + ns[i]
<1> DEFINE n == Len(ns)
           Step(t) == [i \in 0..n |-> IF i = 0 THEN 0 ELSE t[i - 1] + ns[i]]
           T == CHOOSE t : t = Step(t)
<1>1. n \in Nat /\ \A i \in 1..n : ns[i] \in Nat
  OBVIOUS
<1>2. Total(ns) = T[n]
  BY DEF Total
<1> HIDE DEF n
<1>3. \E t : t = Step(t)
  <2> DEFINE h == [z \in (1..n) \X Nat |-> z[2] + ns[z[1]]]
  <2>1. h \in [(1..n) \X Nat -> Nat]
    BY <1>1
  <2>2. \A i \in 1..n, x \in Nat : h[<<i, x>>] = x + ns[i]
    OBVIOUS
  <2> HIDE DEF h
  <2>3. PICK f \in [0..n -> Nat] : f[0] = 0 /\ \A i \in 1..n : f[i] = h[<<i, f[i - 1]>>]
    <3>1. n \in Nat /\ 0 \in Nat
      BY <1>1
    <3>2. Recursive(n, Nat, 0, h)
      BY <2>1, <3>1, Recursion
    <3> QED BY <3>2 DEF Recursive
  <2>4. ASSUME NEW i \in 0..n PROVE f[i] = Step(f)[i]
    <3>1. CASE i = 0
      BY <2>3, <3>1
    <3>2. CASE i # 0
      <4>1. i \in 1..n /\ f[i - 1] \in Nat
        BY <1>1, <3>2
      <4> QED BY <2>2, <2>3, <3>2, <4>1
    <3> QED BY <3>1, <3>2
  <2>5. f = Step(f)
    BY <2>4
  <2> QED BY <2>5
<1>4. T = Step(T)
  BY <1>3
<1> HIDE DEF T
<1>5. /\ T = [i \in 0..n |-> T[i]] /\ T[0] = 0
      /\ \A i \in 1..n : T[i] = T[i - 1] + ns[i]
  <2>1. \A i \in 0..n : T[i] = IF i = 0 THEN 0 ELSE T[i - 1] + ns[i]
    BY <1>4, Zenon
  <2>2. T = [i \in 0..n |-> T[i]]
    BY <1>4, Zenon
  <2>3. T[0] = 0
    BY <1>1, <2>1
  <2>4. ASSUME NEW i \in 1..n PROVE T[i] = T[i - 1] + ns[i]
    <3>1. i \in 0..n /\ i # 0
      BY <1>1
    <3> QED BY <2>1, <3>1
  <2> QED BY <2>2, <2>3, <2>4
<1>6. \A i \in 0..n : T[i] \in Nat
  <2> DEFINE S == {i \in 0..n : T[i] \in Nat}
  <2>1. 0 \in S
    BY <1>1, <1>5
  <2>2. ASSUME NEW i \in 1..n, i - 1 \in S PROVE i \in S
    <3>1. T[i - 1] \in Nat /\ ns[i] \in Nat /\ T[i] = T[i - 1] + ns[i] /\ i \in 0..n
      <4>1. T[i - 1] \in Nat
        BY <2>2
      <4>2. T[i] = T[i - 1] + ns[i]
        BY <1>5, Zenon
      <4> QED BY <1>1, <4>1, <4>2
    <3>2. T[i] \in Nat
      BY <3>1
    <3> QED BY <3>1, <3>2
  <2> HIDE DEF S
  <2>3. \A i \in 0..n : i \in S
    BY <1>1, <2>1, <2>2, UpTo
  <2> QED BY <2>3 DEF S
<1>7. T \in [0..n -> Nat]
  BY <1>5, <1>6
<1> QED BY <1>2, <1>5, <1>7 DEF n

\* f has what the first texts of v make when they are put together.
Flats(V, v, f) ==
  /\ f \in [0..Len(v) -> Seq(V)] /\ f[0] = << >> /\ FlattenSeq(v) = f[Len(v)]
  /\ \A i \in 1..Len(v) : f[i] = f[i - 1] \o v[i]

\* Texts are put together one by one.
LEMMA FlatSteps ==
  ASSUME NEW V, NEW v \in Seq(Seq(V))
  PROVE  \E f : Flats(V, v, f)
<1> DEFINE n == Len(v)
           Step(g) == [i \in 1..n |-> IF i = 1 THEN v[i] ELSE g[i - 1] \o v[i]]
           G == CHOOSE g : g = Step(g)
<1>1. n \in Nat /\ DOMAIN v = 1..n /\ \A i \in 1..n : v[i] \in Seq(V)
  OBVIOUS
<1>2. FlattenSeq(v) = IF n = 0 THEN << >> ELSE G[n]
  BY <1>1 DEF FlattenSeq
<1> HIDE DEF n
<1> DEFINE h == [z \in (1..n) \X Seq(V) |-> z[2] \o v[z[1]]]
<1>3. h \in [(1..n) \X Seq(V) -> Seq(V)]
  BY <1>1
<1>4. \A i \in 1..n, x \in Seq(V) : h[<<i, x>>] = x \o v[i]
  OBVIOUS
<1> HIDE DEF h
<1>5. PICK f \in [0..n -> Seq(V)] : f[0] = << >> /\ \A i \in 1..n : f[i] = h[<<i, f[i - 1]>>]
  <2>1. << >> \in Seq(V)
    OBVIOUS
  <2>2. n \in Nat
    BY <1>1
  <2>3. Recursive(n, Seq(V), << >>, h)
    BY <1>3, <2>1, <2>2, Recursion
  <2> QED BY <2>3 DEF Recursive
<1>6. ASSUME NEW i \in 1..n PROVE f[i - 1] \in Seq(V) /\ f[i] = f[i - 1] \o v[i]
  <2>1. i - 1 \in 0..n
    BY <1>1
  <2>2. f[i - 1] \in Seq(V)
    BY <2>1
  <2> QED BY <1>4, <1>5, <2>2
<1>7. \E g : g = Step(g)
  <2> DEFINE g == [i \in 1..n |-> f[i]]
  <2>1. ASSUME NEW i \in 1..n PROVE g[i] = Step(g)[i]
    <3>1. CASE i = 1
      <4>1. f[1] = << >> \o v[1] /\ v[1] \in Seq(V)
        <5>1. 1 \in 1..n /\ 1 - 1 = 0
          BY <3>1
        <5> QED BY <1>1, <1>5, <1>6, <5>1
      <4>2. f[1] = v[1]
        BY <4>1
      <4> QED BY <3>1, <4>2
    <3>2. CASE i # 1
      <4>1. i - 1 \in 1..n
        BY <1>1, <3>2
      <4> QED BY <1>6, <3>2, <4>1
    <3> QED BY <3>1, <3>2
  <2>2. g = Step(g)
    BY <2>1
  <2> QED BY <2>2
<1>8. G = Step(G)
  BY <1>7
<1> HIDE DEF G
<1>9. \A i \in 0..n : i = 0 \/ G[i] = f[i]
  <2> DEFINE S == {i \in 0..n : i = 0 \/ G[i] = f[i]}
  <2>1. 0 \in S
    BY <1>1
  <2>2. ASSUME NEW i \in 1..n, i - 1 \in S PROVE i \in S
    <3>1. G[i] = IF i = 1 THEN v[i] ELSE G[i - 1] \o v[i]
      BY <1>8, Zenon
    <3>2. CASE i = 1
      <4>1. f[1] = << >> \o v[1] /\ v[1] \in Seq(V)
        <5>1. 1 \in 1..n /\ 1 - 1 = 0
          BY <3>2
        <5> QED BY <1>1, <1>5, <1>6, <5>1
      <4>2. f[1] = v[1]
        BY <4>1
      <4> QED BY <3>1, <3>2, <4>2
    <3>3. CASE i # 1
      <4>1. i - 1 # 0 /\ G[i - 1] = f[i - 1]
        BY <2>2, <3>3
      <4>2. G[i] = f[i] /\ i \in 0..n
        <5>1. G[i] = G[i - 1] \o v[i]
          BY <3>1, <3>3, Zenon
        <5>2. G[i] = f[i]
          BY <1>6, <4>1, <5>1, Zenon
        <5>3. i \in 0..n
          BY <1>1
        <5> QED BY <5>2, <5>3
      <4> QED BY <4>2
    <3> QED BY <3>2, <3>3
  <2> HIDE DEF S
  <2>3. \A i \in 0..n : i \in S
    BY <1>1, <2>1, <2>2, UpTo
  <2> QED BY <2>3 DEF S
<1>10. FlattenSeq(v) = f[n]
  BY <1>1, <1>2, <1>5, <1>9
<1> QED BY <1>5, <1>6, <1>10 DEF n, Flats

\* The sum of two sequences of numbers is the sum of their sums.
LEMMA TotalConcat ==
  ASSUME NEW ns \in Seq(Nat), NEW ms \in Seq(Nat)
  PROVE  Total(ns) \in Nat /\ Total(ms) \in Nat /\ Total(ns \o ms) = Total(ns) + Total(ms)
<1> DEFINE n == Len(ns)
           m == Len(ms)
           os == ns \o ms
<1>1. /\ n \in Nat /\ m \in Nat /\ os \in Seq(Nat) /\ Len(os) = n + m
      /\ \A i \in 1..n : os[i] = ns[i] /\ ns[i] \in Nat
      /\ \A i \in 1..m : os[n + i] = ms[i] /\ ms[i] \in Nat
  OBVIOUS
<1>2. PICK t \in [0..n -> Nat] : t[0] = 0 /\ Total(ns) = t[n] /\ \A i \in 1..n : t[i] = t[i - 1] + ns[i]
  BY TotalSteps
<1>3. PICK u \in [0..m -> Nat] : u[0] = 0 /\ Total(ms) = u[m] /\ \A i \in 1..m : u[i] = u[i - 1] + ms[i]
  BY TotalSteps
<1> HIDE DEF os
<1>4. PICK w \in [0..(n + m) -> Nat] : w[0] = 0 /\ Total(os) = w[n + m] /\ \A i \in 1..(n + m) : w[i] = w[i - 1] + os[i]
  <2>1. os \in Seq(Nat) /\ Len(os) = n + m
    BY <1>1
  <2> HIDE DEF n, m
  <2>2. \E w \in [0..Len(os) -> Nat] :
          w[0] = 0 /\ Total(os) = w[Len(os)] /\ \A i \in 1..Len(os) : w[i] = w[i - 1] + os[i]
    BY <2>1, TotalSteps
  <2> QED BY <2>1, <2>2
<1> HIDE DEF n, m
<1>5. w[n] = t[n]
  <2> DEFINE S == {i \in 0..n : w[i] = t[i]}
  <2>1. 0 \in S
    BY <1>1, <1>2, <1>4
  <2>2. ASSUME NEW i \in 1..n, i - 1 \in S PROVE i \in S
    <3>1. i \in 1..(n + m) /\ w[i - 1] = t[i - 1] /\ i \in 0..n
      BY <1>1, <2>2
    <3>2. w[i] = t[i]
      BY <1>1, <1>2, <1>4, <3>1
    <3> QED BY <3>1, <3>2
  <2> HIDE DEF S
  <2>3. \A i \in 0..n : i \in S
    BY <1>1, <2>1, <2>2, UpTo
  <2>4. n \in 0..n
    BY <1>1
  <2> QED BY <2>3, <2>4 DEF S
<1>6. w[n + m] = t[n] + u[m]
  <2> DEFINE S == {i \in 0..m : w[n + i] = t[n] + u[i]}
  <2>1. 0 \in S
    <3>1. t[n] \in Nat /\ n + 0 = n /\ 0 \in 0..m
      BY <1>1, <1>2
    <3> QED BY <1>3, <1>5, <3>1
  <2>2. ASSUME NEW i \in 1..m, i - 1 \in S PROVE i \in S
    <3>1. n + i \in 1..(n + m) /\ (n + i) - 1 = n + (i - 1) /\ i \in 0..m /\ i - 1 \in 0..m /\ n \in 0..n
      BY <1>1
    <3>2. w[n + (i - 1)] = t[n] + u[i - 1]
      BY <2>2
    <3>3. w[n + i] = w[n + (i - 1)] + ms[i] /\ u[i] = u[i - 1] + ms[i]
      BY <1>1, <1>3, <1>4, <3>1
    <3>4. t[n] \in Nat /\ u[i - 1] \in Nat /\ ms[i] \in Nat
      BY <1>1, <3>1
    <3>5. w[n + i] = t[n] + u[i]
      <4>1. \A x, y, z \in Nat : (x + y) + z = x + (y + z)
        OBVIOUS
      <4>2. w[n + i] = (t[n] + u[i - 1]) + ms[i]
        BY <3>2, <3>3, Zenon
      <4>3. (t[n] + u[i - 1]) + ms[i] = t[n] + (u[i - 1] + ms[i])
        BY <3>4, <4>1
      <4> QED BY <3>3, <4>2, <4>3, Zenon
    <3> QED BY <3>1, <3>5
  <2> HIDE DEF S
  <2>3. \A i \in 0..m : i \in S
    BY <1>1, <2>1, <2>2, UpTo
  <2>4. m \in 0..m
    BY <1>1
  <2> QED BY <2>3, <2>4 DEF S
<1>7. t[n] \in Nat /\ u[m] \in Nat
  BY <1>1
<1> QED BY <1>2, <1>3, <1>4, <1>6, <1>7 DEF os

\* The sum of one number, and of none.
LEMMA TotalOne ==
  ASSUME NEW x \in Nat
  PROVE  Total(<<x>>) = x /\ Total(<< >>) = 0
<1>1. Total(<<x>>) = x
  <2>1. <<x>> \in Seq(Nat) /\ Len(<<x>>) = 1 /\ <<x>>[1] = x
    OBVIOUS
  <2>2. PICK t \in [0..1 -> Nat] : t[0] = 0 /\ Total(<<x>>) = t[1] /\ \A i \in 1..1 : t[i] = t[i - 1] + <<x>>[i]
    BY <2>1, TotalSteps
  <2>3. t[1] = t[1 - 1] + <<x>>[1]
    BY <2>2
  <2> QED BY <2>1, <2>2, <2>3
<1>2. Total(<< >>) = 0
  <2>1. << >> \in Seq(Nat) /\ Len(<< >>) = 0
    OBVIOUS
  <2> QED BY <2>1, TotalSteps
<1> QED BY <1>1, <1>2

\* Two bounds of the same proportion add up.
LEMMA ScaledSum ==
  ASSUME NEW x \in Nat, NEW y \in Nat, NEW u \in Nat, NEW v \in Nat, NEW a \in Nat, NEW b \in Nat,
         x * a <= u * b, y * a <= v * b
  PROVE  (x + y) * a <= (u + v) * b
<1>1. (x + y) * a = x * a + y * a /\ (u + v) * b = u * b + v * b
  OBVIOUS
<1>2. x * a \in Nat /\ y * a \in Nat /\ u * b \in Nat /\ v * b \in Nat
  OBVIOUS
<1>3. \A c, d, e, f \in Nat : c <= e /\ d <= f => c + d <= e + f
  OBVIOUS
<1>4. x * a + y * a <= u * b + v * b
  BY <1>2, <1>3
<1> QED BY <1>1, <1>4, Zenon

\* What holds of every pair of numbers holds of the sums.
LEMMA TotalBound ==
  ASSUME NEW ns \in Seq(Nat), NEW ms \in Seq(Nat), Len(ns) = Len(ms), NEW a \in Nat, NEW b \in Nat,
         \A i \in 1..Len(ns) : ns[i] * a <= ms[i] * b
  PROVE  Total(ns) * a <= Total(ms) * b
<1> DEFINE n == Len(ns)
<1>1. n \in Nat /\ \A i \in 1..n : ns[i] \in Nat /\ ms[i] \in Nat /\ ns[i] * a <= ms[i] * b
  OBVIOUS
<1>2. PICK t \in [0..n -> Nat] : t[0] = 0 /\ Total(ns) = t[n] /\ \A i \in 1..n : t[i] = t[i - 1] + ns[i]
  BY TotalSteps
<1>3. PICK u \in [0..n -> Nat] : u[0] = 0 /\ Total(ms) = u[n] /\ \A i \in 1..n : u[i] = u[i - 1] + ms[i]
  <2> DEFINE k == Len(ms)
  <2>1. \E u \in [0..k -> Nat] : u[0] = 0 /\ Total(ms) = u[k] /\ \A i \in 1..k : u[i] = u[i - 1] + ms[i]
    BY TotalSteps
  <2>2. k = n
    OBVIOUS
  <2> HIDE DEF n, k
  <2> QED BY <2>1, <2>2
<1> HIDE DEF n
<1> DEFINE S == {i \in 0..n : t[i] * a <= u[i] * b}
<1>4. 0 \in S
  BY <1>1, <1>2, <1>3
<1>5. ASSUME NEW i \in 1..n, i - 1 \in S PROVE i \in S
  <2>1. i - 1 \in 0..n /\ i \in 0..n /\ t[i - 1] \in Nat /\ u[i - 1] \in Nat /\ ns[i] \in Nat /\ ms[i] \in Nat
    BY <1>1
  <2>2. t[i - 1] * a <= u[i - 1] * b /\ ns[i] * a <= ms[i] * b
    BY <1>1, <1>5
  <2> HIDE DEF S
  <2>3. (t[i - 1] + ns[i]) * a <= (u[i - 1] + ms[i]) * b
    BY <2>1, <2>2, ScaledSum
  <2>4. t[i] = t[i - 1] + ns[i] /\ u[i] = u[i - 1] + ms[i]
    BY <1>2, <1>3
  <2>5. t[i] * a <= u[i] * b
    BY <2>3, <2>4, Zenon
  <2> USE DEF S
  <2> QED BY <2>1, <2>5
<1> HIDE DEF S
<1>6. \A i \in 0..n : i \in S
  BY <1>1, <1>4, <1>5, UpTo
<1>7. n \in 0..n
  BY <1>1
<1> QED BY <1>2, <1>3, <1>6, <1>7 DEF S

-----------------------------------------------------------------------------
(* Characters and texts *)

Chars(V) == \A c \in V : c.bytes \in 1..MaxBytes /\ c.tokens \in Nat /\ c.head \in BOOLEAN

\* A sequence made of two.
LEMMA Together ==
  ASSUME NEW V, NEW x \in Seq(V), NEW y \in Seq(V), NEW z \in Seq(V), Len(z) = Len(x) + Len(y),
         \A i \in 1..Len(x) : z[i] = x[i], \A i \in 1..Len(y) : z[Len(x) + i] = y[i]
  PROVE  z = x \o y
<1>1. Len(x) \in Nat /\ Len(y) \in Nat /\ x \o y \in Seq(V) /\ Len(x \o y) = Len(x) + Len(y)
  OBVIOUS
<1>2. ASSUME NEW i \in 1..Len(z) PROVE z[i] = (x \o y)[i]
  <2>1. CASE i \in 1..Len(x)
    BY <1>1, <2>1
  <2>2. CASE i \notin 1..Len(x)
    <3>1. PICK j \in 1..Len(y) : i = Len(x) + j
      <4> DEFINE m == Len(x)
                 n == Len(y)
      <4>1. m \in Nat /\ n \in Nat /\ i \in 1..(m + n) /\ i \notin 1..m
        BY <1>1, <2>2
      <4> HIDE DEF m, n
      <4>2. i - m \in 1..n /\ i = m + (i - m)
        BY <4>1
      <4> USE DEF m, n
      <4> QED BY <4>2
    <3>2. (x \o y)[Len(x) + j] = y[j]
      BY <1>1
    <3> QED BY <3>1, <3>2
  <2> QED BY <2>1, <2>2
<1> QED BY <1>1, <1>2

\* Texts put together have the bytes of both.
LEMMA BytesConcat ==
  ASSUME NEW V, Chars(V), NEW s \in Seq(V), NEW r \in Seq(V)
  PROVE  Bytes(s) \in Nat /\ Bytes(r) \in Nat /\ Bytes(s \o r) = Bytes(s) + Bytes(r)
<1> DEFINE B(x) == [i \in 1..Len(x) |-> x[i].bytes]
<1>1. ASSUME NEW x \in Seq(V) PROVE B(x) \in Seq(Nat) /\ Len(B(x)) = Len(x)
  <2>1. \A i \in 1..Len(x) : x[i].bytes \in Nat
    BY DEF Chars
  <2>2. B(x) \in [1..Len(x) -> Nat] /\ Len(x) \in Nat
    BY <2>1
  <2> HIDE DEF B
  <2> QED BY <2>2, SequenceOf
<1>2. s \o r \in Seq(V) /\ Len(s \o r) = Len(s) + Len(r) /\ Len(s) \in Nat /\ Len(r) \in Nat
  OBVIOUS
<1>3. B(s \o r) = B(s) \o B(r)
  <2>1. \A i \in 1..Len(s) : (s \o r)[i] = s[i]
    BY <1>2
  <2>2. \A i \in 1..Len(r) : (s \o r)[Len(s) + i] = r[i]
    BY <1>2
  <2>3. \A i \in 1..Len(s) : B(s \o r)[i] = B(s)[i]
    BY <1>2, <2>1
  <2>4. \A i \in 1..Len(r) : B(s \o r)[Len(s) + i] = B(r)[i]
    BY <1>2, <2>2
  <2>5. /\ B(s \o r) \in Seq(Nat) /\ B(s) \in Seq(Nat) /\ B(r) \in Seq(Nat)
        /\ Len(B(s \o r)) = Len(s) + Len(r) /\ Len(B(s)) = Len(s) /\ Len(B(r)) = Len(r)
    BY <1>1, <1>2
  <2> HIDE DEF B
  <2>6. /\ \A i \in 1..Len(B(s)) : B(s \o r)[i] = B(s)[i]
        /\ \A i \in 1..Len(B(r)) : B(s \o r)[Len(B(s)) + i] = B(r)[i]
        /\ Len(B(s \o r)) = Len(B(s)) + Len(B(r))
    BY <2>3, <2>4, <2>5
  <2> QED BY <2>5, <2>6, Together
<1>4. Bytes(s) = Total(B(s)) /\ Bytes(r) = Total(B(r)) /\ Bytes(s \o r) = Total(B(s \o r))
  BY DEF Bytes
<1>5. B(s) \in Seq(Nat) /\ B(r) \in Seq(Nat)
  BY <1>1
<1> HIDE DEF B
<1>6. Total(B(s)) \in Nat /\ Total(B(r)) \in Nat /\ Total(B(s) \o B(r)) = Total(B(s)) + Total(B(r))
  BY <1>5, TotalConcat
<1> QED BY <1>3, <1>4, <1>6, Zenon

\* The bytes of one character, and of none.
LEMMA BytesOne ==
  ASSUME NEW V, Chars(V), NEW c \in V
  PROVE  Bytes(<<c>>) = c.bytes /\ Bytes(<< >>) = 0
<1>1. c.bytes \in Nat
  BY DEF Chars
<1>2. [i \in 1..Len(<<c>>) |-> <<c>>[i].bytes] = <<c.bytes>>
  OBVIOUS
<1>3. [i \in 1..Len(<< >>) |-> << >>[i].bytes] = << >>
  OBVIOUS
<1> QED BY <1>1, <1>2, <1>3, TotalOne DEF Bytes

\* If no character has more tokens per byte than the limits allow for, no text that keeps
\* the one limit breaks the other.
LEMMA Density ==
  ASSUME NEW V, Chars(V), \A c \in V : c.tokens * MaxBytes <= c.bytes * MaxTokens,
         NEW s \in Seq(V), Bytes(s) <= MaxBytes
  PROVE  Tokens(s) <= MaxTokens
<1> DEFINE B == [i \in 1..Len(s) |-> s[i].bytes]
           T == [i \in 1..Len(s) |-> s[i].tokens]
<1>1. \A i \in 1..Len(s) : s[i].bytes \in Nat /\ s[i].tokens \in Nat /\ s[i].tokens * MaxBytes <= s[i].bytes * MaxTokens
  <2>1. \A i \in 1..Len(s) : s[i] \in V
    OBVIOUS
  <2>2. MaxBytes \in Nat
    BY SplitConstants
  <2> QED BY <2>1, <2>2 DEF Chars
<1>2. B \in Seq(Nat) /\ T \in Seq(Nat) /\ Len(B) = Len(s) /\ Len(T) = Len(s)
  <2>1. B \in [1..Len(s) -> Nat] /\ T \in [1..Len(s) -> Nat] /\ Len(s) \in Nat
    BY <1>1
  <2> HIDE DEF B, T
  <2> QED BY <2>1, SequenceOf
<1>3. \A i \in 1..Len(T) : T[i] * MaxBytes <= B[i] * MaxTokens
  BY <1>1, <1>2
<1>4. Bytes(s) = Total(B) /\ Tokens(s) = Total(T)
  BY DEF Bytes, Tokens
<1>5. MaxBytes \in Nat \ {0} /\ MaxTokens \in Nat
  BY SplitConstants
<1> HIDE DEF B, T
<1>6. Total(T) * MaxBytes <= Total(B) * MaxTokens
  BY <1>2, <1>3, <1>5, TotalBound
<1>7. Total(T) \in Nat /\ Total(B) \in Nat
  BY <1>2, TotalConcat
<1>8. Total(B) * MaxTokens <= MaxBytes * MaxTokens
  BY <1>4, <1>5, <1>7
<1>9. Total(T) * MaxBytes <= MaxTokens * MaxBytes
  BY <1>5, <1>6, <1>7, <1>8
<1>10. ~(Total(T) >= MaxTokens + 1)
  <2> SUFFICES ASSUME Total(T) >= MaxTokens + 1 PROVE FALSE
    OBVIOUS
  <2>1. Total(T) * MaxBytes >= (MaxTokens + 1) * MaxBytes
    BY <1>5, <1>7
  <2>2. (MaxTokens + 1) * MaxBytes = MaxTokens * MaxBytes + MaxBytes /\ MaxTokens * MaxBytes \in Nat /\ Total(T) * MaxBytes \in Nat
    BY <1>5, <1>7
  <2> QED BY <1>5, <1>9, <2>1, <2>2
<1> QED BY <1>4, <1>5, <1>7, <1>10

-----------------------------------------------------------------------------
(* Putting texts together *)

\* v and w agree in their first n texts.
Agree(v, w, n) == n \in Nat /\ n <= Len(v) /\ n <= Len(w) /\ \A i \in 1..n : v[i] = w[i]

\* What the first texts make depends on these only.
LEMMA FlatPrefix ==
  ASSUME NEW V, NEW v \in Seq(Seq(V)), NEW w \in Seq(Seq(V)), NEW f, Flats(V, v, f), NEW g, Flats(V, w, g),
         NEW n, Agree(v, w, n)
  PROVE  \A i \in 0..n : f[i] = g[i]
<1> DEFINE S == {i \in 0..n : f[i] = g[i]}
<1>0. Len(v) \in Nat /\ Len(w) \in Nat /\ n \in Nat /\ n <= Len(v) /\ n <= Len(w) /\ \A i \in 1..n : v[i] = w[i]
  BY DEF Agree
<1>1. 0 \in S
  BY <1>0 DEF Flats
<1>2. ASSUME NEW i \in 1..n, i - 1 \in S PROVE i \in S
  <2>1. i \in 1..Len(v) /\ i \in 1..Len(w) /\ i \in 0..n /\ v[i] = w[i]
    BY <1>0
  <2>2. f[i - 1] = g[i - 1]
    BY <1>2
  <2>3. f[i] = f[i - 1] \o v[i] /\ g[i] = g[i - 1] \o w[i]
    BY <2>1 DEF Flats
  <2> QED BY <2>1, <2>2, <2>3
<1> HIDE DEF S
<1>3. \A i \in 0..n : i \in S
  BY <1>0, <1>1, <1>2, UpTo
<1> QED BY <1>3 DEF S

\* Texts of characters make a text of characters.
LEMMA FlatIn ==
  ASSUME NEW V, NEW v \in Seq(Seq(V))
  PROVE  FlattenSeq(v) \in Seq(V)
<1>1. PICK f : Flats(V, v, f)
  BY FlatSteps
<1>2. Len(v) \in 0..Len(v)
  OBVIOUS
<1> QED BY <1>1, <1>2 DEF Flats

\* No texts make no text.
LEMMA FlatEmpty ==
  ASSUME NEW V
  PROVE  FlattenSeq(<< >>) = << >>
<1>1. << >> \in Seq(Seq(V)) /\ Len(<< >>) = 0
  OBVIOUS
<1> QED BY <1>1, FlatSteps DEF Flats

\* One more text comes at the end.
LEMMA FlatAppend ==
  ASSUME NEW V, NEW v \in Seq(Seq(V)), NEW x \in Seq(V)
  PROVE  FlattenSeq(Append(v, x)) = FlattenSeq(v) \o x
<1> DEFINE w == Append(v, x)
           n == Len(v)
<1>1. w \in Seq(Seq(V)) /\ n \in Nat /\ Len(w) = n + 1 /\ w[n + 1] = x /\ \A i \in 1..n : w[i] = v[i]
  OBVIOUS
<1>2. PICK f : Flats(V, v, f)
  BY FlatSteps
<1> HIDE DEF w
<1>3. PICK g : Flats(V, w, g)
  BY <1>1, FlatSteps
<1>4. f[n] = g[n]
  <2>1. Agree(v, w, n) /\ w \in Seq(Seq(V))
    BY <1>1 DEF Agree
  <2> HIDE DEF n
  <2>2. \A i \in 0..n : f[i] = g[i]
    BY <1>2, <1>3, <2>1, FlatPrefix
  <2> QED BY <1>1, <2>2
<1>5. g[n + 1] = g[(n + 1) - 1] \o w[n + 1] /\ (n + 1) - 1 = n
  <2>1. n + 1 \in 1..Len(w)
    BY <1>1
  <2>2. g[n + 1] = g[(n + 1) - 1] \o w[n + 1]
    BY <1>3, <2>1 DEF Flats
  <2> QED BY <1>1, <2>2
<1>6. FlattenSeq(w) = g[n + 1] /\ FlattenSeq(v) = f[n]
  BY <1>1, <1>2, <1>3 DEF Flats
<1> HIDE DEF n
<1>7. g[(n + 1) - 1] = f[n]
  BY <1>4, <1>5
<1> QED BY <1>1, <1>5, <1>6, <1>7 DEF w

\* Texts may be joined in any order.
Join(x, y) == x \o y

LEMMA JoinJoin ==
  ASSUME NEW V, NEW x \in Seq(V), NEW y \in Seq(V), NEW z \in Seq(V)
  PROVE  Join(Join(x, y), z) = Join(x, Join(y, z))
<1>1. (x \o y) \o z = x \o (y \o z)
  OBVIOUS
<1> QED BY <1>1 DEF Join

\* More text for the last one.
LEMMA FlatLast ==
  ASSUME NEW V, NEW v \in Seq(Seq(V)), v # << >>, NEW x \in Seq(V),
         NEW w \in Seq(Seq(V)), Len(w) = Len(v), \A i \in 1..(Len(v) - 1) : w[i] = v[i], w[Len(v)] = v[Len(v)] \o x
  PROVE  FlattenSeq(w) = FlattenSeq(v) \o x
<1> DEFINE n == Len(v)
<1>1. n \in Nat \ {0} /\ Len(w) = n /\ (\A i \in 1..(n - 1) : w[i] = v[i]) /\ w[n] = v[n] \o x /\ v[n] \in Seq(V)
  OBVIOUS
<1>2. PICK f : Flats(V, v, f)
  BY FlatSteps
<1>3. PICK g : Flats(V, w, g)
  BY FlatSteps
<1>4. f[n - 1] = g[n - 1] /\ f[n - 1] \in Seq(V)
  <2>1. Agree(v, w, n - 1)
    BY <1>1 DEF Agree
  <2>2. \A i \in 0..(n - 1) : f[i] = g[i]
    BY <1>2, <1>3, <2>1, FlatPrefix
  <2>3. n - 1 \in 0..(n - 1) /\ n - 1 \in 0..Len(v)
    BY <1>1
  <2> QED BY <1>2, <2>2, <2>3 DEF Flats
<1>5. f[n] = f[n - 1] \o v[n] /\ g[n] = g[n - 1] \o w[n] /\ FlattenSeq(v) = f[n] /\ FlattenSeq(w) = g[n]
  <2>1. n \in 1..Len(v) /\ n \in 1..Len(w)
    BY <1>1
  <2> QED BY <1>1, <1>2, <1>3, <2>1 DEF Flats
<1> HIDE DEF n
<1>6. Join(Join(f[n - 1], v[n]), x) = Join(f[n - 1], Join(v[n], x))
  <2>1. f[n - 1] \in Seq(V)
    BY <1>4
  <2>2. v[n] \in Seq(V)
    BY <1>1
  <2> QED BY <2>1, <2>2, JoinJoin
<1>7. f[n] = Join(f[n - 1], v[n]) /\ w[n] = Join(v[n], x) /\ g[n] = Join(f[n - 1], w[n])
  BY <1>1, <1>4, <1>5 DEF Join
<1>8. g[n] = Join(f[n], x)
  BY <1>6, <1>7, Zenon
<1> QED BY <1>5, <1>8 DEF Join

\* Two sequences of texts make what each of them makes.
LEMMA FlatConcat ==
  ASSUME NEW V, NEW v \in Seq(Seq(V)), NEW w \in Seq(Seq(V))
  PROVE  FlattenSeq(v \o w) = FlattenSeq(v) \o FlattenSeq(w)
<1> DEFINE n == Len(v)
           m == Len(w)
           u == v \o w
<1>1. /\ n \in Nat /\ m \in Nat /\ u \in Seq(Seq(V)) /\ Len(u) = n + m
      /\ \A i \in 1..n : u[i] = v[i]
      /\ \A i \in 1..m : u[n + i] = w[i] /\ w[i] \in Seq(V)
  OBVIOUS
<1>2. PICK f : Flats(V, v, f)
  BY FlatSteps
<1>3. PICK g : Flats(V, w, g)
  BY FlatSteps
<1> HIDE DEF u
<1>4. PICK h : Flats(V, u, h)
  BY <1>1, FlatSteps
<1>5. h[n] = f[n] /\ f[n] \in Seq(V)
  <2>1. Agree(v, u, n) /\ u \in Seq(Seq(V))
    BY <1>1 DEF Agree
  <2>2. n \in 0..Len(v) /\ n \in 0..n
    BY <1>1
  <2> HIDE DEF n
  <2>3. \A i \in 0..n : f[i] = h[i]
    BY <1>2, <1>4, <2>1, FlatPrefix
  <2> QED BY <1>2, <2>2, <2>3 DEF Flats
<1>6. /\ f[n] = FlattenSeq(v) /\ g[m] = FlattenSeq(w) /\ h[n + m] = FlattenSeq(u) /\ g[0] = << >>
      /\ \A i \in 1..m : g[i] = g[i - 1] \o w[i] /\ g[i - 1] \in Seq(V)
      /\ \A i \in 1..(n + m) : h[i] = h[i - 1] \o u[i]
  <2>1. \A i \in 1..m : i - 1 \in 0..m
    BY <1>1
  <2>2. \A i \in 0..m : g[i] \in Seq(V)
    BY <1>3 DEF Flats
  <2>3. \A i \in 1..(n + m) : h[i] = h[i - 1] \o u[i]
    BY <1>1, <1>4 DEF Flats
  <2>4. f[n] = FlattenSeq(v) /\ g[m] = FlattenSeq(w) /\ h[n + m] = FlattenSeq(u) /\ g[0] = << >>
    BY <1>1, <1>2, <1>3, <1>4 DEF Flats
  <2>5. \A i \in 1..m : g[i] = g[i - 1] \o w[i]
    BY <1>3 DEF Flats
  <2> HIDE DEF n, m
  <2> QED BY <2>1, <2>2, <2>3, <2>4, <2>5
<1> HIDE DEF n, m
<1> DEFINE S == {i \in 0..m : h[n + i] = f[n] \o g[i]}
<1>7. 0 \in S
  <2>1. n + 0 = n /\ 0 \in 0..m /\ f[n] \o << >> = f[n]
    BY <1>1, <1>5
  <2> QED BY <1>5, <1>6, <2>1
<1>8. ASSUME NEW i \in 1..m, i - 1 \in S PROVE i \in S
  <2>1. h[n + (i - 1)] = f[n] \o g[i - 1]
    BY <1>8
  <2> HIDE DEF S
  <2>2. n + i \in 1..(n + m) /\ (n + i) - 1 = n + (i - 1) /\ i \in 0..m
    BY <1>1
  <2>3. h[n + i] = h[(n + i) - 1] \o u[n + i]
    BY <1>6, <2>2
  <2>4. u[n + i] = w[i] /\ w[i] \in Seq(V) /\ g[i] = g[i - 1] \o w[i] /\ g[i - 1] \in Seq(V)
    BY <1>1, <1>6
  <2>5. Join(Join(f[n], g[i - 1]), w[i]) = Join(f[n], Join(g[i - 1], w[i]))
    <3>1. f[n] \in Seq(V)
      BY <1>5
    <3>2. g[i - 1] \in Seq(V)
      BY <2>4
    <3>3. w[i] \in Seq(V)
      BY <2>4
    <3> QED BY <3>1, <3>2, <3>3, JoinJoin
  <2>6. h[n + i] = f[n] \o g[i]
    <3>1. h[n + (i - 1)] = Join(f[n], g[i - 1]) /\ g[i] = Join(g[i - 1], w[i])
      BY <2>1, <2>4 DEF Join
    <3>2. h[n + i] = Join(h[n + (i - 1)], w[i])
      BY <2>2, <2>3, <2>4 DEF Join
    <3>3. h[n + i] = Join(f[n], g[i])
      BY <2>5, <3>1, <3>2, Zenon
    <3> QED BY <3>3 DEF Join
  <2> QED BY <2>2, <2>6 DEF S
<1> HIDE DEF S
<1>9. \A i \in 0..m : i \in S
  BY <1>1, <1>7, <1>8, UpTo
<1>10. m \in 0..m
  BY <1>1
<1>11. h[n + m] = f[n] \o g[m]
  BY <1>9, <1>10 DEF S
<1> QED BY <1>6, <1>11 DEF u

\* The first i elements of v.
FirstPieces(v, i) == [j \in 1..i |-> v[j]]

\* One element more.
LEMMA FirstGrows ==
  ASSUME NEW V, NEW v \in Seq(V), NEW i \in 1..Len(v)
  PROVE  /\ FirstPieces(v, i) = FirstPieces(v, i - 1) \o <<v[i]>>
         /\ FirstPieces(v, i) \in Seq(V) /\ Len(FirstPieces(v, i)) = i /\ FirstPieces(v, i - 1) \in Seq(V) /\ <<v[i]>> \in Seq(V)
<1>1. i \in Nat \ {0} /\ i - 1 \in Nat /\ \A j \in 1..i : v[j] \in V
  OBVIOUS
<1> DEFINE a == FirstPieces(v, i)
           b == FirstPieces(v, i - 1)
<1>2. a \in [1..i -> V] /\ b \in [1..(i - 1) -> V] /\ \A j \in 1..i : a[j] = v[j] /\ (j < i => b[j] = v[j])
  BY <1>1 DEF FirstPieces
<1> HIDE DEF a, b
<1>3. a \in Seq(V) /\ Len(a) = i
  BY <1>1, <1>2, SequenceOf
<1>4. b \in Seq(V) /\ Len(b) = i - 1
  <2> DEFINE m == i - 1
  <2>1. m \in Nat /\ b \in [1..m -> V]
    BY <1>1, <1>2
  <2> HIDE DEF m
  <2>2. b \in Seq(V) /\ Len(b) = m
    BY <2>1, SequenceOf
  <2> QED BY <2>2 DEF m
<1>5. <<v[i]>> \in Seq(V) /\ Len(<<v[i]>>) = 1 /\ <<v[i]>>[1] = v[i]
  BY <1>1
<1>6. Len(a) = Len(b) + Len(<<v[i]>>)
  BY <1>3, <1>4, <1>5, <1>1
<1>7. \A j \in 1..Len(b) : a[j] = b[j]
  BY <1>1, <1>2, <1>4
<1>8. \A j \in 1..Len(<<v[i]>>) : a[Len(b) + j] = <<v[i]>>[j]
  BY <1>1, <1>2, <1>4, <1>5
<1>9. a = b \o <<v[i]>>
  BY <1>3, <1>4, <1>5, <1>6, <1>7, <1>8, Together
<1> QED BY <1>3, <1>4, <1>5, <1>9 DEF a, b

\* All the elements, and none.
LEMMA FirstAll ==
  ASSUME NEW V, NEW v \in Seq(V)
  PROVE  FirstPieces(v, Len(v)) = v /\ FirstPieces(v, 0) = << >>
BY DEF FirstPieces

\* A text is made of its characters.
LEMMA FlatSingles ==
  ASSUME NEW V, NEW v \in Seq(V)
  PROVE  FlattenSeq([i \in 1..Len(v) |-> <<v[i]>>]) = v
<1> DEFINE n == Len(v)
           w == [i \in 1..n |-> <<v[i]>>]
<1>1. n \in Nat /\ w \in [1..n -> Seq(V)] /\ \A i \in 1..n : w[i] = <<v[i]>>
  OBVIOUS
<1> HIDE DEF w
<1>2. w \in Seq(Seq(V)) /\ Len(w) = n
  <2> HIDE DEF n
  <2> QED BY <1>1, SequenceOf
<1>3. PICK f : Flats(V, w, f)
  BY <1>2, FlatSteps
<1> DEFINE S == {i \in 0..n : f[i] = FirstPieces(v, i)}
<1>4. 0 \in S
  <2>1. FirstPieces(v, 0) = << >>
    BY FirstAll
  <2> QED BY <1>1, <1>3, <2>1 DEF Flats
<1>5. ASSUME NEW i \in 1..n, i - 1 \in S PROVE i \in S
  <2>1. f[i] = f[i - 1] \o w[i] /\ i \in 0..n
    BY <1>1, <1>2, <1>3 DEF Flats
  <2>2. f[i - 1] = FirstPieces(v, i - 1) /\ w[i] = <<v[i]>>
    BY <1>1, <1>5
  <2>3. FirstPieces(v, i) = FirstPieces(v, i - 1) \o <<v[i]>>
    BY FirstGrows
  <2> QED BY <2>1, <2>2, <2>3
<1> HIDE DEF S
<1>6. \A i \in 0..n : i \in S
  BY <1>1, <1>4, <1>5, UpTo
<1>7. n \in 0..n
  BY <1>1
<1>8. f[n] = FirstPieces(v, n)
  BY <1>6, <1>7 DEF S
<1>9. FlattenSeq(w) = f[n]
  BY <1>2, <1>3 DEF Flats
<1>10. FirstPieces(v, n) = v
  BY FirstAll
<1> QED BY <1>8, <1>9, <1>10 DEF w

\* Texts made of texts.
LEMMA FlatFlat ==
  ASSUME NEW V, NEW v \in Seq(Seq(V)), NEW G \in Seq(Seq(Seq(V))), Len(G) = Len(v),
         \A i \in 1..Len(v) : FlattenSeq(G[i]) = v[i]
  PROVE  FlattenSeq(FlattenSeq(G)) = FlattenSeq(v)
<1> DEFINE n == Len(v)
<1>1. n \in Nat /\ Len(G) = n /\ n \in 0..n /\ \A i \in 1..n : G[i] \in Seq(Seq(V))
  OBVIOUS
<1>2. PICK f : Flats(Seq(V), G, f)
  BY FlatSteps
<1>3. PICK g : Flats(V, v, g)
  BY FlatSteps
<1> DEFINE S == {i \in 0..n : FlattenSeq(f[i]) = g[i]}
<1>4. 0 \in S
  <2>1. f[0] = << >> /\ g[0] = << >>
    BY <1>2, <1>3 DEF Flats
  <2>2. FlattenSeq(<< >>) = << >>
    BY FlatEmpty
  <2> QED BY <1>1, <2>1, <2>2
<1>5. ASSUME NEW i \in 1..n, i - 1 \in S PROVE i \in S
  <2>1. i - 1 \in 0..n /\ i \in 0..n
    BY <1>1
  <2>2. f[i - 1] \in Seq(Seq(V))
    BY <1>1, <1>2, <2>1 DEF Flats
  <2>3. G[i] \in Seq(Seq(V))
    BY <1>1
  <2>4. FlattenSeq(f[i - 1] \o G[i]) = FlattenSeq(f[i - 1]) \o FlattenSeq(G[i])
    BY <2>2, <2>3, FlatConcat
  <2>5. f[i] = f[i - 1] \o G[i] /\ g[i] = g[i - 1] \o v[i]
    BY <1>1, <1>2, <1>3 DEF Flats
  <2>6. FlattenSeq(f[i - 1]) = g[i - 1] /\ FlattenSeq(G[i]) = v[i]
    BY <1>5
  <2>7. FlattenSeq(f[i]) = g[i]
    BY <2>4, <2>5, <2>6, Zenon
  <2> QED BY <2>1, <2>7
<1> HIDE DEF S
<1>6. \A i \in 0..n : i \in S
  BY <1>1, <1>4, <1>5, UpTo
<1>7. FlattenSeq(f[n]) = g[n]
  BY <1>1, <1>6 DEF S
<1>8. FlattenSeq(G) = f[n] /\ FlattenSeq(v) = g[n]
  BY <1>1, <1>2, <1>3 DEF Flats
<1> QED BY <1>7, <1>8

-----------------------------------------------------------------------------
(* Gathering units into parts *)

\* A sequence of one element.
LEMMA Single ==
  ASSUME NEW W, NEW p \in Seq(W), p # << >>, Len(p) <= 1
  PROVE  Len(p) = 1 /\ p = <<p[1]>> /\ p[1] \in W
<1>1. Len(p) \in Nat /\ DOMAIN p = 1..Len(p) /\ p = [i \in 1..Len(p) |-> p[i]]
  OBVIOUS
<1>2. Len(p) # 0
  OBVIOUS
<1>3. Len(p) = 1
  BY <1>1, <1>2
<1>4. p[1] \in W
  BY <1>3
<1>5. p = [i \in 1..1 |-> p[i]]
  BY <1>1, <1>3
<1>6. p = <<p[1]>>
  BY <1>5
<1> QED BY <1>3, <1>4, <1>6

\* What Append leaves.
LEMMA Appended ==
  ASSUME NEW W, NEW p \in Seq(W), NEW x \in W
  PROVE  /\ Append(p, x) \in Seq(W) /\ Len(Append(p, x)) = Len(p) + 1 /\ Append(p, x) # << >>
         /\ Append(p, x)[Len(p) + 1] = x /\ \A j \in 1..Len(p) : Append(p, x)[j] = p[j]
OBVIOUS

\* A text with one more character.
LEMMA Longer ==
  ASSUME NEW W, NEW y \in Seq(W), y # << >>, NEW c \in W
  PROVE  /\ y \o <<c>> \in Seq(W) /\ Len(y \o <<c>>) = Len(y) + 1 /\ y \o <<c>> # << >>
         /\ (y \o <<c>>)[Len(y) + 1] = c /\ \A j \in 1..Len(y) : (y \o <<c>>)[j] = y[j]
         /\ Len(y) \in Nat \ {0} /\ (y \o <<c>>)[1] = y[1]
OBVIOUS

\* What Lengthen leaves.
LEMMA Lengthened ==
  ASSUME NEW V, NEW p \in Seq(Seq(V)), p # << >>, NEW x \in Seq(V)
  PROVE  /\ Lengthen(p, x) \in Seq(Seq(V)) /\ Len(Lengthen(p, x)) = Len(p) /\ Lengthen(p, x) # << >>
         /\ \A i \in 1..(Len(p) - 1) : Lengthen(p, x)[i] = p[i]
         /\ Lengthen(p, x)[Len(p)] = p[Len(p)] \o x
         /\ FlattenSeq(Lengthen(p, x)) = FlattenSeq(p) \o x
<1> DEFINE w == Lengthen(p, x)
           n == Len(p)
<1>1. n \in Nat \ {0} /\ n \in 1..n /\ p = [i \in 1..n |-> p[i]] /\ \A i \in 1..n : p[i] \in Seq(V)
  OBVIOUS
<1>2. w = [i \in 1..n |-> IF i = n THEN p[n] \o x ELSE p[i]]
  BY <1>1 DEF Lengthen
<1> HIDE DEF w
<1>3. p[n] \o x \in Seq(V)
  BY <1>1
<1>4. w \in [1..n -> Seq(V)] /\ w[n] = p[n] \o x /\ \A i \in 1..(n - 1) : w[i] = p[i]
  BY <1>1, <1>2, <1>3
<1>5. w \in Seq(Seq(V)) /\ Len(w) = n
  <2> HIDE DEF n
  <2> QED BY <1>1, <1>4, SequenceOf
<1>6. FlattenSeq(w) = FlattenSeq(p) \o x
  BY <1>4, <1>5, FlatLast
<1>7. w # << >>
  BY <1>1, <1>5
<1> QED BY <1>4, <1>5, <1>6, <1>7 DEF w

\* f are the parts that the units of u make one after the other, J says which join the last part.
Gathers(V, u, J, f) ==
  /\ f \in [0..Len(u) -> Seq(Seq(V))] /\ f[0] = << >>
  /\ \A i \in 1..Len(u) :
       f[i] = IF i > 1 /\ <<i, f[i - 1]>> \in J THEN Lengthen(f[i - 1], u[i]) ELSE Append(f[i - 1], u[i])

\* There are such parts.
LEMMA Gathering ==
  ASSUME NEW V, NEW u \in Seq(Seq(V)), NEW J
  PROVE  \E f : Gathers(V, u, J, f)
<1> DEFINE n == Len(u)
           X == Seq(Seq(V))
           Next1(i, p) == IF i > 1 /\ <<i, p>> \in J /\ p # << >> THEN Lengthen(p, u[i]) ELSE Append(p, u[i])
           h == [z \in (1..n) \X X |-> Next1(z[1], z[2])]
<1>0. n \in Nat /\ \A i \in 1..n : u[i] \in Seq(V)
  OBVIOUS
<1> HIDE DEF n
<1>1. \A i \in 1..n, p \in X : Next1(i, p) \in X /\ Next1(i, p) # << >>
  <2> TAKE i \in 1..n, p \in X
  <2>2. u[i] \in Seq(V)
    BY <1>0
  <2>1. Append(p, u[i]) \in X /\ Append(p, u[i]) # << >>
    BY <2>2, Appended
  <2>3. ASSUME p # << >> PROVE Lengthen(p, u[i]) \in X /\ Lengthen(p, u[i]) # << >>
    BY <2>2, <2>3, Lengthened
  <2> QED BY <2>1, <2>3
<1> HIDE DEF Next1
<1>2. h \in [(1..n) \X X -> X]
  BY <1>1
<1>3. \A i \in 1..n, p \in X : h[<<i, p>>] = Next1(i, p)
  OBVIOUS
<1> HIDE DEF h
<1>4. << >> \in X
  OBVIOUS
<1> HIDE DEF X
<1>5. PICK f \in [0..n -> X] : f[0] = << >> /\ \A i \in 1..n : f[i] = h[<<i, f[i - 1]>>]
  <2>1. Recursive(n, X, << >>, h)
    BY <1>0, <1>2, <1>4, Recursion
  <2> QED BY <2>1 DEF Recursive
<1>6. ASSUME NEW i \in 1..n PROVE i - 1 \in 0..n /\ f[i - 1] \in X /\ f[i] = Next1(i, f[i - 1]) /\ f[i] # << >>
  <2>1. i - 1 \in 0..n
    BY <1>0
  <2>2. f[i - 1] \in X
    BY <2>1
  <2>3. f[i] = Next1(i, f[i - 1])
    BY <1>3, <1>5, <2>2
  <2> QED BY <1>1, <2>1, <2>2, <2>3
<1>7. ASSUME NEW i \in 1..n
      PROVE  f[i] = IF i > 1 /\ <<i, f[i - 1]>> \in J THEN Lengthen(f[i - 1], u[i]) ELSE Append(f[i - 1], u[i])
  <2>1. f[i] = Next1(i, f[i - 1])
    BY <1>6
  <2>2. i > 1 => f[i - 1] # << >>
    <3>1. i > 1 => i - 1 \in 1..n
      BY <1>0
    <3> QED BY <1>6, <3>1
  <2> QED BY <2>1, <2>2 DEF Next1
<1> QED BY <1>5, <1>7 DEF X, n, Gathers

\* One text is itself.
LEMMA FlatOne ==
  ASSUME NEW V, NEW p \in Seq(Seq(V)), Len(p) = 1
  PROVE  FlattenSeq(p) = p[1]
<1>1. p[1] \in Seq(V) /\ p = [i \in 1..1 |-> p[1]]
  OBVIOUS
<1>2. PICK f : Flats(V, p, f)
  BY FlatSteps
<1>3. FlattenSeq(p) = f[1] /\ f[1] = f[1 - 1] \o p[1] /\ f[1 - 1] = << >>
  BY <1>2 DEF Flats
<1>4. << >> \o p[1] = p[1]
  BY <1>1
<1> QED BY <1>3, <1>4

\* Texts to be packed, none of them empty.
Units(V, u) == u \in Seq(Seq(V)) /\ \A i \in 1..Len(u) : u[i] # << >>

\* Part j begins with a unit; behind it more units, if any.  It is not the first one only
\* because that unit did not fit into the part before.
Begun(V, u, p, j) ==
  \E a \in 1..Len(u), rest \in Seq(V) :
    /\ p[j] = u[a] \o rest
    /\ rest = << >> \/ \E b \in 2..Len(u) : rest[1] = u[b][1]
    /\ j > 1 => a > 1 /\ Bytes(p[j - 1]) + Bytes(u[a]) > MaxBytes

\* p are the parts after k units, f what the units make so far.
Packs(V, u, f, k, p) ==
  /\ p \in Seq(Seq(V)) /\ (p = << >> <=> k = 0) /\ FlattenSeq(p) = f[k]
  /\ Bytes(f[k]) <= MaxBytes => Len(p) <= 1
  /\ \A j \in 1..Len(p) : p[j] # << >>
  /\ (\A i \in 1..Len(u) : Bytes(u[i]) <= MaxBytes) => \A j \in 1..Len(p) : Bytes(p[j]) <= MaxBytes
  /\ \A j \in 1..Len(p) : Begun(V, u, p, j)

\* A unit is added to the last part when it fits.
LEMMA PackLengthens ==
  ASSUME NEW V, Chars(V), NEW u, Units(V, u), NEW f, Flats(V, u, f), NEW k \in 1..Len(u), k > 1,
         NEW p, Packs(V, u, f, k - 1, p), Bytes(p[Len(p)]) + Bytes(u[k]) <= MaxBytes
  PROVE  Packs(V, u, f, k, Lengthen(p, u[k]))
<1> DEFINE n == Len(p)
           x == u[k]
           q == Lengthen(p, x)
<1>1. /\ k \in Nat /\ k - 1 # 0 /\ k # 0 /\ k - 1 \in 0..Len(u) /\ k \in 2..Len(u)
      /\ x \in Seq(V) /\ x # << >> /\ p \in Seq(Seq(V)) /\ MaxBytes \in Nat
  BY SplitConstants DEF Units, Packs
<1>2. p # << >>
  BY <1>1 DEF Packs
<1>3. n \in Nat \ {0} /\ n \in 1..n /\ \A j \in 1..n : p[j] \in Seq(V) /\ p[j] # << >>
  BY <1>1, <1>2 DEF Packs
<1>4. f[k] = f[k - 1] \o x /\ f[k - 1] \in Seq(V) /\ FlattenSeq(p) = f[k - 1]
  BY <1>1 DEF Flats, Packs
<1>5. /\ q \in Seq(Seq(V)) /\ Len(q) = n /\ q # << >> /\ (\A j \in 1..(n - 1) : q[j] = p[j])
      /\ q[n] = p[n] \o x /\ FlattenSeq(q) = FlattenSeq(p) \o x
  <2>1. x \in Seq(V)
    BY <1>1
  <2> HIDE DEF x
  <2> QED BY <1>1, <1>2, <2>1, Lengthened
<1>6. Bytes(x) \in Nat /\ Bytes(f[k - 1]) \in Nat /\ Bytes(f[k]) = Bytes(f[k - 1]) + Bytes(x)
  <2>1. x \in Seq(V) /\ f[k - 1] \in Seq(V)
    BY <1>1, <1>4
  <2> HIDE DEF x
  <2> QED BY <1>4, <2>1, BytesConcat
<1>7. Bytes(p[n]) \in Nat /\ Bytes(q[n]) = Bytes(p[n]) + Bytes(x)
  <2>1. x \in Seq(V) /\ p[n] \in Seq(V)
    BY <1>1, <1>3
  <2> HIDE DEF x, q, n
  <2> QED BY <1>5, <2>1, BytesConcat
<1>8. q[n] # << >>
  <2>1. x \in Seq(V) /\ p[n] \in Seq(V) /\ x # << >>
    BY <1>1, <1>3
  <2> HIDE DEF x, q, n
  <2> QED BY <1>5, <2>1
<1>9. Begun(V, u, q, n)
  <2>1. PICK a \in 1..Len(u), rest \in Seq(V) :
          /\ p[n] = u[a] \o rest
          /\ rest = << >> \/ \E b \in 2..Len(u) : rest[1] = u[b][1]
          /\ n > 1 => a > 1 /\ Bytes(p[n - 1]) + Bytes(u[a]) > MaxBytes
    BY <1>3 DEF Packs, Begun
  <2> DEFINE more == rest \o x
  <2>2. u[a] \in Seq(V) /\ x \in Seq(V) /\ x # << >>
    BY <1>1 DEF Units
  <2>3. more \in Seq(V) /\ more[1] = (IF rest = << >> THEN x[1] ELSE rest[1])
    <3> HIDE DEF x
    <3> QED BY <2>2
  <2>4. q[n] = u[a] \o more
    <3>1. Join(Join(u[a], rest), x) = Join(u[a], Join(rest, x))
      <4>1. x \in Seq(V)
        BY <2>2
      <4>2. u[a] \in Seq(V)
        BY <2>2
      <4> HIDE DEF x
      <4> QED BY <4>1, <4>2, JoinJoin
    <3> HIDE DEF x, q, n
    <3>2. q[n] = Join(p[n], x) /\ p[n] = Join(u[a], rest) /\ more = Join(rest, x)
      BY <1>5, <2>1 DEF Join
    <3> HIDE DEF more
    <3>3. q[n] = Join(u[a], more)
      BY <3>1, <3>2, Zenon
    <3> QED BY <3>3 DEF Join
  <2>5. more = << >> \/ \E b \in 2..Len(u) : more[1] = u[b][1]
    BY <1>1, <2>1, <2>3
  <2>6. n > 1 => a > 1 /\ Bytes(q[n - 1]) + Bytes(u[a]) > MaxBytes
    <3>1. n > 1 => n - 1 \in 1..(n - 1)
      BY <1>3
    <3> QED BY <1>5, <2>1, <3>1
  <2> HIDE DEF more, n, q, x
  <2> QED BY <2>3, <2>4, <2>5, <2>6 DEF Begun
<1>10. ASSUME NEW j \in 1..n PROVE q[j] # << >> /\ Begun(V, u, q, j) /\ (Bytes(q[j]) <= MaxBytes \/ (j < n /\ q[j] = p[j]))
  <2>1. CASE j = n
    BY <1>7, <1>8, <1>9, <2>1
  <2>2. CASE j # n
    <3>1. j \in 1..(n - 1) /\ (j > 1 => j - 1 \in 1..(n - 1))
      BY <1>3, <2>2
    <3>2. q[j] = p[j] /\ (j > 1 => q[j - 1] = p[j - 1]) /\ Begun(V, u, p, j)
      BY <1>5, <3>1 DEF Packs
    <3> HIDE DEF q
    <3>3. Begun(V, u, q, j)
      BY <3>2 DEF Begun
    <3> QED BY <1>3, <3>1, <3>2, <3>3
  <2> QED BY <2>1, <2>2
<1>11. Bytes(f[k]) <= MaxBytes => Len(q) <= 1
  <2>1. Bytes(f[k]) <= MaxBytes => Bytes(f[k - 1]) <= MaxBytes
    BY <1>1, <1>6
  <2>2. Bytes(f[k - 1]) <= MaxBytes => n <= 1
    BY DEF Packs
  <2> QED BY <1>5, <2>1, <2>2
<1>12. ASSUME \A i \in 1..Len(u) : Bytes(u[i]) <= MaxBytes, NEW j \in 1..n PROVE Bytes(q[j]) <= MaxBytes
  <2>1. Bytes(p[j]) <= MaxBytes
    BY <1>12 DEF Packs
  <2> HIDE DEF q
  <2> QED BY <1>10, <2>1
<1>13. q # << >> /\ q \in Seq(Seq(V)) /\ Len(q) = n /\ FlattenSeq(q) = f[k]
  BY <1>4, <1>5
<1> HIDE DEF q
<1>14. Packs(V, u, f, k, q)
  BY <1>1, <1>10, <1>11, <1>12, <1>13 DEF Packs
<1> QED BY <1>14 DEF q

\* A unit begins a part when it does not.
LEMMA PackAppends ==
  ASSUME NEW V, Chars(V), NEW u, Units(V, u), NEW f, Flats(V, u, f), NEW k \in 1..Len(u),
         NEW p, Packs(V, u, f, k - 1, p), ~(k > 1 /\ Bytes(p[Len(p)]) + Bytes(u[k]) <= MaxBytes)
  PROVE  Packs(V, u, f, k, Append(p, u[k]))
<1> DEFINE n == Len(p)
           x == u[k]
           q == Append(p, x)
<1>1. /\ k \in Nat /\ k # 0 /\ k - 1 \in 0..Len(u)
      /\ x \in Seq(V) /\ x # << >> /\ p \in Seq(Seq(V)) /\ MaxBytes \in Nat
  BY SplitConstants DEF Units, Packs
<1>2. n \in Nat /\ (n = 0 <=> k = 1) /\ \A j \in 1..n : p[j] \in Seq(V) /\ p[j] # << >>
  <2>1. p = << >> <=> k - 1 = 0
    BY DEF Packs
  <2>2. \A j \in 1..n : p[j] # << >>
    BY DEF Packs
  <2>3. n \in Nat /\ \A j \in 1..n : p[j] \in Seq(V)
    BY <1>1
  <2>4. n = 0 <=> p = << >>
    BY <1>1
  <2>5. k - 1 = 0 <=> k = 1
    BY <1>1
  <2> HIDE DEF n
  <2> QED BY <2>1, <2>2, <2>3, <2>4, <2>5
<1>3. f[k] = f[k - 1] \o x /\ f[k - 1] \in Seq(V) /\ FlattenSeq(p) = f[k - 1]
  BY <1>1 DEF Flats, Packs
<1>4. q \in Seq(Seq(V)) /\ Len(q) = n + 1 /\ q # << >> /\ (\A j \in 1..n : q[j] = p[j]) /\ q[n + 1] = x
  <2>1. x \in Seq(V)
    BY <1>1
  <2> HIDE DEF x
  <2> QED BY <1>1, <2>1
<1>5. FlattenSeq(q) = FlattenSeq(p) \o x
  <2>1. x \in Seq(V)
    BY <1>1
  <2> HIDE DEF x
  <2> QED BY <1>1, <2>1, FlatAppend
<1>6. Bytes(x) \in Nat /\ Bytes(f[k - 1]) \in Nat /\ Bytes(f[k]) = Bytes(f[k - 1]) + Bytes(x)
  <2>1. x \in Seq(V) /\ f[k - 1] \in Seq(V)
    BY <1>1, <1>3
  <2> HIDE DEF x
  <2> QED BY <1>3, <2>1, BytesConcat
<1>7. n # 0 => Bytes(p[n]) \in Nat /\ Bytes(p[n]) + Bytes(x) > MaxBytes /\ k > 1
  <2> SUFFICES ASSUME n # 0 PROVE Bytes(p[n]) \in Nat /\ Bytes(p[n]) + Bytes(x) > MaxBytes /\ k > 1
    OBVIOUS
  <2>1. k > 1 /\ n \in 1..n
    BY <1>1, <1>2
  <2>2. x \in Seq(V) /\ p[n] \in Seq(V)
    BY <1>1, <1>2, <2>1
  <2>3. ~(Bytes(p[n]) + Bytes(x) <= MaxBytes)
    BY <2>1
  <2>4. Bytes(p[n]) \in Nat
    <3> HIDE DEF x, n
    <3> QED BY <2>2, BytesConcat
  <2> QED BY <1>1, <1>6, <2>1, <2>3, <2>4
<1>8. Begun(V, u, q, n + 1)
  <2>1. x = u[k] \o << >> /\ << >> \in Seq(V)
    BY <1>1
  <2>2. n + 1 > 1 => k > 1 /\ Bytes(q[(n + 1) - 1]) + Bytes(u[k]) > MaxBytes
    <3>1. n + 1 > 1 => n # 0 /\ n \in 1..n /\ (n + 1) - 1 = n
      BY <1>2
    <3> QED BY <1>4, <1>7, <3>1
  <2> DEFINE a == k
             rest == << >>
             m == n + 1
  <2>3. /\ a \in 1..Len(u) /\ rest \in Seq(V) /\ q[m] = u[a] \o rest /\ rest = << >>
        /\ m > 1 => a > 1 /\ Bytes(q[m - 1]) + Bytes(u[a]) > MaxBytes
    BY <1>4, <2>1, <2>2
  <2> HIDE DEF a, rest, m, q
  <2>4. Begun(V, u, q, m)
    BY <2>3 DEF Begun
  <2> QED BY <2>4 DEF m
<1>9. ASSUME NEW j \in 1..(n + 1) PROVE q[j] # << >> /\ Begun(V, u, q, j) /\ (q[j] = x \/ (j \in 1..n /\ q[j] = p[j]))
  <2>1. CASE j = n + 1
    BY <1>1, <1>4, <1>8, <2>1
  <2>2. CASE j # n + 1
    <3>1. j \in 1..n /\ (j > 1 => j - 1 \in 1..n)
      BY <1>2, <2>2
    <3>2. q[j] = p[j] /\ (j > 1 => q[j - 1] = p[j - 1]) /\ Begun(V, u, p, j)
      BY <1>4, <3>1 DEF Packs
    <3> HIDE DEF q
    <3> QED BY <1>2, <3>1, <3>2 DEF Begun
  <2> QED BY <2>1, <2>2
<1>10. Bytes(f[k]) <= MaxBytes => Len(q) <= 1
  <2> SUFFICES ASSUME Bytes(f[k]) <= MaxBytes, n # 0 PROVE FALSE
    BY <1>2, <1>4
  <2>1. Bytes(f[k - 1]) <= MaxBytes
    BY <1>1, <1>6
  <2>2. n = 1
    <3>1. n <= 1
      BY <2>1 DEF Packs
    <3> HIDE DEF n
    <3> QED BY <1>2, <3>1
  <2>3. FlattenSeq(p) = p[1]
    BY <1>1, <2>2, FlatOne
  <2> QED BY <1>1, <1>3, <1>6, <1>7, <2>2, <2>3
<1>11. ASSUME \A i \in 1..Len(u) : Bytes(u[i]) <= MaxBytes, NEW j \in 1..(n + 1) PROVE Bytes(q[j]) <= MaxBytes
  <2>1. Bytes(x) <= MaxBytes /\ \A i \in 1..n : Bytes(p[i]) <= MaxBytes
    BY <1>11 DEF Packs
  <2> HIDE DEF q
  <2> QED BY <1>9, <2>1
<1>12. q # << >> /\ q \in Seq(Seq(V)) /\ Len(q) = n + 1 /\ FlattenSeq(q) = f[k]
  BY <1>3, <1>4, <1>5
<1> HIDE DEF q
<1>13. Packs(V, u, f, k, q)
  BY <1>1, <1>9, <1>10, <1>11, <1>12 DEF Packs
<1> QED BY <1>13 DEF q

\* Packed computes such parts.
LEMMA PackedPacks ==
  ASSUME NEW V, Chars(V), NEW u, Units(V, u), NEW f, Flats(V, u, f)
  PROVE  Packs(V, u, f, Len(u), Packed(u))
<1> DEFINE n == Len(u)
           Step(p) == [k \in 0..n |-> IF k = 0 THEN << >>
                                      ELSE IF k > 1 /\ Bytes(p[k - 1][Len(p[k - 1])]) + Bytes(u[k]) <= MaxBytes
                                           THEN Lengthen(p[k - 1], u[k])
                                           ELSE Append(p[k - 1], u[k])]
           T == CHOOSE p : p = Step(p)
<1>1. n \in Nat /\ \A i \in 1..n : u[i] \in Seq(V)
  BY DEF Units
<1>2. Packed(u) = T[n]
  BY DEF Packed
<1>3. \E p : p = Step(p)
  <2> DEFINE J == {z \in (1..n) \X Seq(Seq(V)) : Bytes(z[2][Len(z[2])]) + Bytes(u[z[1]]) <= MaxBytes}
  <2>0. u \in Seq(Seq(V))
    BY DEF Units
  <2> HIDE DEF J
  <2>p. PICK p : Gathers(V, u, J, p)
    BY <2>0, Gathering
  <2>1. /\ p \in [0..n -> Seq(Seq(V))] /\ p[0] = << >>
        /\ \A i \in 1..n : p[i] = IF i > 1 /\ <<i, p[i - 1]>> \in J THEN Lengthen(p[i - 1], u[i]) ELSE Append(p[i - 1], u[i])
    BY <2>p DEF Gathers
  <2>2. ASSUME NEW i \in 1..n
        PROVE  <<i, p[i - 1]>> \in J <=> Bytes(p[i - 1][Len(p[i - 1])]) + Bytes(u[i]) <= MaxBytes
    <3>1. i - 1 \in 0..n
      BY <1>1
    <3>2. p[i - 1] \in Seq(Seq(V))
      BY <2>1, <3>1
    <3> QED BY <3>2 DEF J
  <2> HIDE DEF n
  <2>3. \A i \in 0..n : p[i] = Step(p)[i]
    <3> TAKE i \in 0..n
    <3>1. CASE i = 0
      BY <2>1, <3>1
    <3>2. CASE i # 0
      <4>1. i \in 1..n
        BY <1>1, <3>2
      <4>2. p[i] = IF i > 1 /\ <<i, p[i - 1]>> \in J THEN Lengthen(p[i - 1], u[i]) ELSE Append(p[i - 1], u[i])
        BY <2>1, <4>1
      <4>3. <<i, p[i - 1]>> \in J <=> Bytes(p[i - 1][Len(p[i - 1])]) + Bytes(u[i]) <= MaxBytes
        BY <2>2, <4>1
      <4> QED BY <3>2, <4>2, <4>3
    <3> QED BY <3>1, <3>2
  <2>4. p = Step(p)
    BY <2>1, <2>3
  <2> QED BY <2>4
<1>4. T = Step(T)
  BY <1>3
<1> HIDE DEF T
<1>5. \A k \in 0..n : T[k] = Step(T)[k]
  BY <1>4, Zenon
<1> DEFINE S == {k \in 0..n : Packs(V, u, f, k, T[k])}
<1>6. 0 \in S
  <2>1. T[0] = << >> /\ 0 \in 0..n
    BY <1>1, <1>5
  <2>2. f[0] = << >> /\ FlattenSeq(<< >>) = << >>
    BY FlatEmpty DEF Flats
  <2>3. << >> \in Seq(Seq(V)) /\ Len(<< >>) = 0
    OBVIOUS
  <2>4. Packs(V, u, f, 0, << >>)
    BY <2>2, <2>3 DEF Packs
  <2> QED BY <2>1, <2>4
<1>7. ASSUME NEW k \in 1..n, k - 1 \in S PROVE k \in S
  <2>1. k \in 0..n /\ k # 0
    BY <1>1
  <2>2. Packs(V, u, f, k - 1, T[k - 1])
    BY <1>7
  <2>3. CASE k > 1 /\ Bytes(T[k - 1][Len(T[k - 1])]) + Bytes(u[k]) <= MaxBytes
    <3>1. T[k] = Lengthen(T[k - 1], u[k])
      BY <1>5, <2>1, <2>3
    <3>2. Packs(V, u, f, k, Lengthen(T[k - 1], u[k]))
      BY <2>2, <2>3, PackLengthens
    <3> QED BY <2>1, <3>1, <3>2
  <2>4. CASE ~(k > 1 /\ Bytes(T[k - 1][Len(T[k - 1])]) + Bytes(u[k]) <= MaxBytes)
    <3>1. T[k] = Append(T[k - 1], u[k])
      BY <1>5, <2>1, <2>4
    <3>2. Packs(V, u, f, k, Append(T[k - 1], u[k]))
      BY <2>2, <2>4, PackAppends
    <3> QED BY <2>1, <3>1, <3>2
  <2> QED BY <2>3, <2>4
<1> HIDE DEF S
<1>8. \A k \in 0..n : k \in S
  BY <1>1, <1>6, <1>7, UpTo
<1>9. Packs(V, u, f, n, T[n])
  BY <1>1, <1>8 DEF S
<1> QED BY <1>2, <1>9

\* hard_slice_to_budget loses nothing and keeps the limit; what fits already stays as it is.
LEMMA HardSlices ==
  ASSUME NEW V, Chars(V), NEW s \in Seq(V), s # << >>
  PROVE  /\ HardSlice(s) \in Seq(Seq(V)) /\ FlattenSeq(HardSlice(s)) = s
         /\ \A j \in 1..Len(HardSlice(s)) : HardSlice(s)[j] # << >> /\ Bytes(HardSlice(s)[j]) <= MaxBytes
         /\ Bytes(s) <= MaxBytes => HardSlice(s) = <<s>>
<1> DEFINE n == Len(s)
           u == [i \in 1..n |-> <<s[i]>>]
           p == HardSlice(s)
<1>1. n \in Nat \ {0} /\ u \in [1..n -> Seq(V)] /\ \A i \in 1..n : s[i] \in V /\ u[i] = <<s[i]>> /\ u[i] # << >>
  OBVIOUS
<1>2. p = Packed(u) /\ FlattenSeq(u) = s
  BY FlatSingles DEF HardSlice
<1> HIDE DEF u, p
<1>3. u \in Seq(Seq(V)) /\ Len(u) = n
  <2> HIDE DEF n
  <2>1. n \in Nat
    BY <1>1
  <2> QED BY <1>1, <2>1, SequenceOf
<1>4. Units(V, u)
  BY <1>1, <1>3 DEF Units
<1>5. PICK f : Flats(V, u, f)
  BY <1>3, FlatSteps
<1>6. f[n] = s
  BY <1>2, <1>3, <1>5 DEF Flats
<1>7. Packs(V, u, f, n, p)
  <2>1. Packs(V, u, f, Len(u), Packed(u))
    BY <1>4, <1>5, PackedPacks
  <2> QED BY <1>2, <1>3, <2>1
<1>8. ASSUME NEW i \in 1..Len(u) PROVE Bytes(u[i]) <= MaxBytes
  <2>1. s[i] \in V /\ u[i] = <<s[i]>>
    BY <1>1, <1>3
  <2>2. Bytes(<<s[i]>>) = s[i].bytes
    BY <2>1, BytesOne
  <2>3. s[i].bytes \in 1..MaxBytes /\ MaxBytes \in Nat
    BY <2>1, SplitConstants DEF Chars
  <2> QED BY <2>1, <2>2, <2>3
<1>9. p \in Seq(Seq(V)) /\ FlattenSeq(p) = s /\ p # << >> /\ \A j \in 1..Len(p) : p[j] # << >> /\ Bytes(p[j]) <= MaxBytes
  BY <1>1, <1>6, <1>7, <1>8 DEF Packs
<1>10. Bytes(s) <= MaxBytes => p = <<s>>
  <2> SUFFICES ASSUME Bytes(s) <= MaxBytes PROVE p = <<s>>
    OBVIOUS
  <2>1. Len(p) <= 1
    BY <1>6, <1>7 DEF Packs
  <2>2. Len(p) = 1 /\ p = <<p[1]>>
    <3>1. p \in Seq(Seq(V)) /\ p # << >>
      BY <1>9
    <3> QED BY <2>1, <3>1, Single
  <2>3. p[1] = s
    BY <1>9, <2>2, FlatOne
  <2> QED BY <2>2, <2>3
<1> QED BY <1>9, <1>10 DEF p

-----------------------------------------------------------------------------
(* Sections *)

Inner(x)  == \A m \in 2..Len(x) : ~x[m].head
Headed(r)  == r = << >> \/ r[1].head

\* p are the sections of the first i characters.
Cut(V, s, i, p) ==
  /\ p \in Seq(Seq(V)) /\ (p = << >> <=> i = 0) /\ FlattenSeq(p) = FirstPieces(s, i)
  /\ \A j \in 1..Len(p) : p[j] # << >> /\ (j > 1 => p[j][1].head) /\ Inner(p[j])
  /\ p # << >> => \E rest \in Seq(V) : FirstPieces(s, i) = p[1] \o rest /\ (rest = << >> <=> Len(p) = 1) /\ Headed(rest)

\* A character that goes on with a section.
LEMMA CutLengthens ==
  ASSUME NEW V, NEW s \in Seq(V), NEW i \in 1..Len(s), i # 1, ~s[i].head, NEW p, Cut(V, s, i - 1, p)
  PROVE  Cut(V, s, i, Lengthen(p, <<s[i]>>))
<1> DEFINE n == Len(p)
           x == <<s[i]>>
           q == Lengthen(p, x)
           now == FirstPieces(s, i)
<1>1. i \in Nat /\ i # 0 /\ i - 1 # 0 /\ p \in Seq(Seq(V))
  BY DEF Cut
<1>2. p # << >>
  BY <1>1 DEF Cut
<1>3. n \in Nat \ {0} /\ n \in 1..n /\ \A j \in 1..n : p[j] \in Seq(V) /\ p[j] # << >>
  BY <1>1, <1>2 DEF Cut
<1>4. now = FirstPieces(s, i - 1) \o x /\ x \in Seq(V) /\ FirstPieces(s, i - 1) \in Seq(V)
  BY FirstGrows
<1>5. /\ q \in Seq(Seq(V)) /\ Len(q) = n /\ q # << >> /\ (\A j \in 1..(n - 1) : q[j] = p[j])
      /\ q[n] = p[n] \o x /\ FlattenSeq(q) = FlattenSeq(p) \o x
  <2>1. x \in Seq(V)
    BY <1>4
  <2> HIDE DEF x
  <2> QED BY <1>1, <1>2, <2>1, Lengthened
<1>6. x \in Seq(V) /\ Len(x) = 1 /\ x[1] = s[i] /\ x # << >>
  BY <1>4
<1> HIDE DEF q, x, now
<1>7. ASSUME NEW j \in 1..n PROVE q[j] # << >> /\ (j > 1 => q[j][1].head) /\ Inner(q[j])
  <2>0. p[j] # << >> /\ (j > 1 => p[j][1].head) /\ Inner(p[j]) /\ p[j] \in Seq(V)
    BY <1>3 DEF Cut
  <2>1. CASE j = n
    <3> DEFINE y == p[j]
               z == q[j]
    <3>1. y \in Seq(V) /\ y # << >> /\ z = y \o x
      BY <1>5, <2>0, <2>1
    <3> HIDE DEF y, z
    <3>2. Len(z) = Len(y) + 1 /\ Len(y) \in Nat \ {0} /\ z # << >> /\ z[1] = y[1] /\ z[Len(y) + 1] = s[i]
          /\ \A m \in 1..Len(y) : z[m] = y[m]
      BY <3>1, Longer DEF x
    <3>3. ASSUME Inner(y), NEW m \in 2..Len(z) PROVE ~z[m].head
      <4>1. CASE m = Len(y) + 1
        BY <3>2, <4>1
      <4>2. CASE m # Len(y) + 1
        <5>1. m \in 2..Len(y) /\ m \in 1..Len(y)
          BY <3>2, <4>2
        <5> QED BY <3>2, <3>3, <5>1 DEF Inner
      <4> QED BY <4>1, <4>2
    <3> QED BY <2>0, <3>2, <3>3 DEF Inner, y, z
  <2>2. CASE j # n
    <3>1. q[j] = p[j]
      BY <1>3, <1>5, <2>2
    <3> QED BY <2>0, <3>1
  <2> QED BY <2>1, <2>2
<1>8. \E rest \in Seq(V) : now = q[1] \o rest /\ (rest = << >> <=> Len(q) = 1) /\ Headed(rest)
  <2>1. PICK rest \in Seq(V) : FirstPieces(s, i - 1) = p[1] \o rest /\ (rest = << >> <=> n = 1) /\ Headed(rest)
    BY <1>2 DEF Cut
  <2>2. p[1] \in Seq(V)
    BY <1>3
  <2>3. CASE n = 1
    <3>1. rest = << >> /\ q[1] = p[1] \o x
      BY <1>5, <2>1, <2>3
    <3>2. p[1] \o rest = p[1] /\ q[1] \o << >> = q[1]
      BY <1>6, <2>2, <3>1
    <3>3. now = q[1] \o << >> /\ << >> \in Seq(V) /\ Len(q) = 1
      BY <1>4, <1>5, <2>1, <2>3, <3>1, <3>2
    <3> QED BY <3>3 DEF Headed
  <2>4. CASE n # 1
    <3> DEFINE more == rest \o x
    <3>1. rest # << >> /\ q[1] = p[1]
      <4>1. rest # << >>
        BY <2>1, <2>4
      <4>2. 1 \in 1..n
        BY <1>3
      <4>3. q[1] = p[1]
        BY <1>5, <2>4, <4>2
      <4> QED BY <4>1, <4>3
    <3>2. more \in Seq(V) /\ more # << >> /\ more[1] = rest[1]
      BY <1>6, <3>1
    <3>3. now = q[1] \o more
      <4>1. Join(Join(p[1], rest), x) = Join(p[1], Join(rest, x))
        BY <1>6, <2>2, JoinJoin
      <4>2. now = Join(FirstPieces(s, i - 1), x) /\ FirstPieces(s, i - 1) = Join(p[1], rest) /\ more = Join(rest, x)
        BY <1>4, <2>1 DEF Join
      <4> HIDE DEF more
      <4>3. now = Join(p[1], more)
        BY <4>1, <4>2, Zenon
      <4> QED BY <3>1, <4>3 DEF Join
    <3>4. Headed(more)
      BY <2>1, <3>1, <3>2 DEF Headed
    <3> HIDE DEF more, n
    <3> QED BY <1>5, <2>4, <3>2, <3>3, <3>4
  <2> QED BY <2>3, <2>4
<1>9. FlattenSeq(q) = now
  <2>1. FlattenSeq(p) = FirstPieces(s, i - 1)
    BY DEF Cut
  <2> QED BY <1>4, <1>5, <2>1
<1>10. Cut(V, s, i, q)
  BY <1>1, <1>5, <1>7, <1>8, <1>9 DEF Cut, now
<1> QED BY <1>10 DEF q, x

\* A character that begins one.
LEMMA CutAppends ==
  ASSUME NEW V, NEW s \in Seq(V), NEW i \in 1..Len(s), i = 1 \/ s[i].head, NEW p, Cut(V, s, i - 1, p)
  PROVE  Cut(V, s, i, Append(p, <<s[i]>>))
<1> DEFINE n == Len(p)
           x == <<s[i]>>
           q == Append(p, x)
           now == FirstPieces(s, i)
<1>1. i \in Nat /\ i # 0 /\ p \in Seq(Seq(V)) /\ (i = 1 <=> i - 1 = 0)
  BY DEF Cut
<1>2. n \in Nat /\ (n = 0 <=> i = 1) /\ \A j \in 1..n : p[j] \in Seq(V) /\ p[j] # << >>
  <2>1. p = << >> <=> i - 1 = 0
    BY DEF Cut
  <2> QED BY <1>1, <2>1 DEF Cut
<1>3. now = FirstPieces(s, i - 1) \o x /\ x \in Seq(V) /\ FirstPieces(s, i - 1) \in Seq(V)
  BY FirstGrows
<1>4. x \in Seq(V) /\ Len(x) = 1 /\ x[1] = s[i] /\ x # << >>
  BY <1>3
<1> HIDE DEF x, now
<1>5. q \in Seq(Seq(V)) /\ Len(q) = n + 1 /\ q # << >> /\ (\A j \in 1..n : q[j] = p[j]) /\ q[n + 1] = x
  <2>1. p \in Seq(Seq(V)) /\ x \in Seq(V)
    BY <1>1, <1>4
  <2> QED BY <2>1, Appended
<1>6. FlattenSeq(q) = FlattenSeq(p) \o x
  BY <1>1, <1>4, FlatAppend
<1> HIDE DEF q
<1>7. ASSUME NEW j \in 1..(n + 1) PROVE q[j] # << >> /\ (j > 1 => q[j][1].head) /\ Inner(q[j])
  <2>1. CASE j = n + 1
    <3>1. q[j] = x /\ (j > 1 => s[i].head)
      BY <1>2, <1>5, <2>1
    <3>2. Inner(x)
      BY <1>4 DEF Inner
    <3> QED BY <1>4, <3>1, <3>2
  <2>2. CASE j # n + 1
    <3>1. j \in 1..n
      BY <1>2, <2>2
    <3>2. q[j] = p[j] /\ p[j] # << >> /\ (j > 1 => p[j][1].head) /\ Inner(p[j])
      BY <1>5, <3>1 DEF Cut
    <3> QED BY <3>2
  <2> QED BY <2>1, <2>2
<1>8. \E rest \in Seq(V) : now = q[1] \o rest /\ (rest = << >> <=> Len(q) = 1) /\ Headed(rest)
  <2>1. CASE n = 0
    <3>1. FirstPieces(s, i - 1) = << >>
      <4>1. i - 1 = 0
        BY <1>1, <1>2, <2>1
      <4> QED BY <4>1, FirstAll
    <3>2. now = q[1] \o << >> /\ << >> \in Seq(V) /\ Len(q) = 1
      BY <1>3, <1>4, <1>5, <2>1, <3>1
    <3> QED BY <3>2 DEF Headed
  <2>2. CASE n # 0
    <3>1. PICK rest \in Seq(V) : FirstPieces(s, i - 1) = p[1] \o rest /\ Headed(rest)
      BY <1>1, <2>2 DEF Cut
    <3> DEFINE more == rest \o x
    <3>2. p[1] \in Seq(V) /\ q[1] = p[1] /\ s[i].head
      BY <1>2, <1>5, <2>2
    <3>3. more \in Seq(V) /\ more # << >> /\ more[1] = IF rest = << >> THEN s[i] ELSE rest[1]
      BY <1>4
    <3>4. now = q[1] \o more
      <4>1. Join(Join(p[1], rest), x) = Join(p[1], Join(rest, x))
        BY <1>4, <3>2, JoinJoin
      <4>2. now = Join(FirstPieces(s, i - 1), x) /\ FirstPieces(s, i - 1) = Join(p[1], rest) /\ more = Join(rest, x)
        BY <1>3, <3>1 DEF Join
      <4> HIDE DEF more
      <4>3. now = Join(p[1], more)
        BY <4>1, <4>2, Zenon
      <4> QED BY <3>2, <4>3 DEF Join
    <3>5. Headed(more)
      BY <3>1, <3>2, <3>3 DEF Headed
    <3>6. Len(q) # 1
      BY <1>2, <1>5, <2>2
    <3> HIDE DEF more, n
    <3> QED BY <3>3, <3>4, <3>5, <3>6
  <2> QED BY <2>1, <2>2
<1>9. FlattenSeq(q) = now
  <2>1. FlattenSeq(p) = FirstPieces(s, i - 1)
    BY DEF Cut
  <2> QED BY <1>3, <1>6, <2>1
<1>10. Cut(V, s, i, q)
  BY <1>1, <1>5, <1>7, <1>8, <1>9 DEF Cut, now
<1> QED BY <1>10 DEF q, x

\* Sections computes such sections.
LEMMA SectionsCut ==
  ASSUME NEW V, NEW s \in Seq(V)
  PROVE  Cut(V, s, Len(s), Sections(s))
<1> DEFINE n == Len(s)
           u == [i \in 1..n |-> <<s[i]>>]
           Step(p) == [i \in 0..n |-> IF i = 0 THEN << >>
                                      ELSE IF i = 1 \/ s[i].head THEN Append(p[i - 1], <<s[i]>>)
                                           ELSE Lengthen(p[i - 1], <<s[i]>>)]
           T == CHOOSE p : p = Step(p)
<1>1. n \in Nat /\ u \in [1..n -> Seq(V)] /\ \A i \in 1..n : u[i] = <<s[i]>>
  OBVIOUS
<1>2. Sections(s) = T[n]
  BY DEF Sections
<1> HIDE DEF u
<1>3. \E p : p = Step(p)
  <2> DEFINE J == {z \in (1..n) \X Seq(Seq(V)) : ~s[z[1]].head}
  <2>0. u \in Seq(Seq(V)) /\ Len(u) = n
    <3> HIDE DEF n
    <3>1. n \in Nat
      BY <1>1
    <3> QED BY <1>1, <3>1, SequenceOf
  <2> HIDE DEF J
  <2>p. PICK p : Gathers(V, u, J, p)
    BY <2>0, Gathering
  <2>1. /\ p \in [0..n -> Seq(Seq(V))] /\ p[0] = << >>
        /\ \A i \in 1..n : p[i] = IF i > 1 /\ <<i, p[i - 1]>> \in J THEN Lengthen(p[i - 1], u[i]) ELSE Append(p[i - 1], u[i])
    BY <2>0, <2>p DEF Gathers
  <2>2. ASSUME NEW i \in 1..n
        PROVE  <<i, p[i - 1]>> \in J <=> ~s[i].head
    <3>1. i - 1 \in 0..n
      BY <1>1
    <3>2. p[i - 1] \in Seq(Seq(V))
      BY <2>1, <3>1
    <3> QED BY <3>2 DEF J
  <2> HIDE DEF n
  <2>3. \A i \in 0..n : p[i] = Step(p)[i]
    <3> TAKE i \in 0..n
    <3>1. CASE i = 0
      BY <2>1, <3>1
    <3>2. CASE i # 0
      <4>1. i \in 1..n /\ (i > 1 <=> i # 1)
        BY <1>1, <3>2
      <4>2. p[i] = IF i > 1 /\ <<i, p[i - 1]>> \in J THEN Lengthen(p[i - 1], <<s[i]>>) ELSE Append(p[i - 1], <<s[i]>>)
        BY <1>1, <2>1, <4>1
      <4>3. <<i, p[i - 1]>> \in J <=> ~s[i].head
        BY <2>2, <4>1
      <4> QED BY <3>2, <4>1, <4>2, <4>3
    <3> QED BY <3>1, <3>2
  <2>4. p = Step(p)
    BY <2>1, <2>3
  <2> QED BY <2>4
<1>4. T = Step(T)
  BY <1>3
<1> HIDE DEF T
<1>5. \A k \in 0..n : T[k] = Step(T)[k]
  BY <1>4, Zenon
<1> DEFINE S == {k \in 0..n : Cut(V, s, k, T[k])}
<1>6. 0 \in S
  <2>1. T[0] = << >> /\ 0 \in 0..n
    <3>1. 0 \in 0..n
      BY <1>1
    <3>2. T[0] = Step(T)[0]
      BY <1>5, <3>1
    <3>3. Step(T)[0] = << >>
      BY <3>1, Zenon
    <3> QED BY <3>1, <3>2, <3>3, Zenon
  <2>2. FirstPieces(s, 0) = << >> /\ FlattenSeq(<< >>) = << >>
    BY FirstAll, FlatEmpty
  <2>3. << >> \in Seq(Seq(V)) /\ Len(<< >>) = 0
    OBVIOUS
  <2>4. Cut(V, s, 0, << >>)
    BY <2>2, <2>3 DEF Cut
  <2> QED BY <2>1, <2>4
<1>7. ASSUME NEW k \in 1..n, k - 1 \in S PROVE k \in S
  <2>1. k \in 0..n /\ k # 0
    BY <1>1
  <2>2. Cut(V, s, k - 1, T[k - 1])
    BY <1>7
  <2>3. CASE k = 1 \/ s[k].head
    <3>1. T[k] = Append(T[k - 1], <<s[k]>>)
      BY <1>5, <2>1, <2>3
    <3>2. Cut(V, s, k, Append(T[k - 1], <<s[k]>>))
      BY <2>2, <2>3, CutAppends
    <3> QED BY <2>1, <3>1, <3>2
  <2>4. CASE ~(k = 1 \/ s[k].head)
    <3>1. T[k] = Lengthen(T[k - 1], <<s[k]>>)
      BY <1>5, <2>1, <2>4
    <3>2. Cut(V, s, k, Lengthen(T[k - 1], <<s[k]>>))
      BY <2>2, <2>4, CutLengthens
    <3> QED BY <2>1, <3>1, <3>2
  <2> QED BY <2>3, <2>4
<1> HIDE DEF S
<1>8. \A k \in 0..n : k \in S
  BY <1>1, <1>6, <1>7, UpTo
<1>9. Cut(V, s, n, T[n])
  BY <1>1, <1>8 DEF S
<1> QED BY <1>2, <1>9

\* Sections of a text: none is empty, put together they are the text, and each but the first
\* begins with a header.
LEMMA SectionsSound ==
  ASSUME NEW V, NEW s \in Seq(V), s # << >>
  PROVE  /\ Units(V, Sections(s)) /\ Sections(s) # << >> /\ FlattenSeq(Sections(s)) = s
         /\ \A j \in 1..Len(Sections(s)) : (j > 1 => Sections(s)[j][1].head) /\ Inner(Sections(s)[j])
         /\ \E rest \in Seq(V) : s = Sections(s)[1] \o rest /\ Headed(rest)
<1> DEFINE p == Sections(s)
<1>1. Cut(V, s, Len(s), p)
  BY SectionsCut
<1>2. FirstPieces(s, Len(s)) = s
  BY FirstAll
<1>3. Len(s) # 0
  OBVIOUS
<1> HIDE DEF p
<1>4. p # << >>
  BY <1>1, <1>3 DEF Cut
<1>5. Units(V, p) /\ FlattenSeq(p) = s
  BY <1>1, <1>2 DEF Cut, Units
<1>6. \A j \in 1..Len(p) : (j > 1 => p[j][1].head) /\ Inner(p[j])
  BY <1>1 DEF Cut
<1>7. \E rest \in Seq(V) : s = p[1] \o rest /\ Headed(rest)
  BY <1>1, <1>2, <1>4 DEF Cut
<1> QED BY <1>4, <1>5, <1>6, <1>7 DEF p

\* A text has one first section.
LEMMA NotShorter ==
  ASSUME NEW V, NEW x \in Seq(V), x # << >>, NEW y \in Seq(V), NEW r \in Seq(V), NEW t \in Seq(V),
         x \o r = y \o t, Inner(y), Headed(r)
  PROVE  Len(x) >= Len(y)
<1> SUFFICES ASSUME Len(x) < Len(y) PROVE FALSE
  OBVIOUS
<1> DEFINE m == Len(x) + 1
<1>1. Len(x) \in Nat \ {0} /\ Len(y) \in Nat /\ Len(r) \in Nat /\ Len(t) \in Nat
  OBVIOUS
<1>2. m \in 2..Len(y) /\ m \in 1..Len(y)
  BY <1>1
<1>3. (y \o t)[m] = y[m]
  BY <1>2
<1>4. Len(x \o r) = Len(x) + Len(r) /\ Len(y \o t) = Len(y) + Len(t)
  OBVIOUS
<1>5. Len(r) # 0
  BY <1>1, <1>4
<1>6. (x \o r)[m] = r[1]
  BY <1>1, <1>5
<1>7. r[1].head
  BY <1>5 DEF Headed
<1>8. ~y[m].head
  BY <1>2 DEF Inner
<1> QED BY <1>3, <1>6, <1>7, <1>8

\* Two ways to begin a text with a section are one.
LEMMA SameFirst ==
  ASSUME NEW V, NEW x \in Seq(V), x # << >>, NEW y \in Seq(V), y # << >>, NEW r \in Seq(V), NEW t \in Seq(V),
         x \o r = y \o t, Inner(x), Inner(y), Headed(r), Headed(t)
  PROVE  x = y
<1>1. Len(x) >= Len(y)
  BY NotShorter
<1>2. Len(y) >= Len(x)
  BY NotShorter
<1>3. Len(x) = Len(y) /\ Len(x) \in Nat
  BY <1>1, <1>2
<1>4. \A i \in 1..Len(x) : (x \o r)[i] = x[i]
  OBVIOUS
<1>5. \A i \in 1..Len(y) : (y \o t)[i] = y[i]
  OBVIOUS
<1>6. \A i \in 1..Len(x) : x[i] = y[i]
  BY <1>3, <1>4, <1>5
<1>7. x = [i \in 1..Len(x) |-> x[i]] /\ y = [i \in 1..Len(y) |-> y[i]]
  OBVIOUS
<1>8. [i \in 1..Len(x) |-> x[i]] = [i \in 1..Len(y) |-> y[i]]
  BY <1>3, <1>6
<1> QED BY <1>7, <1>8, Zenon

-----------------------------------------------------------------------------
(* Splitting *)

\* What is asked of the parts of s.
Parts(V, s, p) ==
  /\ p \in Seq(Seq(V)) /\ FlattenSeq(p) = s /\ (s # << >> => \A k \in 1..Len(p) : p[k] # << >>)
  /\ \A k \in 1..Len(p) : Bytes(p[k]) <= MaxBytes
FewParts(s, p) ==
  (\A k \in DOMAIN Sections(s) : Fits(Sections(s)[k])) =>
    \A k \in 2..Len(p) : p[k][1].head /\ Bytes(p[k - 1]) + Bytes(Sections(p[k])[1]) > MaxBytes

\* A text that fits is its only part.
LEMMA NotSplit ==
  ASSUME NEW V, NEW s \in Seq(V), Fits(s)
  PROVE  Parts(V, s, <<s>>) /\ FewParts(s, <<s>>)
<1>1. <<s>> \in Seq(Seq(V)) /\ Len(<<s>>) = 1 /\ <<s>>[1] = s
  OBVIOUS
<1>2. FlattenSeq(<<s>>) = s
  BY <1>1, FlatOne
<1>3. Parts(V, s, <<s>>)
  BY <1>1, <1>2 DEF Parts, Fits
<1>4. FewParts(s, <<s>>)
  BY <1>1 DEF FewParts
<1> QED BY <1>3, <1>4

\* Each packed part is kept or sliced.
KeptOrSliced(packed) == [k \in 1..Len(packed) |-> IF Fits(packed[k]) THEN <<packed[k]>> ELSE HardSlice(packed[k])]

\* Keeping or slicing each part loses nothing and leaves parts that fit; whole ones stay.
LEMMA KeptParts ==
  ASSUME NEW V, Chars(V), NEW packed \in Seq(Seq(V)), \A k \in 1..Len(packed) : packed[k] # << >>
  PROVE  /\ FlattenSeq(KeptOrSliced(packed)) \in Seq({x \in Seq(V) : x # << >> /\ Bytes(x) <= MaxBytes})
         /\ FlattenSeq(FlattenSeq(KeptOrSliced(packed))) = FlattenSeq(packed)
         /\ (\A k \in 1..Len(packed) : Bytes(packed[k]) <= MaxBytes) => FlattenSeq(KeptOrSliced(packed)) = packed
<1> DEFINE n == Len(packed)
           G == KeptOrSliced(packed)
           P == {x \in Seq(V) : x # << >> /\ Bytes(x) <= MaxBytes}
<1>1. n \in Nat /\ \A k \in 1..n : packed[k] \in Seq(V) /\ packed[k] # << >>
  OBVIOUS
<1>2. G = [k \in 1..n |-> G[k]] /\ \A k \in 1..n : G[k] = IF Fits(packed[k]) THEN <<packed[k]>> ELSE HardSlice(packed[k])
  BY DEF KeptOrSliced
<1> HIDE DEF G
<1>3. ASSUME NEW k \in 1..n
      PROVE  /\ G[k] \in Seq(P) /\ G[k] \in Seq(Seq(V)) /\ FlattenSeq(G[k]) = packed[k]
             /\ Bytes(packed[k]) <= MaxBytes => G[k] = <<packed[k]>>
  <2> DEFINE x == packed[k]
             g == G[k]
  <2>1. x \in Seq(V) /\ x # << >>
    BY <1>1
  <2>2. g = IF Fits(x) THEN <<x>> ELSE HardSlice(x)
    BY <1>2
  <2> HIDE DEF x, g
  <2>3. CASE Fits(x)
    <3>1. x \in P
      BY <2>1, <2>3 DEF Fits
    <3>2. g = <<x>> /\ <<x>> \in Seq(P) /\ <<x>> \in Seq(Seq(V)) /\ Len(<<x>>) = 1 /\ <<x>>[1] = x
      BY <2>1, <2>2, <2>3, <3>1
    <3>3. FlattenSeq(<<x>>) = x
      BY <3>2, FlatOne
    <3> QED BY <3>2, <3>3 DEF x, g
  <2>4. CASE ~Fits(x)
    <3>1. g = HardSlice(x)
      BY <2>2, <2>4
    <3>2. /\ g \in Seq(Seq(V)) /\ FlattenSeq(g) = x
          /\ \A j \in 1..Len(g) : g[j] # << >> /\ Bytes(g[j]) <= MaxBytes
          /\ Bytes(x) <= MaxBytes => g = <<x>>
      BY <2>1, <3>1, HardSlices
    <3>3. g \in Seq(P)
      <4>1. \A j \in 1..Len(g) : g[j] \in P
        BY <3>2
      <4>2. Len(g) \in Nat /\ g \in [1..Len(g) -> P]
        BY <3>2, <4>1
      <4> HIDE DEF P
      <4> DEFINE m == Len(g)
      <4>3. m \in Nat /\ g \in [1..m -> P]
        BY <4>2
      <4> HIDE DEF m
      <4> QED BY <4>3, SequenceOf
    <3> QED BY <3>2, <3>3 DEF x, g
  <2> QED BY <2>3, <2>4
<1>4. G \in Seq(Seq(P)) /\ G \in Seq(Seq(Seq(V))) /\ Len(G) = n
  <2>1. G \in [1..n -> Seq(P)] /\ G \in [1..n -> Seq(Seq(V))]
    BY <1>2, <1>3
  <2> HIDE DEF P, n
  <2>2. n \in Nat
    BY <1>1
  <2>3. G \in Seq(Seq(P)) /\ Len(G) = n
    BY <2>1, <2>2, SequenceOf
  <2>4. G \in Seq(Seq(Seq(V)))
    BY <2>1, <2>2, SequenceOf
  <2> QED BY <2>3, <2>4
<1>5. FlattenSeq(G) \in Seq(P)
  <2> HIDE DEF P
  <2> QED BY <1>4, FlatIn
<1>6. FlattenSeq(FlattenSeq(G)) = FlattenSeq(packed)
  <2>1. G \in Seq(Seq(Seq(V)))
    BY <1>4
  <2>2. Len(G) = Len(packed)
    BY <1>4
  <2>3. \A i \in 1..Len(packed) : FlattenSeq(G[i]) = packed[i]
    BY <1>3
  <2> QED BY <2>1, <2>2, <2>3, FlatFlat
<1>7. (\A k \in 1..n : Bytes(packed[k]) <= MaxBytes) => FlattenSeq(G) = packed
  <2> SUFFICES ASSUME \A k \in 1..n : Bytes(packed[k]) <= MaxBytes PROVE FlattenSeq(G) = packed
    OBVIOUS
  <2>1. G = [k \in 1..n |-> <<packed[k]>>]
    BY <1>2, <1>3
  <2>2. FlattenSeq([k \in 1..n |-> <<packed[k]>>]) = packed
    BY FlatSingles
  <2> QED BY <2>1, <2>2, Zenon
<1> QED BY <1>5, <1>6, <1>7 DEF G

\* What split_body_by_sections returns for any text.
LEMMA SplitParts ==
  ASSUME NEW V, Chars(V), NEW s \in Seq(V)
  PROVE  Parts(V, s, Split(s)) /\ FewParts(s, Split(s))
<1>1. CASE Fits(s)
  <2>1. Split(s) = <<s>>
    BY <1>1 DEF Split
  <2> QED BY <1>1, <2>1, NotSplit
<1>2. CASE ~Fits(s)
  <2> DEFINE u == Sections(s)
             p == Packed(u)
             r == Split(s)
             P == {x \in Seq(V) : x # << >> /\ Bytes(x) <= MaxBytes}
  <2>0. s # << >>
    <3> SUFFICES ASSUME s = << >> PROVE FALSE
      OBVIOUS
    <3>1. Bytes(s) = 0 /\ Tokens(s) = 0
      <4>1. Total(<< >>) = 0
        <5>1. 0 \in Nat
          OBVIOUS
        <5> QED BY <5>1, TotalOne
      <4>2. [i \in 1..Len(<< >>) |-> << >>[i].bytes] = << >> /\ [i \in 1..Len(<< >>) |-> << >>[i].tokens] = << >>
        OBVIOUS
      <4> QED BY <4>1, <4>2 DEF Bytes, Tokens
    <3> QED BY <1>2, <3>1, SplitConstants DEF Fits
  <2>1. r = FlattenSeq(KeptOrSliced(p))
    BY <1>2 DEF Split, KeptOrSliced
  <2>2. /\ Units(V, u) /\ u # << >> /\ FlattenSeq(u) = s
        /\ \A j \in 1..Len(u) : (j > 1 => u[j][1].head) /\ Inner(u[j])
    BY <2>0, SectionsSound
  <2> HIDE DEF u, r, p
  <2>3. u \in Seq(Seq(V)) /\ \A j \in 1..Len(u) : u[j] \in Seq(V) /\ u[j] # << >>
    <3>1. u \in Seq(Seq(V))
      BY <2>2 DEF Units
    <3>2. \A j \in 1..Len(u) : u[j] \in Seq(V)
      BY <3>1
    <3>3. \A j \in 1..Len(u) : u[j] # << >>
      BY <2>2 DEF Units
    <3> QED BY <3>1, <3>2, <3>3
  <2>4. PICK f : Flats(V, u, f)
    BY <2>3, FlatSteps
  <2>5. Packs(V, u, f, Len(u), p)
    <3>1. Units(V, u)
      BY <2>2
    <3> QED BY <2>4, <3>1, PackedPacks DEF p
  <2>6. p \in Seq(Seq(V)) /\ (\A k \in 1..Len(p) : p[k] # << >>) /\ FlattenSeq(p) = s
    BY <2>2, <2>4, <2>5 DEF Packs, Flats
  <2>7. /\ r \in Seq(P) /\ FlattenSeq(r) = FlattenSeq(p)
        /\ (\A k \in 1..Len(p) : Bytes(p[k]) <= MaxBytes) => r = p
    <3>1. p \in Seq(Seq(V))
      BY <2>6
    <3>2. \A k \in 1..Len(p) : p[k] # << >>
      BY <2>6
    <3> QED BY <2>1, <3>1, <3>2, KeptParts
  <2>8. Parts(V, s, r)
    <3>1. \A k \in 1..Len(r) : r[k] \in P
      BY <2>7
    <3>2. r \in Seq(Seq(V))
      <4>1. \A k \in 1..Len(r) : r[k] \in Seq(V)
        BY <3>1
      <4>2. r = [k \in 1..Len(r) |-> r[k]] /\ Len(r) \in Nat
        <5> HIDE DEF P
        <5> QED BY <2>7
      <4>3. r \in [1..Len(r) -> Seq(V)]
        BY <4>1, <4>2
      <4> QED BY <4>2, <4>3
    <3>3. \A k \in 1..Len(r) : r[k] # << >> /\ Bytes(r[k]) <= MaxBytes
      BY <3>1
    <3> QED BY <2>6, <2>7, <3>2, <3>3 DEF Parts
  <2>9. FewParts(s, r)
    <3> SUFFICES ASSUME \A k \in DOMAIN u : Fits(u[k]), NEW k \in 2..Len(r)
                 PROVE  r[k][1].head /\ Bytes(r[k - 1]) + Bytes(Sections(r[k])[1]) > MaxBytes
      BY DEF FewParts, u
    <3>1. \A i \in 1..Len(u) : Bytes(u[i]) <= MaxBytes
      <4>1. DOMAIN u = 1..Len(u)
        BY <2>3
      <4> QED BY <4>1 DEF Fits
    <3>2. r = p
      <4>1. \A j \in 1..Len(p) : Bytes(p[j]) <= MaxBytes
        BY <2>5, <3>1 DEF Packs
      <4> QED BY <2>7, <4>1
    <3>3. k \in 1..Len(p) /\ k > 1 /\ k - 1 \in 1..Len(p) /\ Len(p) \in Nat
      BY <2>6, <3>2
    <3>4. PICK a \in 1..Len(u), rest \in Seq(V) :
            /\ p[k] = u[a] \o rest
            /\ rest = << >> \/ \E b \in 2..Len(u) : rest[1] = u[b][1]
            /\ a > 1 /\ Bytes(p[k - 1]) + Bytes(u[a]) > MaxBytes
      <4>1. Begun(V, u, p, k)
        BY <2>5, <3>3 DEF Packs
      <4> QED BY <3>3, <4>1 DEF Begun
    <3>5. u[a] \in Seq(V) /\ u[a] # << >> /\ u[a][1].head /\ Inner(u[a])
      BY <2>2, <2>3, <3>4
    <3>6. Headed(rest)
      <4>1. \A b \in 2..Len(u) : u[b][1].head
        <5>1. \A b \in 2..Len(u) : b \in 1..Len(u) /\ b > 1
          BY <2>3
        <5> QED BY <2>2, <5>1
      <4> QED BY <3>4, <4>1 DEF Headed
    <3> DEFINE z == p[k]
               v == Sections(z)
    <3>7. z \in Seq(V) /\ z # << >>
      BY <2>6, <3>3
    <3> HIDE DEF z
    <3>8. /\ Units(V, v) /\ v # << >> /\ (\A j \in 1..Len(v) : Inner(v[j]))
          /\ \E more \in Seq(V) : z = v[1] \o more /\ Headed(more)
      BY <3>7, SectionsSound
    <3> HIDE DEF v
    <3>9. v[1] \in Seq(V) /\ v[1] # << >> /\ Inner(v[1])
      <4>1. 1 \in 1..Len(v) /\ v \in Seq(Seq(V))
        BY <3>8 DEF Units
      <4> QED BY <3>8, <4>1 DEF Units
    <3>10. PICK more \in Seq(V) : z = v[1] \o more /\ Headed(more)
      BY <3>8
    <3>11. v[1] = u[a]
      <4> DEFINE x == v[1]
                 y == u[a]
      <4>1. x \in Seq(V) /\ x # << >> /\ Inner(x)
        BY <3>9
      <4>2. y \in Seq(V) /\ y # << >> /\ Inner(y)
        BY <3>5
      <4>3. x \o more = y \o rest
        BY <3>4, <3>10 DEF z
      <4> HIDE DEF x, y
      <4>4. x = y
        BY <3>6, <3>10, <4>1, <4>2, <4>3, SameFirst
      <4> QED BY <4>4 DEF x, y
    <3>12. p[k][1] = u[a][1]
      <4> DEFINE y == u[a]
      <4>1. y \in Seq(V) /\ y # << >>
        BY <3>5
      <4>2. p[k] = y \o rest
        BY <3>4
      <4> HIDE DEF y
      <4>3. (y \o rest)[1] = y[1]
        BY <4>1
      <4> QED BY <4>2, <4>3 DEF y
    <3> QED BY <3>2, <3>4, <3>5, <3>11, <3>12 DEF v, z
  <2> QED BY <2>8, <2>9 DEF r
<1> QED BY <1>1, <1>2

\* A body waits to be cut, or has been.
TextInv == text \in Bodies /\ (pieces = << >> \/ pieces = Split(text))

\* split_body_by_sections of every body: put together again the parts are the body, each
\* keeps the limits of a memory, and where sections fit no cut is made in vain.
THEOREM SplitIsSound == TextSpec => []SplitSound
<1>1. TextInit => TextInv
  BY DEF TextInit, TextInv
<1>2. TextInv /\ [TextNext]_textVars => TextInv'
  BY DEF TextInv, TextNext, textVars
<1>3. TextInv => SplitSound
  <2> SUFFICES ASSUME TextInv PROVE SplitSound
    OBVIOUS
  <2> DEFINE V == Range(text)
  <2>1. text \in Seq(V) /\ \A i \in DOMAIN text : text[i].bytes \in 1..MaxBytes /\ text[i].tokens \in Nat /\ text[i].head \in BOOLEAN
    BY SplitConstants DEF TextInv
  <2>2. V = {text[i] : i \in DOMAIN text}
    BY DEF Range
  <2>3. Chars(V)
    BY <2>1, <2>2 DEF Chars
  <2> HIDE DEF V
  <2>4. CASE pieces = << >>
    BY <2>4 DEF SplitSound, Lossless, PiecesFit, NoNeedlessCut
  <2>5. CASE pieces = Split(text)
    <3>1. Parts(V, text, pieces) /\ FewParts(text, pieces)
      BY <2>1, <2>3, <2>5, SplitParts
    <3>2. DOMAIN pieces = 1..Len(pieces) /\ \A k \in 1..Len(pieces) : pieces[k] \in Seq(V)
      BY <3>1 DEF Parts
    <3>3. Lossless
      BY <3>1, <3>2 DEF Lossless, Parts
    <3>4. PiecesFit
      <4>1. ASSUME NEW k \in 1..Len(pieces) PROVE Bytes(pieces[k]) <= MaxBytes
        BY <3>1 DEF Parts
      <4>2. ASSUME NEW k \in 1..Len(pieces), \A i \in DOMAIN text : text[i].tokens * MaxBytes <= text[i].bytes * MaxTokens
            PROVE  Tokens(pieces[k]) <= MaxTokens
        <5>1. \A c \in V : c.tokens * MaxBytes <= c.bytes * MaxTokens
          BY <2>2, <4>2
        <5>2. pieces[k] \in Seq(V) /\ Bytes(pieces[k]) <= MaxBytes
          BY <3>2, <4>1
        <5> QED BY <2>3, <5>1, <5>2, Density
      <4> QED BY <3>2, <4>1, <4>2 DEF PiecesFit
    <3>5. NoNeedlessCut
      BY <3>1 DEF NoNeedlessCut, FewParts
    <3> QED BY <3>3, <3>4, <3>5 DEF SplitSound
  <2> QED BY <2>4, <2>5 DEF TextInv
<1> QED BY <1>1, <1>2, <1>3, PTL DEF TextSpec

-----------------------------------------------------------------------------
(* The shaping of the answer: rows in an order *)

\* What a row may be.
Elements == [id: Nat, key: Nat, long: BOOLEAN, whole: BOOLEAN]

\* An order on a set.
OrderOn(I, R) ==
  /\ \A i \in I : <<i, i>> \notin R
  /\ \A i, j, k \in I : <<i, j>> \in R /\ <<j, k>> \in R => <<i, k>> \in R
  /\ \A i, j \in I : i # j => <<i, j>> \in R \/ <<j, i>> \in R
Below(I, R, i) == {j \in I : <<j, i>> \in R}

\* The place of an element is the number of those before it.
LEMMA Places ==
  ASSUME NEW I, IsFiniteSet(I), NEW R, OrderOn(I, R)
  PROVE  /\ \A k \in 1..Cardinality(I) : \E i \in I : Cardinality(Below(I, R, i)) = k - 1
         /\ \A i, j \in I : Cardinality(Below(I, R, i)) < Cardinality(Below(I, R, j)) => <<i, j>> \in R
<1> DEFINE c(i) == Cardinality(Below(I, R, i))
           n == Cardinality(I)
<1>1. n \in Nat
  BY FS_CardinalityType
<1>2. ASSUME NEW i \in I PROVE IsFiniteSet(Below(I, R, i)) /\ c(i) \in 0..(n - 1)
  <2>1. Below(I, R, i) \in SUBSET (I \ {i})
    BY DEF Below, OrderOn
  <2>2. IsFiniteSet(I \ {i}) /\ Cardinality(I \ {i}) = n - 1
    BY FS_RemoveElement
  <2>3. IsFiniteSet(Below(I, R, i)) /\ Cardinality(Below(I, R, i)) <= n - 1
    BY <2>1, <2>2, FS_Subset
  <2>4. Cardinality(Below(I, R, i)) \in Nat
    BY <2>3, FS_CardinalityType
  <2> QED BY <1>1, <2>3, <2>4
<1>3. ASSUME NEW i \in I, NEW j \in I, <<i, j>> \in R PROVE c(i) < c(j)
  <2>1. Below(I, R, i) \cup {i} \in SUBSET Below(I, R, j)
    BY <1>3 DEF Below, OrderOn
  <2>2. i \notin Below(I, R, i)
    BY DEF Below, OrderOn
  <2>3. Cardinality(Below(I, R, i) \cup {i}) = c(i) + 1
    BY <1>2, <2>2, FS_AddElement
  <2>4. Cardinality(Below(I, R, i) \cup {i}) <= c(j)
    BY <1>2, <2>1, FS_Subset
  <2> HIDE DEF c
  <2> QED BY <1>1, <1>2, <2>3, <2>4
<1>4. ASSUME NEW i \in I, NEW j \in I, c(i) < c(j) PROVE <<i, j>> \in R
  <2>1. i # j /\ ~(c(j) < c(i))
    BY <1>1, <1>2, <1>4
  <2> QED BY <1>3, <2>1 DEF OrderOn
<1>5. ASSUME NEW k \in 1..n PROVE \E i \in I : c(i) = k - 1
  <2> DEFINE f == [i \in I |-> c(i)]
             T == 0..(n - 1)
  <2>1. IsFiniteSet(T) /\ Cardinality(T) = n
    <3>1. 0 \in Int /\ n - 1 \in Int /\ (IF 0 > n - 1 THEN 0 ELSE (n - 1) - 0 + 1) = n
      BY <1>1
    <3> QED BY <3>1, FS_Interval
  <2>2. f \in [I -> T]
    BY <1>2
  <2>3. \A i, j \in I : f[i] = f[j] => i = j
    <3> SUFFICES ASSUME NEW i \in I, NEW j \in I, f[i] = f[j], i # j PROVE FALSE
      OBVIOUS
    <3>1. f[i] = c(i) /\ f[j] = c(j)
      OBVIOUS
    <3>2. c(i) < c(j) \/ c(j) < c(i)
      BY <1>3 DEF OrderOn
    <3>3. c(i) = c(j) /\ c(i) \in Int
      BY <1>1, <1>2, <3>1
    <3> HIDE DEF c
    <3> QED BY <3>2, <3>3
  <2>4. f \in Injection(I, T)
    BY <2>2, <2>3 DEF Injection, IsInjective
  <2>5. f \in Surjection(I, T)
    BY <2>1, <2>4, FS_Injection
  <2>6. k - 1 \in T
    BY <1>1
  <2>7. \E i \in I : f[i] = k - 1
    BY <2>5, <2>6 DEF Surjection
  <2> QED BY <2>7
<1> QED BY <1>4, <1>5

\* s is the rows at the positions I in the order R.
PlacedBy(V, rows, I, R, s) ==
  /\ s \in Seq(V) /\ Len(s) = Cardinality(I) /\ Len(s) <= Len(rows) /\ (I = 1..Len(rows) => Len(s) = Len(rows))
  /\ \E p \in [1..Len(s) -> I] :
       \A k \in 1..Len(s) : s[k] = rows[p[k]] /\ \A l \in 1..Len(s) : k < l => <<p[k], p[l]>> \in R

\* So are the rows that have as many before them as their place says.
LEMMA Placed ==
  ASSUME NEW V, NEW rows \in Seq(V), NEW I \in SUBSET (1..Len(rows)), NEW R, OrderOn(I, R),
         NEW c, \A i \in I : c[i] = Cardinality(Below(I, R, i))
  PROVE  PlacedBy(V, rows, I, R, InPlace(rows, I, c))
<1> DEFINE n == Cardinality(I)
           p == [k \in 1..n |-> CHOOSE i \in I : c[i] = k - 1]
           s == InPlace(rows, I, c)
<1>1. IsFiniteSet(1..Len(rows)) /\ Cardinality(1..Len(rows)) = Len(rows) /\ Len(rows) \in Nat
  <2>1. Len(rows) \in Nat /\ 1 \in Int /\ Len(rows) \in Int /\ (IF 1 > Len(rows) THEN 0 ELSE Len(rows) - 1 + 1) = Len(rows)
    OBVIOUS
  <2>2. IsFiniteSet(1..Len(rows)) /\ Cardinality(1..Len(rows)) = IF 1 > Len(rows) THEN 0 ELSE Len(rows) - 1 + 1
    BY <2>1, FS_Interval, Zenon
  <2> QED BY <2>1, <2>2
<1>2. IsFiniteSet(I) /\ n <= Len(rows) /\ n \in Nat
  <2>1. IsFiniteSet(I) /\ Cardinality(I) <= Cardinality(1..Len(rows))
    BY <1>1, FS_Subset, Zenon
  <2>2. n \in Nat
    BY <2>1, FS_CardinalityType, Zenon
  <2> QED BY <1>1, <2>1, <2>2
<1>3. /\ \A k \in 1..n : \E i \in I : c[i] = k - 1
      /\ \A i, j \in I : c[i] < c[j] => <<i, j>> \in R
  <2>1. IsFiniteSet(I)
    BY <1>2
  <2> HIDE DEF p
  <2>2. /\ \A k \in 1..n : \E i \in I : Cardinality(Below(I, R, i)) = k - 1
        /\ \A i, j \in I : Cardinality(Below(I, R, i)) < Cardinality(Below(I, R, j)) => <<i, j>> \in R
    BY <2>1, Places, Zenon
  <2> QED BY <2>2
<1>4. \A k \in 1..n : p[k] \in I /\ c[p[k]] = k - 1
  BY <1>3
<1>5. \A k \in 1..n : s[k] = rows[p[k]]
  BY DEF InPlace
<1>6. s = [k \in 1..n |-> s[k]]
  BY DEF InPlace
<1>7. p \in [1..n -> I]
  BY <1>3
<1> HIDE DEF p, s
<1>8. ASSUME NEW k \in 1..n, NEW l \in 1..n, k < l PROVE <<p[k], p[l]>> \in R
  <2>1. c[p[k]] < c[p[l]]
    BY <1>2, <1>4, <1>8
  <2>2. p[k] \in I /\ p[l] \in I
    BY <1>4
  <2> QED BY <1>3, <2>1, <2>2
<1> HIDE DEF n
<1>9. ASSUME NEW k \in 1..n PROVE s[k] \in V
  <2>1. p[k] \in 1..Len(rows) /\ s[k] = rows[p[k]]
    BY <1>4, <1>5
  <2> QED BY <2>1
<1>10. s \in Seq(V) /\ Len(s) = n
  <2>1. s \in [1..n -> V]
    <3> DEFINE g == [k \in 1..n |-> s[k]]
    <3>1. g \in [1..n -> V]
      BY <1>9
    <3> QED BY <1>6, <3>1
  <2>2. DOMAIN s = 1..n
    BY <2>1
  <2> QED BY <1>2, <2>1, <2>2, SequenceOf
<1> QED BY <1>1, <1>2, <1>5, <1>7, <1>8, <1>10 DEF n, s, PlacedBy

\* Elements at some positions keep their order.
LEMMA RowsAtKeeps ==
  ASSUME NEW V, NEW rows \in Seq(V), NEW at \in SUBSET (1..Len(rows))
  PROVE  /\ RowsAt(rows, at) \in Seq(V) /\ Len(RowsAt(rows, at)) <= Len(rows)
         /\ at = 1..Len(rows) => Len(RowsAt(rows, at)) = Len(rows)
         /\ \E p \in [1..Len(RowsAt(rows, at)) -> at] :
              \A k \in 1..Len(RowsAt(rows, at)) :
                RowsAt(rows, at)[k] = rows[p[k]] /\ \A l \in 1..Len(RowsAt(rows, at)) : k < l => p[k] < p[l]
<1> DEFINE R == {z \in at \X at : z[1] < z[2]}
           s == RowsAt(rows, at)
<1>1. \A i \in at : i \in Int
  OBVIOUS
<1>2. \A i, j \in at : <<i, j>> \in R <=> i < j
  OBVIOUS
<1>3. OrderOn(at, R)
  <2> HIDE DEF R
  <2> QED BY <1>1, <1>2 DEF OrderOn
<1> DEFINE c == [i \in at |-> Cardinality({j \in at : j < i})]
<1>4. \A i \in at : c[i] = Cardinality(Below(at, R, i))
  <2>1. \A i \in at : Below(at, R, i) = {j \in at : j < i}
    <3> HIDE DEF R
    <3> QED BY <1>2 DEF Below
  <2> HIDE DEF R
  <2> QED BY <2>1
<1> HIDE DEF R
<1>5. s = InPlace(rows, at, c)
  BY DEF RowsAt
<1> HIDE DEF s, c
<1>6. PlacedBy(V, rows, at, R, s)
  BY <1>3, <1>4, <1>5, Placed
<1>7. PICK p \in [1..Len(s) -> at] :
        \A k \in 1..Len(s) : s[k] = rows[p[k]] /\ \A l \in 1..Len(s) : k < l => <<p[k], p[l]>> \in R
  BY <1>6 DEF PlacedBy
<1>8. \A k \in 1..Len(s) : s[k] = rows[p[k]] /\ \A l \in 1..Len(s) : k < l => p[k] < p[l]
  BY <1>2, <1>7
<1> QED BY <1>6, <1>8 DEF s, PlacedBy

\* With --sort: a key is at most the next one, and rows without it come last.
Precedes(r, s) == s.key = 0 \/ (r.key # 0 /\ r.key <= s.key)
InOrder(rows) == \A i, j \in 1..Len(rows) : i < j => Precedes(rows[i], rows[j])

\* SortBy sorts.
LEMMA SortBySorts ==
  ASSUME NEW rows \in Seq(Elements)
  PROVE  SortBy(rows) \in Seq(Elements) /\ Len(SortBy(rows)) = Len(rows) /\ (surface.sort => InOrder(SortBy(rows)))
<1>1. CASE ~surface.sort
  BY <1>1 DEF SortBy
<1>2. CASE surface.sort
  <2> DEFINE all == 1..Len(rows)
             R == {z \in all \X all : SortsBefore(rows, z[1], z[2])}
             c == [i \in all |-> Cardinality({j \in all : SortsBefore(rows, j, i)})]
             s == SortBy(rows)
  <2>1. ASSUME NEW i \in all PROVE i \in Int /\ rows[i].key \in Nat
    <3>1. rows[i] \in Elements
      OBVIOUS
    <3> QED BY <3>1 DEF Elements
  <2>2. \A i, j \in all : <<i, j>> \in R <=> SortsBefore(rows, i, j)
    OBVIOUS
  <2>3. OrderOn(all, R)
    <3> HIDE DEF R, all
    <3>1. \A i \in all : ~SortsBefore(rows, i, i)
      BY <2>1 DEF SortsBefore
    <3>2. \A i, j \in all : i # j => SortsBefore(rows, i, j) \/ SortsBefore(rows, j, i)
      BY <2>1 DEF SortsBefore
    <3>3. \A i, j, k \in all : SortsBefore(rows, i, j) /\ SortsBefore(rows, j, k) => SortsBefore(rows, i, k)
      BY <2>1 DEF SortsBefore
    <3> QED BY <2>2, <3>1, <3>2, <3>3 DEF OrderOn
  <2>4. \A i \in all : c[i] = Cardinality(Below(all, R, i))
    <3>1. \A i \in all : Below(all, R, i) = {j \in all : SortsBefore(rows, j, i)}
      <4> HIDE DEF R
      <4> QED BY <2>2 DEF Below
    <3> HIDE DEF R
    <3> QED BY <3>1
  <2>5. s = InPlace(rows, all, c)
    BY <1>2 DEF SortBy
  <2>6. all \in SUBSET (1..Len(rows)) /\ all = 1..Len(rows)
    OBVIOUS
  <2> HIDE DEF R, c, s, all
  <2>7. PlacedBy(Elements, rows, all, R, s)
    BY <2>3, <2>4, <2>5, <2>6, Placed
  <2>8. s \in Seq(Elements) /\ Len(s) = Len(rows)
    BY <2>6, <2>7 DEF PlacedBy
  <2>9. PICK p \in [1..Len(s) -> all] :
          \A k \in 1..Len(s) : s[k] = rows[p[k]] /\ \A l \in 1..Len(s) : k < l => <<p[k], p[l]>> \in R
    BY <2>7 DEF PlacedBy
  <2>10. ASSUME NEW i \in all, NEW j \in all, SortsBefore(rows, i, j) PROVE Precedes(rows[i], rows[j])
    BY <2>1, <2>10 DEF SortsBefore, Precedes
  <2>11. InOrder(s)
    <3> SUFFICES ASSUME NEW i \in 1..Len(s), NEW j \in 1..Len(s), i < j PROVE Precedes(s[i], s[j])
      BY DEF InOrder
    <3>1. p[i] \in all /\ p[j] \in all /\ s[i] = rows[p[i]] /\ s[j] = rows[p[j]] /\ <<p[i], p[j]>> \in R
      BY <2>9
    <3> QED BY <2>2, <2>10, <3>1
  <2> QED BY <2>8, <2>11 DEF s
<1> QED BY <1>1, <1>2

\* Elements in order stay so at some of their positions.
LEMMA RowsAtInOrder ==
  ASSUME NEW rows \in Seq(Elements), NEW at \in SUBSET (1..Len(rows)), InOrder(rows)
  PROVE  InOrder(RowsAt(rows, at))
<1> DEFINE s == RowsAt(rows, at)
<1>1. PICK p \in [1..Len(s) -> at] :
        \A k \in 1..Len(s) : s[k] = rows[p[k]] /\ \A l \in 1..Len(s) : k < l => p[k] < p[l]
  BY RowsAtKeeps
<1> HIDE DEF s
<1>2. InOrder(s)
  <2> SUFFICES ASSUME NEW i \in 1..Len(s), NEW j \in 1..Len(s), i < j PROVE Precedes(s[i], s[j])
    BY DEF InOrder
  <2>1. p[i] \in 1..Len(rows) /\ p[j] \in 1..Len(rows) /\ s[i] = rows[p[i]] /\ s[j] = rows[p[j]] /\ p[i] < p[j]
    BY <1>1
  <2> QED BY <2>1 DEF InOrder
<1> QED BY <1>2 DEF s

\* What the filter, the sort and the dedupe leave.
LEMMA MatchedKeeps ==
  ASSUME NEW rows \in Seq(Elements), surface \in Surfaces
  PROVE  /\ Matched(rows) \in Seq(Elements) /\ Len(Matched(rows)) <= Len(rows)
         /\ ~surface.filter /\ ~surface.dedupe => Len(Matched(rows)) = Len(rows)
         /\ surface.sort => InOrder(Matched(rows))
<1> DEFINE kept(s) == {i \in 1..Len(s) : ~surface.dedupe \/ s[i].key = 0 \/ \A j \in 1..(i - 1) : s[j].key # s[i].key}
           at == {i \in 1..Len(rows) : Matches(rows[i])}
           f == Filter(rows)
           s == SortBy(f)
           d == Dedupe(s)
<1>1. surface.filter \in BOOLEAN /\ surface.dedupe \in BOOLEAN /\ surface.sort \in BOOLEAN
  BY SurfaceConstants
<1>2. f \in Seq(Elements) /\ Len(f) <= Len(rows) /\ (~surface.filter => Len(f) = Len(rows))
  <2>1. at \in SUBSET (1..Len(rows)) /\ (~surface.filter => at = 1..Len(rows))
    BY DEF Matches
  <2>2. f = RowsAt(rows, at)
    BY DEF Filter
  <2> HIDE DEF at, f
  <2> QED BY <2>1, <2>2, RowsAtKeeps
<1> HIDE DEF f
<1>3. s \in Seq(Elements) /\ Len(s) = Len(f) /\ (surface.sort => InOrder(s))
  BY <1>2, SortBySorts
<1> HIDE DEF s
<1>4. d \in Seq(Elements) /\ Len(d) <= Len(s) /\ (~surface.dedupe => Len(d) = Len(s)) /\ (surface.sort => InOrder(d))
  <2>1. kept(s) \in SUBSET (1..Len(s)) /\ (~surface.dedupe => kept(s) = 1..Len(s))
    OBVIOUS
  <2>2. d = RowsAt(s, kept(s))
    BY DEF Dedupe
  <2> HIDE DEF kept, d
  <2> QED BY <1>3, <2>1, <2>2, RowsAtKeeps, RowsAtInOrder
<1>5. Matched(rows) = d
  BY DEF Matched, f, s
<1> HIDE DEF d
<1>6. Len(rows) \in Nat /\ Len(f) \in Nat /\ Len(s) \in Nat /\ Len(d) \in Nat
  BY <1>2, <1>3, <1>4
<1> QED BY <1>2, <1>3, <1>4, <1>5, <1>6

\* What FirstOf returns.
LEMMA FirstOfIs ==
  ASSUME NEW V, NEW s \in Seq(V), NEW n \in Nat
  PROVE  /\ FirstOf(s, n) \in Seq(V) /\ Len(FirstOf(s, n)) = IF n < Len(s) THEN n ELSE Len(s)
         /\ \A i \in 1..Len(FirstOf(s, n)) : FirstOf(s, n)[i] = s[i]
<1> DEFINE m == IF n < Len(s) THEN n ELSE Len(s)
<1>1. m \in 0..Len(s)
  OBVIOUS
<1>2. FirstOf(s, n) = SubSeq(s, 1, m)
  BY DEF FirstOf
<1> HIDE DEF m
<1>3. SubSeq(s, 1, m) \in Seq(V) /\ Len(SubSeq(s, 1, m)) = m /\ \A i \in 1..m : SubSeq(s, 1, m)[i] = s[i]
  BY <1>1
<1> QED BY <1>2, <1>3 DEF m

\* The rows of s are the first ones of r, whatever was left out of each.
Leads(s, r) ==
  /\ Len(s) <= Len(r)
  /\ \A i \in 1..Len(s) : s[i].id = r[i].id /\ s[i].key = r[i].key

\* What the limit and the projection leave of the rows that matched.
LEMMA ShapedLeads ==
  ASSUME NEW rows \in Seq(Elements), surface \in Surfaces
  PROVE  /\ Shaped(rows) \in Seq(Elements) /\ Leads(Shaped(rows), Matched(rows))
         /\ surface.max = 0 => Len(Shaped(rows)) = Len(Matched(rows))
<1> DEFINE m == Matched(rows)
           l == Limit(m)
           s == Project(l)
<1>1. surface.max \in Nat /\ surface.select \in BOOLEAN
  BY SurfaceConstants
<1>2. m \in Seq(Elements)
  BY MatchedKeeps
<1>3. Shaped(rows) = s
  BY DEF Shaped
<1> HIDE DEF m
<1>4. l \in Seq(Elements) /\ Len(l) <= Len(m) /\ (surface.max = 0 => l = m) /\ \A i \in 1..Len(l) : l[i] = m[i]
  <2>1. CASE surface.max > 0
    <3>1. l = FirstOf(m, surface.max)
      BY <2>1 DEF Limit
    <3> QED BY <1>1, <1>2, <2>1, <3>1, FirstOfIs
  <2>2. CASE ~(surface.max > 0)
    BY <1>2, <2>2 DEF Limit
  <2> QED BY <2>1, <2>2
<1> HIDE DEF l
<1>5. s \in Seq(Elements) /\ Len(s) = Len(l) /\ \A i \in 1..Len(l) : s[i].id = l[i].id /\ s[i].key = l[i].key
  <2>1. CASE surface.select
    <3>1. s = [i \in 1..Len(l) |-> [l[i] EXCEPT !.whole = FALSE]]
      BY <2>1 DEF Project
    <3>2. \A i \in 1..Len(l) : l[i] \in Elements
      BY <1>4
    <3>3. \A i \in 1..Len(l) : s[i] = [l[i] EXCEPT !.whole = FALSE]
      BY <3>1
    <3>4. \A i \in 1..Len(l) : s[i] \in Elements /\ s[i].id = l[i].id /\ s[i].key = l[i].key
      BY <3>2, <3>3 DEF Elements
    <3>5. s \in [1..Len(l) -> Elements] /\ Len(l) \in Nat
      <4>1. DOMAIN s = 1..Len(l) /\ s = [i \in 1..Len(l) |-> s[i]]
        BY <3>1
      <4> HIDE DEF s
      <4> QED BY <1>4, <3>4, <4>1
    <3>6. s \in Seq(Elements) /\ Len(s) = Len(l)
      BY <3>5, SequenceOf
    <3> QED BY <3>4, <3>6
  <2>2. CASE ~surface.select
    BY <1>4, <2>2 DEF Project
  <2> QED BY <2>1, <2>2
<1> HIDE DEF s
<1>6. Leads(s, m) /\ (surface.max = 0 => Len(s) = Len(m))
  BY <1>2, <1>4, <1>5 DEF Leads
<1> QED BY <1>3, <1>5, <1>6 DEF m

\* What a cut of rows in order leaves out comes after all it leaves in.
LEMMA CutStaysInOrder ==
  ASSUME NEW s \in Seq(Elements), NEW m \in Seq(Elements), Leads(s, m), InOrder(m)
  PROVE  \A i \in 1..Len(s), r \in Range(m) :
           r.id \notin {s[j].id : j \in 1..Len(s)} => r.key = 0 \/ (s[i].key # 0 /\ s[i].key <= r.key)
<1> SUFFICES ASSUME NEW i \in 1..Len(s), NEW r \in Range(m), r.id \notin {s[j].id : j \in 1..Len(s)}
             PROVE  Precedes(s[i], r)
  BY DEF Precedes
<1>1. PICK k \in 1..Len(m) : r = m[k]
  BY DEF Range
<1>2. k \notin 1..Len(s)
  BY <1>1 DEF Leads
<1>3. i \in 1..Len(m) /\ i < k
  BY <1>2 DEF Leads
<1>4. Precedes(m[i], m[k])
  BY <1>3 DEF InOrder
<1>5. s[i].key = m[i].key
  BY DEF Leads
<1> QED BY <1>1, <1>4, <1>5 DEF Precedes

-----------------------------------------------------------------------------
(* Lengths *)

\* A sum is a number, and grows with its numbers.
LEMMA TotalGrows ==
  ASSUME NEW ns \in Seq(Nat), NEW ms \in Seq(Nat), Len(ns) = Len(ms), \A i \in 1..Len(ns) : ns[i] <= ms[i]
  PROVE  Total(ns) \in Nat /\ Total(ms) \in Nat /\ Total(ns) <= Total(ms)
<1>1. Total(ns) \in Nat /\ Total(ms) \in Nat
  <2>1. PICK t \in [0..Len(ns) -> Nat] : Total(ns) = t[Len(ns)]
    BY TotalSteps
  <2>2. PICK u \in [0..Len(ms) -> Nat] : Total(ms) = u[Len(ms)]
    BY TotalSteps
  <2> QED BY <2>1, <2>2
<1>2. \A i \in 1..Len(ns) : ns[i] * 1 <= ms[i] * 1
  <2> TAKE i \in 1..Len(ns)
  <2>1. ns[i] \in Nat /\ ms[i] \in Nat /\ ns[i] <= ms[i]
    OBVIOUS
  <2> QED BY <2>1
<1>3. Total(ns) * 1 <= Total(ms) * 1
  BY <1>2, TotalBound
<1> QED BY <1>1, <1>3

\* A number is as wide as the smaller one, or wider.
LEMMA WidthGrows ==
  ASSUME NEW a \in Nat, NEW b \in Nat
  PROVE  Width(a) \in Nat /\ (a <= b => Width(a) <= Width(b))
<1> DEFINE q == Base * Base
<1>1. Base \in Nat /\ q \in Nat
  BY SurfaceConstants
<1> HIDE DEF q
<1>2. \A n : Width(n) = IF n < Base THEN 1 ELSE IF n < q THEN 2 ELSE 3
  BY DEF Width, q
<1> QED BY <1>1, <1>2

\* An annotation: its members are numbers.
Annotation(m) == \A f \in DOMAIN m : m[f] \in Nat

\* An annotation grows with its members.
LEMMA MetaGrows ==
  ASSUME NEW m, NEW n, Annotation(m), Annotation(n),
         \A f \in DOMAIN m : f \in DOMAIN n /\ Width(m[f]) <= Width(n[f])
  PROVE  MetaLen(m) \in Nat /\ MetaLen(n) \in Nat /\ MetaLen(m) <= MetaLen(n)
<1> DEFINE L == Len(MetaFields)
           lm == [i \in 1..L |-> FieldLen(m, MetaFields[i])]
           ln == [i \in 1..L |-> FieldLen(n, MetaFields[i])]
<1>1. L \in Nat
  BY DEF MetaFields
<1>2. \A f : FieldLen(m, f) \in Nat /\ FieldLen(n, f) \in Nat /\ FieldLen(m, f) <= FieldLen(n, f)
  <2> TAKE f
  <2>1. CASE f \in DOMAIN m
    <3>1. f \in DOMAIN n /\ Width(m[f]) <= Width(n[f]) /\ m[f] \in Nat /\ n[f] \in Nat
      BY <2>1 DEF Annotation
    <3>2. Width(m[f]) \in Nat /\ Width(n[f]) \in Nat
      BY <3>1, WidthGrows
    <3> QED BY <2>1, <3>1, <3>2 DEF FieldLen
  <2>2. CASE f \notin DOMAIN m /\ f \in DOMAIN n
    <3>1. Width(n[f]) \in Nat
      BY <2>2, WidthGrows DEF Annotation
    <3> QED BY <2>2, <3>1 DEF FieldLen
  <2>3. CASE f \notin DOMAIN m /\ f \notin DOMAIN n
    BY <2>3 DEF FieldLen
  <2> QED BY <2>1, <2>2, <2>3
<1> HIDE DEF L
<1>3. lm \in [1..L -> Nat] /\ ln \in [1..L -> Nat] /\ \A i \in 1..L : lm[i] <= ln[i]
  BY <1>2
<1>4. MetaLen(m) = Total(lm) /\ MetaLen(n) = Total(ln)
  BY DEF MetaLen, L
<1> HIDE DEF lm, ln
<1>5. lm \in Seq(Nat) /\ ln \in Seq(Nat) /\ Len(lm) = L /\ Len(ln) = L
  BY <1>1, <1>3, SequenceOf
<1> QED BY <1>3, <1>4, <1>5, TotalGrows

\* The length of rows is a number.
LEMMA RowsLenIs ==
  ASSUME NEW rows \in Seq(Elements)
  PROVE  RowsLen(rows) \in Nat
<1> DEFINE L == Len(rows)
           ls == [i \in 1..L |-> RowLen(rows[i])]
<1>1. CASE rows = <<>>
  BY <1>1 DEF RowsLen
<1>2. CASE rows # <<>>
  <2>1. L \in Nat /\ L > 0
    BY <1>2
  <2>2. \A i \in 1..L : RowLen(rows[i]) \in Nat
    BY DEF RowLen
  <2> HIDE DEF L
  <2>3. ls \in [1..L -> Nat]
    BY <2>2
  <2>4. RowsLen(rows) = Total(ls) + L - 1
    BY <1>2 DEF RowsLen, L
  <2> HIDE DEF ls
  <2>5. ls \in Seq(Nat)
    BY <2>1, <2>3, SequenceOf
  <2>6. \A i \in 1..Len(ls) : ls[i] <= ls[i]
    BY <2>1, <2>3, SequenceOf
  <2>7. Total(ls) \in Nat
    BY <2>5, <2>6, TotalGrows
  <2> QED BY <2>1, <2>4, <2>7
<1> QED BY <1>1, <1>2

\* All of a sequence is its beginning.
LEMMA FirstOfAll ==
  ASSUME NEW V, NEW s \in Seq(V)
  PROVE  FirstOf(s, Len(s)) = s /\ (Len(s) = 0 => s = <<>>)
<1>1. SubSeq(s, 1, Len(s)) = s /\ (Len(s) = 0 => s = <<>>)
  OBVIOUS
<1> QED BY <1>1 DEF FirstOf

\* An answer has a length.
LEMMA EncodedLenIs ==
  ASSUME NEW rows \in Seq(Elements), NEW n \in Nat, NEW m, Annotation(m), NEW marked \in BOOLEAN
  PROVE  EncodedLen(rows, n, m, marked) \in Nat /\ EncodedLen(rows, n, m, marked) >= 2
<1>1. RowsLen(rows) \in Nat
  BY RowsLenIs
<1>2. MetaLen(m) \in Nat
  <2>1. \A f \in DOMAIN m : f \in DOMAIN m /\ Width(m[f]) <= Width(m[f])
    <3> TAKE f \in DOMAIN m
    <3>1. Width(m[f]) \in Nat
      BY WidthGrows DEF Annotation
    <3> QED BY <3>1
  <2> QED BY <2>1, MetaGrows
<1>3. (IF marked THEN Mark ELSE 0) \in Nat
  BY DEF Mark
<1> QED BY <1>1, <1>2, <1>3 DEF EncodedLen

\* What enforce returns: c is the answer cut to max.
CutTo(rows, n, m, marked, max, c) ==
  /\ c.rows \in Seq(Elements) /\ Leads(c.rows, rows) /\ c.second \in Nat /\ c.second <= n /\ c.dropped \in Nat
  /\ c.cut \in BOOLEAN /\ c.stub \in BOOLEAN
  /\ ~c.cut => c.rows = rows /\ c.second = n /\ ~c.stub
  /\ ~c.stub => EncodedLen(c.rows, c.second, m, marked) <= max
  /\ c.cut /\ ~c.stub => c.dropped > 0

\* It cuts to max, and has dropped something when it cut.
LEMMA EnforceCuts ==
  ASSUME NEW rows \in Seq(Elements), NEW n \in Nat, NEW m, Annotation(m), NEW marked \in BOOLEAN, NEW max \in Nat
  PROVE  CutTo(rows, n, m, marked, max, Enforce(rows, n, m, marked, max))
<1> DEFINE E(r, k) == EncodedLen(r, k, m, marked)
           drained == n > 0 /\ E(<<>>, n) > max
           left    == IF drained THEN 0 ELSE n
           fits    == {b \in 1..Len(rows) : E(FirstOf(rows, b), left) <= max}
           c       == Enforce(rows, n, m, marked, max)
<1> SUFFICES CutTo(rows, n, m, marked, max, c)
  OBVIOUS
<1>1. <<>> \in Seq(Elements) /\ Len(<<>>) = 0
  OBVIOUS
<1>2. \A r \in Seq(Elements), k \in Nat : E(r, k) \in Nat
  BY EncodedLenIs
<1>3. left \in Nat /\ left <= n /\ (left = n \/ (left = 0 /\ n > 0)) /\ Len(rows) \in Nat
  OBVIOUS
<1>4. Leads(rows, rows) /\ Leads(<<>>, rows)
  BY DEF Leads
<1>5. FirstOf(rows, Len(rows)) = rows /\ (Len(rows) = 0 => rows = <<>>)
  BY FirstOfAll
<1>6. CASE E(rows, n) <= max
  <2>1. c = [rows |-> rows, second |-> n, dropped |-> 0, cut |-> FALSE, stub |-> FALSE]
    <3>1. ~(E(rows, n) > max)
      BY <1>2, <1>6
    <3> QED BY <1>6, <3>1 DEF Enforce
  <2> HIDE DEF c, left, drained, fits
  <2>2. c.rows = rows /\ c.second = n /\ c.dropped = 0 /\ c.cut = FALSE /\ c.stub = FALSE
    BY <2>1
  <2>3. EncodedLen(c.rows, c.second, m, marked) <= max
    BY <1>6, <2>2
  <2>4. c.rows \in Seq(Elements) /\ Leads(c.rows, rows)
    BY <1>4, <2>2
  <2>5. c.second \in Nat /\ c.second <= n /\ c.dropped \in Nat
    BY <2>2
  <2>6. c.cut \in BOOLEAN /\ c.stub \in BOOLEAN /\ ~c.cut /\ ~c.stub
    BY <2>2
  <2> QED BY <2>2, <2>3, <2>4, <2>5, <2>6 DEF CutTo
<1>7. CASE E(rows, n) > max /\ fits # {}
  <2> DEFINE b == Max(fits)
  <2>1. c = [rows |-> FirstOf(rows, b), second |-> left, dropped |-> Len(rows) - b + n - left, cut |-> TRUE, stub |-> FALSE]
    <3>1. ~(E(rows, n) <= max)
      BY <1>2, <1>7
    <3> QED BY <1>7, <3>1 DEF Enforce
  <2>2. b \in fits
    <3>1. \E x \in fits : \A y \in fits : x >= y
      <4> DEFINE T == {k \in 0..Len(rows) : Len(rows) - k \in fits}
      <4>1. \A x \in fits : x \in 1..Len(rows)
        OBVIOUS
      <4> HIDE DEF fits
      <4>2. \A x \in fits : Len(rows) - x \in T
        <5> TAKE x \in fits
        <5>1. Len(rows) - x \in 0..Len(rows) /\ Len(rows) - (Len(rows) - x) = x
          BY <1>3, <4>1
        <5> QED BY <5>1
      <4>3. T \in SUBSET Nat /\ \A k \in T : Len(rows) - k \in fits
        BY <1>3
      <4>4. T # {}
        BY <1>7, <4>2
      <4> HIDE DEF T
      <4>5. PICK k \in T : \A z \in T : k <= z
        BY <4>3, <4>4, Least
      <4>6. ASSUME NEW y \in fits PROVE Len(rows) - k >= y
        <5>1. k <= Len(rows) - y
          BY <4>2, <4>5
        <5>2. k \in Nat /\ y \in 1..Len(rows)
          BY <4>1, <4>3
        <5> QED BY <1>3, <5>1, <5>2
      <4>7. Len(rows) - k \in fits
        BY <4>3
      <4> QED BY <4>6, <4>7
    <3> QED BY <3>1 DEF Max
  <2> HIDE DEF b
  <2>3. b \in 1..Len(rows) /\ E(FirstOf(rows, b), left) <= max
    BY <2>2
  <2>4. FirstOf(rows, b) \in Seq(Elements) /\ Leads(FirstOf(rows, b), rows)
    BY <1>3, <2>3, FirstOfIs DEF Leads
  <2>5. Len(rows) - b + n - left \in Nat
    BY <1>3, <2>3
  <2>6. ~(b = Len(rows) /\ left = n)
    <3> SUFFICES ASSUME b = Len(rows), left = n PROVE FALSE
      OBVIOUS
    <3>1. E(rows, n) <= max
      BY <1>5, <2>3
    <3> QED BY <1>2, <1>7, <3>1
  <2>7. Len(rows) - b + n - left > 0
    BY <1>3, <2>3, <2>6
  <2> HIDE DEF c, left
  <2>8. c.rows = FirstOf(rows, b) /\ c.second = left /\ c.dropped = Len(rows) - b + n - left /\ c.cut = TRUE /\ c.stub = FALSE
    BY <2>1
  <2> QED BY <1>3, <2>3, <2>4, <2>5, <2>7, <2>8 DEF CutTo
<1>8. CASE E(rows, n) > max /\ fits = {}
  <2>1. c = [rows |-> <<>>, second |-> left, dropped |-> Len(rows) + n - left, cut |-> TRUE, stub |-> E(<<>>, left) > max]
    <3>1. ~(E(rows, n) <= max)
      BY <1>2, <1>8
    <3> QED BY <1>8, <3>1 DEF Enforce
  <2>2. Len(rows) + n - left \in Nat
    BY <1>3
  <2>3. ~(E(<<>>, left) > max) => E(<<>>, left) <= max /\ Len(rows) + n - left > 0
    <3> SUFFICES ASSUME ~(E(<<>>, left) > max) PROVE E(<<>>, left) <= max /\ Len(rows) + n - left > 0
      OBVIOUS
    <3>1. E(<<>>, left) \in Nat
      BY <1>1, <1>2, <1>3
    <3>2. ~(Len(rows) = 0 /\ left = n)
      BY <1>5, <1>8
    <3>3. Len(rows) + n - left > 0
      BY <1>3, <3>2
    <3> QED BY <3>1, <3>3
  <2> DEFINE st == E(<<>>, left) > max
  <2>4. c.stub = st /\ st \in BOOLEAN
    BY <2>1
  <2>5. c.rows = <<>> /\ c.second = left /\ c.dropped = Len(rows) + n - left /\ c.cut = TRUE
    BY <2>1
  <2> HIDE DEF c, left
  <2>6. c.stub \in BOOLEAN /\ (~c.stub => E(<<>>, left) <= max /\ c.dropped > 0)
    BY <2>3, <2>4, <2>5
  <2> QED BY <1>1, <1>3, <1>4, <2>2, <2>5, <2>6 DEF CutTo
<1>9. E(rows, n) \in Nat
  BY <1>2
<1> QED BY <1>6, <1>7, <1>8, <1>9

-----------------------------------------------------------------------------
(* The inductive invariant of the surface *)

SurfaceTypes ==
  /\ surface \in Surfaces /\ page \in Pages /\ command \in {"list", "search"} /\ forgets \in {0, 1}
  /\ table \in Seq(Elements) /\ items \in Seq(Elements) /\ matched \in Seq(Elements) /\ second \in Nat

\* What the command tells of what it did not read.
CeilingOfRead ==
  IF command = "list" THEN [kind |-> "pagination", applied |-> page.limit, offset |-> page.offset, total |-> Len(table)]
  ELSE [kind |-> "top-k", applied |-> page.limit, offset |-> 0]

\* Up to the shaping the rows are the page of the table, unless somebody forgot one, and the gate has
\* let pass what it should.
SurfaceFlow ==
  /\ pc \in {"count", "gate", "shape"} /\ forgets = 0 => items = ListRows(table, page.limit, page.offset)
  /\ pc \in {"read", "count", "gate", "shape"} => second = (IF command = "search" THEN page.second ELSE 0)
  /\ pc \notin {"read", "count"} => ceiling = CeilingOfRead
  /\ pc = "shape" => ~RefusesPage

\* The marks that the end of the shaping may add.
LastMarks == {"content_truncated", "truncate_content", "output_truncated", "dropped", "max_output_bytes"}

\* Before the end the annotation tells what the shaping has left out.
Annotated ==
  pc = "finalize" =>
    /\ Leads(items, matched) /\ (surface.max = 0 => Len(items) = Len(matched))
    /\ surface.sort => InOrder(matched)
    /\ command = "list" /\ forgets = 0 /\ ~surface.pageScope /\ surface.filter => matched = Matched(table)
    /\ Annotation(meta) /\ {"input_count", "output_count"} \subseteq DOMAIN meta /\ DOMAIN meta \cap LastMarks = {}
    /\ meta.output_count = Len(items) /\ Len(matched) <= meta.input_count
    /\ Len(matched) < meta.input_count => DOMAIN meta \cap {"filters", "dedupe_by"} # {}
    /\ surface.max > 0 => "max_items" \in DOMAIN meta
    /\ command = "search" /\ second < page.second => "secondary_capped" \in DOMAIN meta

SurfaceInv == SurfaceTypes /\ SurfaceFlow /\ Annotated /\ SurfaceSound

\* The room that was set aside for the marks is enough for them.
LEMMA RoomForMarks ==
  ASSUME NEW rows \in Seq(Elements), NEW n \in Nat, NEW m, Annotation(m), NEW marked \in BOOLEAN, surface \in Surfaces,
         {"input_count", "output_count"} \subseteq DOMAIN m, DOMAIN m \cap DOMAIN CutMarks(0) = {},
         Len(rows) <= m.output_count, NEW d \in Nat
  PROVE  /\ Headroom(m, marked) \in Nat
         /\ Width(d) <= Width(m.input_count) =>
              EncodedLen(rows, n, Surviving(rows, Add(CutMarks(d), m)), TRUE) <= EncodedLen(rows, n, m, marked) + Headroom(m, marked)
<1> DEFINE D == {"output_truncated", "dropped", "max_output_bytes"}
           i == m.input_count
           a == Add(CutMarks(i), m)
           b == Add(CutMarks(d), m)
           s == Surviving(rows, b)
<1>1. surface.bytes \in Nat /\ i \in Nat /\ m.output_count \in Nat /\ Len(rows) \in Nat
  BY SurfaceConstants DEF Annotation
<1>2. /\ \A x : DOMAIN CutMarks(x) = D
      /\ \A x : CutMarks(x)["output_truncated"] = 0 /\ CutMarks(x)["dropped"] = x /\ CutMarks(x)["max_output_bytes"] = surface.bytes
  BY DEF CutMarks
<1>3. D \cap DOMAIN m = {}
  BY <1>2
<1>4. /\ DOMAIN a = D \cup DOMAIN m /\ DOMAIN b = D \cup DOMAIN m
      /\ \A f \in DOMAIN m : a[f] = m[f] /\ b[f] = m[f]
      /\ \A f \in D : a[f] = CutMarks(i)[f] /\ b[f] = CutMarks(d)[f]
  BY <1>2, <1>3 DEF Add
<1>5. a["output_truncated"] = 0 /\ a["dropped"] = i /\ a["max_output_bytes"] = surface.bytes
  BY <1>2, <1>4
<1>6. b["output_truncated"] = 0 /\ b["dropped"] = d /\ b["max_output_bytes"] = surface.bytes
  BY <1>2, <1>4
<1>7. /\ DOMAIN s = DOMAIN b /\ s["output_count"] = Len(rows)
      /\ \A f \in DOMAIN b : f # "output_count" => s[f] = b[f]
  <2>1. "output_count" \in DOMAIN b
    BY <1>4
  <2>2. s = [b EXCEPT !["output_count"] = Len(rows)]
    BY DEF Surviving
  <2>3. b = [f \in DOMAIN b |-> b[f]]
    BY DEF Add
  <2> HIDE DEF b, s
  <2> QED BY <2>1, <2>2, <2>3
<1> HIDE DEF a, b, s
<1>8. Annotation(a)
  <2> SUFFICES ASSUME NEW f \in DOMAIN a PROVE a[f] \in Nat
    BY DEF Annotation
  <2>1. CASE f \in DOMAIN m
    BY <1>4, <2>1 DEF Annotation
  <2>2. CASE f \in D
    BY <1>1, <1>5, <2>2
  <2> QED BY <1>4, <2>1, <2>2
<1>9. Annotation(s)
  <2> SUFFICES ASSUME NEW f \in DOMAIN s PROVE s[f] \in Nat
    BY DEF Annotation
  <2>1. CASE f = "output_count"
    BY <1>1, <1>7, <2>1
  <2>2. CASE f \in DOMAIN m /\ f # "output_count"
    BY <1>4, <1>7, <2>2 DEF Annotation
  <2>3. CASE f \in D
    <3>1. s[f] = b[f]
      BY <1>4, <1>7, <2>3
    <3> QED BY <1>1, <1>6, <2>3, <3>1
  <2> QED BY <1>4, <1>7, <2>1, <2>2, <2>3
<1>10. MetaLen(m) \in Nat /\ MetaLen(a) \in Nat /\ MetaLen(m) <= MetaLen(a)
  <2>1. ASSUME NEW f \in DOMAIN m PROVE f \in DOMAIN a /\ Width(m[f]) <= Width(a[f])
    <3>1. f \in DOMAIN a /\ a[f] = m[f] /\ m[f] \in Nat
      BY <1>4 DEF Annotation
    <3>2. Width(m[f]) \in Nat
      BY <3>1, WidthGrows
    <3> QED BY <3>1, <3>2
  <2> QED BY <1>8, <2>1, MetaGrows
<1>11. ASSUME Width(d) <= Width(i) PROVE MetaLen(s) \in Nat /\ MetaLen(s) <= MetaLen(a)
  <2>1. ASSUME NEW f \in DOMAIN s PROVE f \in DOMAIN a /\ Width(s[f]) <= Width(a[f])
    <3>1. f \in DOMAIN a /\ a[f] \in Nat /\ s[f] \in Nat
      BY <1>4, <1>7, <1>8, <1>9 DEF Annotation
    <3>2. CASE f = "output_count"
      <4>1. s[f] <= a[f]
        BY <1>4, <1>7, <3>2
      <4> QED BY <3>1, <4>1, WidthGrows
    <3>3. CASE f = "dropped"
      <4>1. s[f] = d /\ a[f] = i
        BY <1>4, <1>5, <1>6, <1>7, <3>3
      <4> QED BY <1>11, <3>1, <4>1
    <3>4. CASE f # "output_count" /\ f # "dropped"
      <4>1. s[f] = b[f]
        BY <1>7, <3>4
      <4>2. b[f] = a[f]
        <5>1. CASE f \in DOMAIN m
          BY <1>4, <5>1
        <5>2. CASE f \in D
          BY <1>5, <1>6, <3>4, <5>2
        <5> QED BY <1>4, <3>1, <5>1, <5>2
      <4>3. Width(s[f]) \in Nat
        BY <3>1, WidthGrows
      <4>4. Width(s[f]) = Width(a[f])
        BY <4>1, <4>2
      <4> QED BY <3>1, <4>3, <4>4
    <3> QED BY <3>1, <3>2, <3>3, <3>4
  <2> QED BY <1>8, <1>9, <2>1, MetaGrows
<1>12. Headroom(m, marked) = MetaLen(a) - MetaLen(m) + (IF marked THEN 0 ELSE Mark)
  BY DEF Headroom, a
<1>13. Headroom(m, marked) \in Nat
  BY <1>10, <1>12 DEF Mark
<1>14. ASSUME Width(d) <= Width(i)
       PROVE  EncodedLen(rows, n, s, TRUE) <= EncodedLen(rows, n, m, marked) + Headroom(m, marked)
  <2> DEFINE R  == RowsLen(rows)
             ms == MetaLen(s)
             mm == MetaLen(m)
             ma == MetaLen(a)
             x  == EncodedLen(rows, n, s, TRUE)
             y  == EncodedLen(rows, n, m, marked)
             h  == Headroom(m, marked)
  <2>1. R \in Nat /\ ms \in Nat /\ mm \in Nat /\ ma \in Nat /\ ms <= ma /\ mm <= ma
    BY <1>10, <1>11, <1>14, RowsLenIs
  <2>2. x = 2 + R + n + ms + 1
    BY DEF EncodedLen, Mark
  <2>3. marked => y = 2 + R + n + mm + 1 /\ h = ma - mm + 0
    BY <1>12 DEF EncodedLen, Mark
  <2>4. ~marked => y = 2 + R + n + mm + 0 /\ h = ma - mm + 1
    BY <1>12 DEF EncodedLen, Mark
  <2> HIDE DEF R, ms, mm, ma, x, y, h
  <2>5. x <= y + h
    BY <2>1, <2>2, <2>3, <2>4
  <2> QED BY <2>5 DEF x, y, h
<1> QED BY <1>13, <1>14 DEF s, b

\* Numbered rows are rows.
LEMMA NumberedIs ==
  ASSUME NEW t \in Tables
  PROVE  Numbered(t) \in Seq(Elements)
<1> DEFINE R == [key: Nat, long: BOOLEAN]
           N(i) == [id |-> i, key |-> t[i].key, long |-> t[i].long, whole |-> TRUE]
           s == Numbered(t)
<1>1. t \in Seq(R)
  BY SurfaceConstants
<1>2. ASSUME NEW i \in 1..Len(t) PROVE N(i) \in Elements
  <2> HIDE DEF R
  <2>1. t[i] \in R
    BY <1>1
  <2> USE DEF R
  <2>2. t[i].key \in Nat /\ t[i].long \in BOOLEAN
    BY <2>1
  <2> QED BY <2>2 DEF Elements
<1>3. s = [i \in 1..Len(t) |-> N(i)]
  BY DEF Numbered
<1> HIDE DEF N, s
<1>4. s \in [1..Len(t) -> Elements]
  BY <1>2, <1>3
<1>5. Len(t) \in Nat
  BY <1>1
<1>6. s \in Seq(Elements)
  BY <1>4, <1>5, SequenceOf
<1> QED BY <1>6 DEF s

\* At first nothing is read.
LEMMA SurfaceStarts == SurfaceInit => SurfaceInv
<1> SUFFICES ASSUME SurfaceInit PROVE SurfaceInv
  OBVIOUS
<1>1. pc = "read" /\ items = <<>> /\ matched = <<>> /\ forgets = 0 /\ out.form = "none"
  BY DEF SurfaceInit
<1>2. SurfaceTypes
  <2>1. PICK t \in Tables : table = Numbered(t)
    BY DEF SurfaceInit
  <2>2. table \in Seq(Elements)
    BY <2>1, NumberedIs
  <2>3. page \in [limit: Nat, offset: Nat, second: Nat]
    BY SurfaceConstants DEF SurfaceInit
  <2>4. second \in Nat
    BY <2>3 DEF SurfaceInit
  <2>5. <<>> \in Seq(Elements)
    OBVIOUS
  <2> QED BY <1>1, <2>2, <2>4, <2>5 DEF SurfaceTypes, SurfaceInit
<1>3. SurfaceFlow
  BY <1>1 DEF SurfaceFlow, SurfaceInit
<1>4. Annotated
  BY <1>1 DEF Annotated
<1>5. SurfaceSound
  BY <1>1 DEF SurfaceSound, SurfaceTypeOK, CountsTell, NothingSilent, BudgetKept, LeastStay, OfTheWholeTable, Answered
<1> QED BY <1>2, <1>3, <1>4, <1>5 DEF SurfaceInv

\* Without an answer or a count there is nothing to be told.
LEMMA NothingToTell ==
  ASSUME out'.form \notin {"count", "answer"}, SurfaceTypeOK'
  PROVE  SurfaceSound'
BY DEF SurfaceSound, CountsTell, NothingSilent, BudgetKept, LeastStay, OfTheWholeTable, Answered

\* The page of the table.
LEMMA ListRowsIs ==
  ASSUME NEW V, NEW s \in Seq(V), NEW limit \in Nat, NEW offset \in Nat
  PROVE  /\ ListRows(s, limit, offset) \in Seq(V)
         /\ offset = 0 /\ Len(s) <= limit => ListRows(s, limit, offset) = s
<1> DEFINE e == IF offset + limit < Len(s) THEN offset + limit ELSE Len(s)
<1>1. e \in 0..Len(s) /\ offset + 1 \in 1..(offset + 1) /\ Len(s) \in Nat
  OBVIOUS
<1>2. ListRows(s, limit, offset) = SubSeq(s, offset + 1, e)
  BY DEF ListRows
<1>3. offset = 0 /\ Len(s) <= limit => e = Len(s)
  OBVIOUS
<1> HIDE DEF e
<1>4. SubSeq(s, offset + 1, e) \in Seq(V)
  BY <1>1
<1>5. SubSeq(s, 1, Len(s)) = s
  OBVIOUS
<1>6. offset = 0 => offset + 1 = 1
  OBVIOUS
<1> QED BY <1>2, <1>3, <1>4, <1>5, <1>6

\* The page is what is read of the table.
LEMMA ReadPageKeeps == SurfaceInv /\ ReadPage => SurfaceInv'
<1> SUFFICES ASSUME SurfaceInv, ReadPage PROVE SurfaceInv'
  OBVIOUS
<1>1. /\ pc = "read" /\ pc' = "count" /\ items' = ListRows(table, page.limit, page.offset)
      /\ UNCHANGED <<table, surface, command, page, second, ceiling, meta, matched, out, forgets>>
  BY DEF ReadPage
<1>2. page.limit \in Nat /\ page.offset \in Nat
  BY SurfaceConstants DEF SurfaceInv, SurfaceTypes
<1>3. items' \in Seq(Elements)
  BY <1>1, <1>2, ListRowsIs DEF SurfaceInv, SurfaceTypes
<1>4. SurfaceTypes'
  BY <1>1, <1>3 DEF SurfaceInv, SurfaceTypes
<1>5. SurfaceFlow'
  BY <1>1 DEF SurfaceInv, SurfaceFlow
<1>6. Annotated'
  BY <1>1 DEF Annotated
<1>7. out.form = "none" /\ SurfaceTypeOK'
  BY <1>1 DEF SurfaceInv, SurfaceSound, SurfaceTypeOK
<1>8. SurfaceSound'
  BY <1>1, <1>7, NothingToTell
<1> QED BY <1>4, <1>5, <1>6, <1>8 DEF SurfaceInv

\* The ceiling tells how many rows there were when they were counted.
LEMMA CountKeeps == SurfaceInv /\ Count => SurfaceInv'
<1> SUFFICES ASSUME SurfaceInv, Count PROVE SurfaceInv'
  OBVIOUS
<1>1. /\ pc = "count" /\ pc' = "gate" /\ ceiling' = CeilingOfRead
      /\ UNCHANGED <<table, surface, command, page, items, second, meta, matched, out, forgets>>
  BY DEF Count, CeilingOfRead
<1>2. SurfaceTypes'
  BY <1>1 DEF SurfaceInv, SurfaceTypes
<1>3. CeilingOfRead' = CeilingOfRead
  BY <1>1 DEF CeilingOfRead
<1>4. SurfaceFlow'
  BY <1>1, <1>3 DEF SurfaceInv, SurfaceFlow
<1>5. Annotated'
  BY <1>1 DEF Annotated
<1>6. out.form = "none" /\ SurfaceTypeOK'
  BY <1>1 DEF SurfaceInv, SurfaceSound, SurfaceTypeOK
<1>7. SurfaceSound'
  BY <1>1, <1>6, NothingToTell
<1> QED BY <1>2, <1>4, <1>5, <1>7 DEF SurfaceInv

\* Somebody forgets a memory while the page is read or before it is counted.
LEMMA ForgetRowKeeps == SurfaceInv /\ ForgetRow => SurfaceInv'
<1> SUFFICES ASSUME SurfaceInv, ForgetRow PROVE SurfaceInv'
  OBVIOUS
<1>1. /\ pc \in {"read", "count"} /\ forgets' = 1
      /\ UNCHANGED <<pc, surface, command, page, items, second, ceiling, meta, matched, out>>
  BY DEF ForgetRow
<1>2. PICK i \in 1..Len(table) : table' = SubSeq(table, 1, i - 1) \o SubSeq(table, i + 1, Len(table))
  BY DEF ForgetRow
<1>3. table' \in Seq(Elements)
  <2>1. table \in Seq(Elements) /\ i - 1 \in 0..Len(table) /\ i + 1 \in 1..(Len(table) + 1)
    BY DEF SurfaceInv, SurfaceTypes
  <2>2. SubSeq(table, 1, i - 1) \in Seq(Elements) /\ SubSeq(table, i + 1, Len(table)) \in Seq(Elements)
    BY <2>1
  <2> QED BY <1>2, <2>2
<1>4. SurfaceTypes'
  BY <1>1, <1>3 DEF SurfaceInv, SurfaceTypes
<1>5. SurfaceFlow'
  BY <1>1 DEF SurfaceInv, SurfaceFlow
<1>6. Annotated'
  BY <1>1 DEF Annotated
<1>7. out.form = "none" /\ SurfaceTypeOK'
  BY <1>1 DEF SurfaceInv, SurfaceSound, SurfaceTypeOK
<1>8. SurfaceSound'
  BY <1>1, <1>7, NothingToTell
<1> QED BY <1>4, <1>5, <1>6, <1>8 DEF SurfaceInv

\* The gate lets pass, refuses or leaves the answer as it is.
LEMMA EvaluateKeeps == SurfaceInv /\ Evaluate => SurfaceInv'
<1> SUFFICES ASSUME SurfaceInv, Evaluate PROVE SurfaceInv'
  OBVIOUS
<1>1. pc = "gate" /\ UNCHANGED <<table, surface, command, page, items, second, ceiling, meta, matched, forgets>>
  BY DEF Evaluate
<1>2. \/ pc' = "done" /\ out'.form \in {"plain", "refused"}
      \/ pc' = "shape" /\ out' = out /\ ~RefusesPage
  BY DEF Evaluate
<1>3. SurfaceTypes'
  BY <1>1 DEF SurfaceInv, SurfaceTypes
<1>4. CeilingOfRead' = CeilingOfRead /\ RefusesPage' = RefusesPage
  BY <1>1 DEF CeilingOfRead, RefusesPage, Truncated
<1>5. SurfaceFlow'
  BY <1>1, <1>2, <1>4 DEF SurfaceInv, SurfaceFlow
<1>6. Annotated'
  BY <1>2 DEF Annotated
<1>7. out.form = "none"
  BY <1>1 DEF SurfaceInv, SurfaceSound, SurfaceTypeOK
<1>8. SurfaceTypeOK' /\ out'.form \notin {"count", "answer"}
  BY <1>2, <1>7 DEF SurfaceTypeOK
<1>9. SurfaceSound'
  BY <1>8, NothingToTell
<1> QED BY <1>3, <1>5, <1>6, <1>9 DEF SurfaceInv

\* What matches does not depend on who asks.
LEMMA SameMatches ==
  ASSUME surface' = surface, table' = table
  PROVE  Matched(table)' = Matched(table)
BY DEF Matched, Dedupe, SortBy, Filter, Matches

\* When nothing lies beyond the page, its rows are those of the table.
LEMMA WholePage ==
  ASSUME SurfaceInv, pc = "shape", command = "list", forgets = 0, ~Truncated
  PROVE  items = table
<1>1. ceiling.kind = "pagination" /\ ceiling.applied = page.limit /\ ceiling.offset = page.offset /\ ceiling.total = Len(table)
  BY DEF SurfaceInv, SurfaceFlow, CeilingOfRead
<1>2. page.limit \in Nat /\ page.offset \in Nat /\ table \in Seq(Elements) /\ Len(table) \in Nat
  BY SurfaceConstants DEF SurfaceInv, SurfaceTypes
<1>3. page.offset = 0 /\ Len(table) <= page.limit
  BY <1>1, <1>2 DEF Truncated
<1>4. items = ListRows(table, page.limit, page.offset)
  BY DEF SurfaceInv, SurfaceFlow
<1> QED BY <1>2, <1>3, <1>4, ListRowsIs

\* The annotation that the shaping begins with.
LEMMA BaseMetaIs ==
  ASSUME surface \in Surfaces, page \in Pages, command \in {"list", "search"}, table \in Seq(Elements), ceiling = CeilingOfRead,
         NEW i \in Nat, NEW o \in Nat
  PROVE  LET m == BaseMeta(i, o) IN
         /\ Annotation(m) /\ DOMAIN m = BaseFields /\ m.input_count = i /\ m.output_count = o
<1> DEFINE m == BaseMeta(i, o)
<1>1. surface.max \in Nat /\ page.limit \in Nat /\ Len(table) \in Nat
  BY SurfaceConstants
<1>2. ceiling.applied \in Nat /\ (command = "list" => ceiling.total \in Nat)
  BY <1>1 DEF CeilingOfRead
<1>3. DOMAIN m = BaseFields
  BY DEF BaseMeta
<1>4. "input_count" \in BaseFields /\ "output_count" \in BaseFields /\ ("universe_total" \in BaseFields => command = "list")
  BY DEF BaseFields
<1>5. m.input_count = i /\ m.output_count = o
  BY <1>4 DEF BaseMeta
<1>6. ASSUME NEW f \in BaseFields PROVE m[f] \in Nat
  <2>1. m[f] = CASE f = "input_count" -> i [] f = "output_count" -> o [] f = "filters" -> 1 [] f = "max_items" -> surface.max
                 [] f = "query_limit" -> ceiling.applied [] f = "universe_total" -> ceiling.total [] OTHER -> 0
    BY DEF BaseMeta
  <2> HIDE DEF m
  <2> QED BY <1>1, <1>2, <1>4, <2>1
<1> HIDE DEF m
<1>7. Annotation(m)
  BY <1>3, <1>6 DEF Annotation
<1> QED BY <1>3, <1>5, <1>7 DEF m

\* The shaping says in the annotation what it leaves out.
LEMMA ShapeKeeps == SurfaceInv /\ Shape => SurfaceInv'
<1> SUFFICES ASSUME SurfaceInv, Shape PROVE SurfaceInv'
  OBVIOUS
<1> DEFINE rows == Shaped(items)
           M == Matched(items)
           base == BaseMeta(Len(items), Len(rows))
<1>1. /\ pc = "shape" /\ matched' = M /\ UNCHANGED <<table, surface, command, page, ceiling, forgets>>
      /\ \/ /\ surface.countOnly /\ pc' = "done" /\ UNCHANGED <<items, second, meta>>
            /\ out' = [form |-> "count", count |-> Len(rows), scope |-> CountScope(Len(rows), Len(M))]
         \/ /\ ~surface.countOnly /\ pc' = "finalize" /\ UNCHANGED out /\ items' = rows
            /\ second' = (IF surface.max > 0 /\ second > surface.max THEN surface.max ELSE second)
            /\ meta' = (IF Capped(second) THEN Add([secondary_capped |-> 0], base) ELSE base)
  BY DEF Shape
<1>2. /\ surface \in Surfaces /\ page \in Pages /\ command \in {"list", "search"} /\ table \in Seq(Elements)
      /\ items \in Seq(Elements) /\ second \in Nat /\ Len(items) \in Nat
  BY DEF SurfaceInv, SurfaceTypes
<1>3. surface.max \in Nat /\ page.second \in Nat
  BY <1>2, SurfaceConstants
<1>4. ceiling = CeilingOfRead /\ ~RefusesPage /\ second = (IF command = "search" THEN page.second ELSE 0)
  BY <1>1 DEF SurfaceInv, SurfaceFlow
<1>5. /\ M \in Seq(Elements) /\ Len(M) <= Len(items) /\ (surface.sort => InOrder(M))
      /\ ~surface.filter /\ ~surface.dedupe => Len(M) = Len(items)
  BY <1>2, MatchedKeeps
<1>6. rows \in Seq(Elements) /\ Leads(rows, M) /\ (surface.max = 0 => Len(rows) = Len(M))
  BY <1>2, ShapedLeads
<1>7. command = "list" /\ forgets = 0 /\ ~Truncated => M = Matched(table)
  BY <1>1, WholePage
<1>8. Matched(table)' = Matched(table) /\ CeilingOfRead' = CeilingOfRead
  BY <1>1, SameMatches DEF CeilingOfRead
<1> HIDE DEF rows, M, base
<1>9. Len(M) \in Nat /\ Len(rows) \in Nat /\ Len(rows) <= Len(M)
  BY <1>5, <1>6 DEF Leads
<1>10. SurfaceFlow'
  BY <1>1, <1>4, <1>8 DEF SurfaceFlow
<1>11. CASE surface.countOnly
  <2>1. /\ pc' = "done" /\ UNCHANGED <<items, second, meta>>
        /\ out'.form = "count" /\ out'.count = Len(rows) /\ out'.scope = CountScope(Len(rows), Len(M))
    BY <1>1, <1>11
  <2>2. SurfaceTypes'
    BY <1>1, <1>5, <2>1 DEF SurfaceInv, SurfaceTypes
  <2>3. Annotated'
    BY <2>1 DEF Annotated
  <2>4. SurfaceTypeOK'
    BY <2>1 DEF SurfaceTypeOK
  <2>5. out'.scope = "matched" => ~Truncated /\ Len(rows) = Len(M)
    BY <1>9, <2>1 DEF CountScope
  <2>6. OfTheWholeTable'
    <3>1. command = "list" /\ forgets = 0 /\ out'.scope = "matched" => out'.count = Len(Matched(table))
      BY <1>7, <2>1, <2>5
    <3> QED BY <1>1, <1>8, <2>1, <3>1 DEF OfTheWholeTable, Answered
  <2>7. CountsTell' /\ NothingSilent' /\ BudgetKept' /\ LeastStay'
    BY <2>1 DEF CountsTell, NothingSilent, BudgetKept, LeastStay, Answered
  <2> QED BY <1>10, <2>2, <2>3, <2>4, <2>6, <2>7 DEF SurfaceInv, SurfaceSound
<1>12. CASE ~surface.countOnly
  <2>1. /\ pc' = "finalize" /\ UNCHANGED out /\ items' = rows
        /\ second' = (IF surface.max > 0 /\ second > surface.max THEN surface.max ELSE second)
        /\ meta' = (IF Capped(second) THEN Add([secondary_capped |-> 0], base) ELSE base)
    BY <1>1, <1>12
  <2>2. SurfaceTypes'
    BY <1>1, <1>2, <1>3, <1>5, <1>6, <2>1 DEF SurfaceInv, SurfaceTypes
  <2>3. /\ Annotation(base) /\ DOMAIN base = BaseFields /\ base.input_count = Len(items) /\ base.output_count = Len(rows)
    BY <1>2, <1>4, <1>9, BaseMetaIs DEF base
  <2>4. /\ Annotation(meta') /\ meta'.input_count = Len(items) /\ meta'.output_count = Len(rows)
        /\ DOMAIN meta' = BaseFields \cup (IF Capped(second) THEN {"secondary_capped"} ELSE {})
    <3>1. "secondary_capped" \notin BaseFields /\ "input_count" \in BaseFields /\ "output_count" \in BaseFields
      BY DEF BaseFields
    <3>2. CASE Capped(second)
      <4> DEFINE k == [secondary_capped |-> 0]
      <4>1. meta' = Add(k, base)
        BY <2>1, <3>2
      <4>2. DOMAIN k = {"secondary_capped"} /\ k["secondary_capped"] = 0
        OBVIOUS
      <4> HIDE DEF k
      <4>3. /\ DOMAIN meta' = {"secondary_capped"} \cup BaseFields /\ meta'["secondary_capped"] = 0
            /\ \A f \in BaseFields : meta'[f] = base[f]
        BY <2>3, <3>1, <4>1, <4>2 DEF Add
      <4>4. Annotation(meta')
        BY <2>3, <4>3 DEF Annotation
      <4> QED BY <2>3, <3>1, <3>2, <4>3, <4>4
    <3>3. CASE ~Capped(second)
      BY <2>1, <2>3, <3>3
    <3> QED BY <3>2, <3>3
  <2>5. /\ {"input_count", "output_count"} \subseteq DOMAIN meta' /\ DOMAIN meta' \cap LastMarks = {}
        /\ (surface.filter => "filters" \in DOMAIN meta') /\ (surface.dedupe => "dedupe_by" \in DOMAIN meta')
        /\ (surface.max > 0 => "max_items" \in DOMAIN meta')
    BY <2>4 DEF BaseFields, LastMarks
  <2>6. command = "search" /\ second' < page.second => "secondary_capped" \in DOMAIN meta'
    BY <1>2, <1>3, <1>4, <2>1, <2>4 DEF Capped
  <2>7. command = "list" /\ forgets = 0 /\ ~surface.pageScope /\ surface.filter => M = Matched(table)
    BY <1>4, <1>7 DEF RefusesPage
  <2>8. Len(M) < Len(items) => DOMAIN meta' \cap {"filters", "dedupe_by"} # {}
    <3>1. Len(M) < Len(items) => surface.filter \/ surface.dedupe
      BY <1>2, <1>5, <1>9
    <3> QED BY <2>5, <3>1
  <2>9. Annotated'
    <3> USE <1>1, <2>1
    <3>1. Leads(items, matched)' /\ (surface.max = 0 => Len(items) = Len(matched))' /\ (surface.sort => InOrder(matched))'
      BY <1>5, <1>6
    <3>2. (command = "list" /\ forgets = 0 /\ ~surface.pageScope /\ surface.filter => matched = Matched(table))'
      BY <1>8, <2>7
    <3>3. (meta.output_count = Len(items) /\ Len(matched) <= meta.input_count)'
      BY <1>5, <2>4
    <3>4. (Len(matched) < meta.input_count => DOMAIN meta \cap {"filters", "dedupe_by"} # {})'
      BY <2>4, <2>8
    <3>5. (surface.max > 0 => "max_items" \in DOMAIN meta)' /\ (command = "search" /\ second < page.second => "secondary_capped" \in DOMAIN meta)'
      BY <2>5, <2>6
    <3> QED BY <2>4, <2>5, <3>1, <3>2, <3>3, <3>4, <3>5 DEF Annotated
  <2>10. out.form = "none" /\ SurfaceTypeOK'
    BY <1>1, <2>1 DEF SurfaceInv, SurfaceSound, SurfaceTypeOK
  <2>11. SurfaceSound'
    BY <2>1, <2>10, NothingToTell
  <2> QED BY <1>10, <2>2, <2>9, <2>11 DEF SurfaceInv
<1> QED BY <1>11, <1>12

\* Text that is shortened leaves the rows where they are.
LEMMA ShortenedLeads ==
  ASSUME NEW s \in Seq(Elements), NEW r \in Seq(Elements), Leads(s, r),
         NEW t, t = s \/ t = [i \in 1..Len(s) |-> [s[i] EXCEPT !.long = FALSE]]
  PROVE  t \in Seq(Elements) /\ Len(t) = Len(s) /\ Leads(t, r)
<1>1. CASE t = s
  BY <1>1
<1>2. CASE t = [i \in 1..Len(s) |-> [s[i] EXCEPT !.long = FALSE]]
  <2>1. \A i \in 1..Len(s) : s[i] \in Elements /\ t[i] = [s[i] EXCEPT !.long = FALSE]
    BY <1>2
  <2>2. \A i \in 1..Len(s) : t[i] \in Elements /\ t[i].id = s[i].id /\ t[i].key = s[i].key
    BY <2>1 DEF Elements
  <2>3. t \in [1..Len(s) -> Elements] /\ Len(s) \in Nat
    <3>1. t = [i \in 1..Len(s) |-> t[i]]
      BY <1>2
    <3> QED BY <2>2, <3>1
  <2>4. t \in Seq(Elements) /\ Len(t) = Len(s)
    BY <2>3, SequenceOf
  <2> QED BY <2>2, <2>4 DEF Leads
<1> QED BY <1>1, <1>2

\* Beginnings of beginnings are beginnings.
LEMMA LeadsOn ==
  ASSUME NEW s \in Seq(Elements), NEW t \in Seq(Elements), NEW r \in Seq(Elements), Leads(s, t), Leads(t, r)
  PROVE  Leads(s, r)
<1>1. Len(s) \in Nat /\ Len(t) \in Nat /\ Len(r) \in Nat
  OBVIOUS
<1>2. \A i \in 1..Len(s) : i \in 1..Len(t)
  BY <1>1 DEF Leads
<1> QED BY <1>1, <1>2 DEF Leads

\* The end of the shaping shortens text, cuts to the budget and says so.
LEMMA FinalizeKeeps == SurfaceInv /\ Finalize => SurfaceInv'
<1> SUFFICES ASSUME SurfaceInv, Finalize PROVE SurfaceInv'
  OBVIOUS
<1> DEFINE shortens == surface.truncate /\ \E i \in 1..Len(items) : items[i].whole /\ items[i].long
           rows == IF shortens THEN [i \in 1..Len(items) |-> [items[i] EXCEPT !.long = FALSE]] ELSE items
           m    == IF shortens THEN Add([content_truncated |-> 0, truncate_content |-> 1], meta) ELSE meta
           max  == IF surface.bytes > Headroom(m, shortens) THEN surface.bytes - Headroom(m, shortens) ELSE 1
           cut  == IF surface.bytes = 0 THEN [rows |-> rows, second |-> second, dropped |-> 0, cut |-> FALSE, stub |-> FALSE]
                   ELSE Enforce(rows, second, m, shortens, max)
<1>1. /\ pc = "finalize" /\ pc' = "done" /\ items' = cut.rows /\ second' = cut.second
      /\ meta' = (IF cut.cut /\ ~cut.stub THEN Surviving(cut.rows, Add(CutMarks(cut.dropped), m)) ELSE m)
      /\ out' = [form |-> IF cut.stub THEN "stub" ELSE "answer", marked |-> shortens \/ cut.cut]
      /\ UNCHANGED <<table, surface, command, page, ceiling, matched, forgets>>
  BY DEF Finalize
<1>2. /\ surface \in Surfaces /\ page \in Pages /\ command \in {"list", "search"} /\ table \in Seq(Elements)
      /\ items \in Seq(Elements) /\ matched \in Seq(Elements) /\ second \in Nat
  BY DEF SurfaceInv, SurfaceTypes
<1>3. surface.bytes \in Nat /\ surface.max \in Nat /\ page.second \in Nat
  BY <1>2, SurfaceConstants
<1>4. /\ Leads(items, matched) /\ (surface.max = 0 => Len(items) = Len(matched)) /\ (surface.sort => InOrder(matched))
      /\ command = "list" /\ forgets = 0 /\ ~surface.pageScope /\ surface.filter => matched = Matched(table)
  BY <1>1 DEF SurfaceInv, Annotated
<1>5. /\ Annotation(meta) /\ {"input_count", "output_count"} \subseteq DOMAIN meta /\ DOMAIN meta \cap LastMarks = {}
      /\ meta.output_count = Len(items) /\ Len(matched) <= meta.input_count
      /\ Len(matched) < meta.input_count => DOMAIN meta \cap {"filters", "dedupe_by"} # {}
      /\ surface.max > 0 => "max_items" \in DOMAIN meta
      /\ command = "search" /\ second < page.second => "secondary_capped" \in DOMAIN meta
  BY <1>1 DEF SurfaceInv, Annotated
<1>6. shortens \in BOOLEAN
  OBVIOUS
<1>7. rows = items \/ rows = [i \in 1..Len(items) |-> [items[i] EXCEPT !.long = FALSE]]
  OBVIOUS
<1>8. m = meta \/ m = Add([content_truncated |-> 0, truncate_content |-> 1], meta)
  OBVIOUS
<1> HIDE DEF shortens, rows, m
<1>9. rows \in Seq(Elements) /\ Len(rows) = Len(items) /\ Leads(rows, matched)
  BY <1>2, <1>4, <1>7, ShortenedLeads
<1>10. /\ Annotation(m) /\ DOMAIN meta \subseteq DOMAIN m /\ \A f \in DOMAIN meta : m[f] = meta[f]
       /\ {"output_truncated", "dropped", "max_output_bytes"} \cap DOMAIN m = {}
  <2>1. CASE m = meta
    BY <1>5, <2>1 DEF LastMarks
  <2>2. CASE m = Add([content_truncated |-> 0, truncate_content |-> 1], meta)
    <3> DEFINE k == [content_truncated |-> 0, truncate_content |-> 1]
    <3>1. DOMAIN k = {"content_truncated", "truncate_content"} /\ k["content_truncated"] = 0 /\ k["truncate_content"] = 1
      OBVIOUS
    <3>2. m = Add(k, meta)
      BY <2>2
    <3> HIDE DEF k
    <3>3. /\ DOMAIN m = DOMAIN k \cup DOMAIN meta
          /\ \A f \in DOMAIN k : m[f] = k[f]
          /\ \A f \in DOMAIN meta : f \notin DOMAIN k => m[f] = meta[f]
      BY <3>2 DEF Add
    <3>4. DOMAIN k \cap DOMAIN meta = {}
      BY <1>5, <3>1 DEF LastMarks
    <3>5. Annotation(m)
      <4> SUFFICES ASSUME NEW f \in DOMAIN m PROVE m[f] \in Nat
        BY DEF Annotation
      <4>1. CASE f \in DOMAIN k
        BY <3>1, <3>3, <4>1
      <4>2. CASE f \in DOMAIN meta
        BY <1>5, <3>3, <3>4, <4>2 DEF Annotation
      <4> QED BY <3>3, <4>1, <4>2
    <3> QED BY <1>5, <3>1, <3>3, <3>4, <3>5 DEF LastMarks
  <2> QED BY <1>8, <2>1, <2>2
<1>11. m.output_count = Len(rows) /\ m.input_count = meta.input_count /\ m.input_count \in Nat /\ Len(rows) \in Nat
  BY <1>5, <1>9, <1>10 DEF Annotation
<1>12. DOMAIN m \cap DOMAIN CutMarks(0) = {} /\ {"input_count", "output_count"} \subseteq DOMAIN m
  BY <1>5, <1>10 DEF CutMarks
<1>13. Headroom(m, shortens) \in Nat
  <2>1. Len(rows) <= m.output_count /\ 0 \in Nat
    BY <1>11
  <2> QED BY <1>2, <1>6, <1>9, <1>10, <1>12, <2>1, RoomForMarks
<1>14. max \in Nat /\ (max = 1 \/ max + Headroom(m, shortens) = surface.bytes)
  BY <1>3, <1>13
<1>15. surface.bytes > 0 => CutTo(rows, second, m, shortens, max, cut)
  <2>1. surface.bytes > 0 => cut = Enforce(rows, second, m, shortens, max)
    BY <1>3
  <2> HIDE DEF cut, max
  <2> QED BY <1>2, <1>6, <1>9, <1>10, <1>14, <2>1, EnforceCuts
<1>16. surface.bytes = 0 => cut.rows = rows /\ cut.second = second /\ cut.dropped = 0 /\ cut.cut = FALSE /\ cut.stub = FALSE
  OBVIOUS
<1> HIDE DEF cut, max
<1>17. Leads(rows, rows)
  BY <1>11 DEF Leads
<1>18. /\ cut.rows \in Seq(Elements) /\ Leads(cut.rows, rows) /\ cut.second \in Nat /\ cut.second <= second /\ cut.dropped \in Nat
       /\ cut.cut \in BOOLEAN /\ cut.stub \in BOOLEAN
       /\ ~cut.cut => cut.rows = rows /\ cut.second = second /\ ~cut.stub
       /\ cut.cut /\ ~cut.stub => cut.dropped > 0 /\ surface.bytes > 0
  <2>1. CASE surface.bytes > 0
    BY <1>15, <2>1 DEF CutTo
  <2>2. CASE surface.bytes = 0
    <3>1. cut.rows = rows /\ cut.second = second /\ cut.dropped = 0 /\ ~cut.cut /\ ~cut.stub /\ cut.cut \in BOOLEAN /\ cut.stub \in BOOLEAN
      BY <1>16, <2>2
    <3>2. cut.rows \in Seq(Elements) /\ Leads(cut.rows, rows)
      BY <1>9, <1>17, <3>1
    <3>3. cut.second \in Nat /\ cut.second <= second /\ cut.dropped \in Nat
      BY <1>2, <3>1
    <3> QED BY <3>1, <3>2, <3>3
  <2> QED BY <1>3, <2>1, <2>2
<1>19. Leads(cut.rows, matched) /\ Len(cut.rows) \in Nat /\ Len(cut.rows) <= Len(rows)
  BY <1>2, <1>9, <1>18, LeadsOn DEF Leads
<1>20. SurfaceTypes'
  BY <1>1, <1>2, <1>18 DEF SurfaceInv, SurfaceTypes
<1>21. SurfaceFlow'
  BY <1>1 DEF SurfaceInv, SurfaceFlow, CeilingOfRead
<1>22. Annotated'
  BY <1>1 DEF Annotated
<1>23. out'.form = (IF cut.stub THEN "stub" ELSE "answer") /\ out'.marked = (shortens \/ cut.cut)
  BY <1>1
<1>24. SurfaceTypeOK'
  BY <1>1, <1>23 DEF SurfaceTypeOK
<1>25. CASE cut.stub
  <2>1. SurfaceSound'
    BY <1>23, <1>24, <1>25, NothingToTell
  <2> QED BY <1>20, <1>21, <1>22, <2>1 DEF SurfaceInv
<1>26. CASE ~cut.stub
  <2>1. out'.form = "answer"
    BY <1>23, <1>26
  <2>2. LeastStay'
    <3>1. surface.sort => \A i \in 1..Len(cut.rows), r \in Range(matched) :
            r.id \notin {cut.rows[j].id : j \in 1..Len(cut.rows)} => r.key = 0 \/ (cut.rows[i].key # 0 /\ cut.rows[i].key <= r.key)
      BY <1>2, <1>4, <1>18, <1>19, CutStaysInOrder
    <3> QED BY <1>1, <3>1 DEF LeastStay
  <2>3. OfTheWholeTable'
    <3>1. Matched(table)' = Matched(table)
      BY <1>1, SameMatches
    <3> QED BY <1>1, <1>4, <2>1, <3>1 DEF OfTheWholeTable
  <2>4. CASE ~cut.cut
    <3>1. items' = rows /\ second' = second /\ meta' = m /\ out'.marked = shortens
      BY <1>1, <1>6, <1>18, <1>23, <2>4
    <3>2. CountsTell'
      BY <1>5, <1>9, <1>11, <1>19, <3>1 DEF CountsTell, Leads
    <3>3. NothingSilent'
      <4>1. m.output_count < m.input_count => DOMAIN m \cap {"filters", "dedupe_by", "max_items", "output_truncated"} # {}
        <5>1. CASE surface.max > 0
          BY <1>5, <1>10, <5>1
        <5>2. CASE surface.max = 0
          BY <1>4, <1>5, <1>9, <1>10, <1>11, <5>2
        <5> QED BY <1>3, <5>1, <5>2
      <4>2. m.output_count < Len(matched) => DOMAIN m \cap {"max_items", "output_truncated"} # {}
        <5>1. m.output_count < Len(matched) => surface.max # 0
          BY <1>2, <1>4, <1>9, <1>11
        <5> QED BY <1>3, <1>5, <1>10, <5>1
      <4>3. "output_truncated" \notin DOMAIN m
        BY <1>10
      <4>4. command = "search" /\ second < page.second => DOMAIN m \cap {"secondary_capped", "output_truncated"} # {}
        BY <1>5, <1>10
      <4> QED BY <1>1, <3>1, <4>1, <4>2, <4>3, <4>4 DEF NothingSilent
    <3>4. BudgetKept'
      <4>1. surface.bytes > 0 => EncodedLen(rows, second, m, shortens) <= surface.bytes
        <5> SUFFICES ASSUME surface.bytes > 0 PROVE EncodedLen(rows, second, m, shortens) <= surface.bytes
          OBVIOUS
        <5>1. EncodedLen(rows, second, m, shortens) <= max
          BY <1>15, <1>18, <1>26, <2>4 DEF CutTo
        <5>2. EncodedLen(rows, second, m, shortens) \in Nat /\ EncodedLen(rows, second, m, shortens) >= 2
          BY <1>2, <1>6, <1>9, <1>10, EncodedLenIs
        <5> QED BY <1>3, <1>13, <1>14, <5>1, <5>2
      <4> QED BY <1>1, <3>1, <4>1 DEF BudgetKept
    <3> QED BY <1>20, <1>21, <1>22, <1>24, <2>2, <2>3, <3>2, <3>3, <3>4 DEF SurfaceInv, SurfaceSound
  <2>5. CASE cut.cut
    <3> DEFINE a == Add(CutMarks(cut.dropped), m)
    <3>1. items' = cut.rows /\ second' = cut.second /\ meta' = Surviving(cut.rows, a) /\ out'.marked = TRUE
      BY <1>1, <1>23, <1>26, <2>5
    <3>2. /\ DOMAIN a = {"output_truncated", "dropped", "max_output_bytes"} \cup DOMAIN m /\ a = [f \in DOMAIN a |-> a[f]]
          /\ a["dropped"] = cut.dropped /\ a["input_count"] = m["input_count"]
      BY <1>5, <1>10 DEF Add, CutMarks
    <3> HIDE DEF a
    <3>3. /\ DOMAIN meta' = DOMAIN a /\ meta'["output_count"] = Len(cut.rows)
          /\ meta'["dropped"] = cut.dropped /\ meta'["input_count"] = m["input_count"]
      <4>1. meta' = [a EXCEPT !["output_count"] = Len(cut.rows)]
        BY <3>1 DEF Surviving
      <4>2. "output_count" \in DOMAIN a /\ "dropped" \in DOMAIN a /\ "input_count" \in DOMAIN a
        BY <1>12, <3>2
      <4> QED BY <3>2, <4>1, <4>2
    <3>4. CountsTell'
      <4>1. meta'.output_count = Len(cut.rows) /\ Len(cut.rows) <= meta'.input_count
        BY <1>2, <1>5, <1>11, <1>19, <3>3 DEF Leads
      <4> QED BY <3>1, <4>1 DEF CountsTell
    <3>5. NothingSilent'
      <4>1. "output_truncated" \in DOMAIN meta' /\ meta'.dropped > 0
        BY <1>18, <1>26, <2>5, <3>2, <3>3
      <4> QED BY <3>1, <4>1 DEF NothingSilent
    <3>6. BudgetKept'
      <4>1. ASSUME Width(meta'.dropped) <= Width(meta'.input_count)
            PROVE  EncodedLen(cut.rows, cut.second, meta', TRUE) <= surface.bytes
        <5>1. Width(cut.dropped) <= Width(m.input_count)
          BY <3>3, <4>1
        <5>2. Len(cut.rows) <= m.output_count
          BY <1>11, <1>19
        <5>3. EncodedLen(cut.rows, cut.second, meta', TRUE) <= EncodedLen(cut.rows, cut.second, m, shortens) + Headroom(m, shortens)
          BY <1>2, <1>6, <1>10, <1>12, <1>18, <3>1, <5>1, <5>2, RoomForMarks DEF a
        <5>4. EncodedLen(cut.rows, cut.second, m, shortens) <= max
          BY <1>15, <1>18, <1>26, <2>5 DEF CutTo
        <5>5. EncodedLen(cut.rows, cut.second, m, shortens) \in Nat /\ EncodedLen(cut.rows, cut.second, m, shortens) >= 2
          BY <1>6, <1>10, <1>18, EncodedLenIs
        <5>6. Annotation(meta')
          <6> SUFFICES ASSUME NEW f \in DOMAIN meta' PROVE meta'[f] \in Nat
            BY DEF Annotation
          <6>1. meta' = [a EXCEPT !["output_count"] = Len(cut.rows)]
            BY <3>1 DEF Surviving
          <6>2. CASE f = "output_count"
            BY <1>19, <3>3, <6>2
          <6>3. CASE f # "output_count"
            <7>1. meta'[f] = a[f]
              BY <3>2, <3>3, <6>1, <6>3
            <7>2. CASE f \in DOMAIN m
              <8>1. a[f] = m[f]
                BY <1>10, <7>2 DEF a, Add, CutMarks
              <8> QED BY <1>10, <7>1, <7>2, <8>1 DEF Annotation
            <7>3. CASE f \in {"output_truncated", "dropped", "max_output_bytes"}
              <8>1. a[f] \in Nat
                BY <1>3, <1>18, <7>3 DEF a, Add, CutMarks
              <8> QED BY <7>1, <8>1
            <7> QED BY <3>2, <3>3, <7>2, <7>3
          <6> QED BY <6>2, <6>3
        <5>7. EncodedLen(cut.rows, cut.second, meta', TRUE) \in Nat
          BY <1>18, <5>6, EncodedLenIs
        <5> DEFINE x == EncodedLen(cut.rows, cut.second, meta', TRUE)
                   y == EncodedLen(cut.rows, cut.second, m, shortens)
                   h == Headroom(m, shortens)
        <5>8. x \in Nat /\ y \in Nat /\ y >= 2 /\ h \in Nat /\ x <= y + h /\ y <= max /\ (max = 1 \/ max + h = surface.bytes)
          BY <1>13, <1>14, <5>3, <5>4, <5>5, <5>7
        <5> HIDE DEF x, y, h
        <5>9. x <= surface.bytes
          BY <1>3, <1>14, <5>8
        <5> QED BY <5>9 DEF x
      <4>2. "dropped" \in DOMAIN meta'
        BY <3>2, <3>3
      <4> QED BY <1>1, <3>1, <4>1, <4>2 DEF BudgetKept
    <3> QED BY <1>20, <1>21, <1>22, <1>24, <2>2, <2>3, <3>4, <3>5, <3>6 DEF SurfaceInv, SurfaceSound
  <2> QED BY <1>18, <2>4, <2>5
<1> QED BY <1>18, <1>25, <1>26

\* Every step keeps the invariant.
LEMMA SurfaceSteps == SurfaceInv /\ [SurfaceNext]_surfaceVars => SurfaceInv'
<1> SUFFICES ASSUME SurfaceInv, [SurfaceNext]_surfaceVars PROVE SurfaceInv'
  OBVIOUS
<1>1. CASE UNCHANGED surfaceVars
  <2>1. /\ pc' = pc /\ table' = table /\ surface' = surface /\ command' = command /\ page' = page /\ items' = items
        /\ second' = second /\ ceiling' = ceiling /\ meta' = meta /\ matched' = matched /\ out' = out /\ forgets' = forgets
    BY <1>1 DEF surfaceVars
  <2>2. Matched(table)' = Matched(table)
    BY <2>1, SameMatches
  <2>3. SurfaceTypes' /\ SurfaceFlow' /\ SurfaceTypeOK'
    BY <2>1 DEF SurfaceInv, SurfaceTypes, SurfaceFlow, SurfaceSound, SurfaceTypeOK, CeilingOfRead, RefusesPage, Truncated
  <2>4. Annotated'
    BY <2>1, <2>2 DEF SurfaceInv, Annotated
  <2>5. CountsTell' /\ NothingSilent' /\ BudgetKept'
    BY <2>1 DEF SurfaceInv, SurfaceSound, CountsTell, NothingSilent, BudgetKept, Answered
  <2>6. LeastStay' /\ OfTheWholeTable'
    BY <2>1, <2>2 DEF SurfaceInv, SurfaceSound, LeastStay, OfTheWholeTable, Answered
  <2> QED BY <2>3, <2>4, <2>5, <2>6 DEF SurfaceInv, SurfaceSound
<1> QED BY <1>1, ReadPageKeeps, CountKeeps, ForgetRowKeeps, EvaluateKeeps, ShapeKeeps, FinalizeKeeps DEF SurfaceNext

\* The answer of every command tells what was left out of it, whatever the table, the page, the
\* flags and what others forget meanwhile: its counts, the marks of each cut, its budget, the order
\* of a cut and the scope of a count.
THEOREM SurfaceIsSound == SurfaceSpec => []SurfaceSound
<1>1. SurfaceInv => SurfaceSound
  BY DEF SurfaceInv
<1> QED BY <1>1, SurfaceStarts, SurfaceSteps, PTL DEF SurfaceSpec
=============================================================================
