----------------------------- MODULE Overbooking -----------------------------
(***************************************************************************)
(* The overbooking configurations of eSalao: their creation                *)
(* (POST /overbooking/configs) and the search for the one that applies     *)
(* (POST /overbooking/status), statement by statement.                     *)
(*                                                                         *)
(* Both run at READ COMMITTED in a session of their own.  A creation first *)
(* selects the active configurations of its scope and then inserts its     *)
(* own; nothing in the table keeps a second one out.  A search asks for    *)
(* the service, the professional, the salon and the platform in turn, with *)
(* one SELECT for each.  PUT, DELETE and the two capacity routes fail      *)
(* before they change anything: a stored configuration is never altered.   *)
(***************************************************************************)
EXTENDS Naturals

CONSTANTS Config,           \* ids of the table overbooking_configs
          Subject,          \* services, professionals, salons, the platform
          Level,            \* 1, 2, 3 or 4 of each of them, in this order
          Platform,         \* the one subject of level 4
          Worker,           \* the sessions that serve requests
          Period,           \* periods of validity a creation may name
          None,             \* NULL, and no configuration
          MaxTime,          \* bound: clock
          MaxRequests       \* bound: requests of a behaviour

ASSUME OverbookingAssumption ==
    /\ Level \in [Subject -> 1..4]
    /\ Platform \in Subject
    /\ \A s \in Subject : Level[s] = 4 <=> s = Platform
    /\ MaxTime \in Nat
    /\ Period \subseteq [from : 0..MaxTime \cup {None},
                         until : 0..MaxTime \cup {None}]
    /\ \A p \in Period : p.from = None \/ p.until = None \/ p.from < p.until
    /\ None \notin Config
    /\ MaxRequests \in Nat

VARIABLES config,           \* the stored configurations
          worker,           \* the request each session handles, or Idle
          now,              \* the time
          requests,         \* how many requests have begun
          saw               \* history: what was stored when a creation looked

vars == <<config, worker, now, requests, saw>>

Absent == [kind |-> "absent"]
Idle == [kind |-> "idle"]

Time == 0..MaxTime

\* A row, but for its percentages, hours and names.
Row == [kind : {"config"}, subject : Subject, active : BOOLEAN,
        period : Period]

Stored == {c \in Config : config[c] # Absent}

Covers(period, t) ==
    /\ period.from = None \/ period.from <= t
    /\ period.until = None \/ t <= period.until

\* What a search at time t may find for the subjects of s.
InForce(s, t) ==
    {c \in Stored : /\ config[c].active
                    /\ config[c].subject \in s
                    /\ Covers(config[c].period, t)}

\* The subjects a search names: a professional, the platform, and at most one
\* service and one salon.
Named == {s \in SUBSET Subject :
             /\ {2, 4} \subseteq {Level[x] : x \in s}
             /\ \A x, y \in s : Level[x] = Level[y] => x = y}

At(s, level) == {x \in s : Level[x] = level}

Begin(w, session) ==
    /\ requests < MaxRequests
    /\ worker[w].kind \notin {"create", "search"}
    /\ worker' = [worker EXCEPT ![w] = session]
    /\ requests' = requests + 1
    /\ UNCHANGED <<config, now, saw>>

-----------------------------------------------------------------------------
(* Creation.                                                               *)

\* Mutant of Free: only configurations in force keep another one out.
FreeNow(s) == InForce({s}, now) = {}

\* check_conflicts: no configuration of the scope is active, in its period or
\* not.  With one the request is refused, with more it fails.
Free(s) == \A c \in Stored : config[c].subject = s => ~ config[c].active

BeginCreate(w, c, row) ==
    /\ config[c] = Absent
    /\ Free(row.subject)
    /\ Begin(w, [kind |-> "create", id |-> c, row |-> row, known |-> Stored])

\* The INSERT and its commit.
CommitCreate(w) ==
    /\ worker[w].kind = "create"
    /\ config[worker[w].id] = Absent
    /\ config' = [config EXCEPT ![worker[w].id] = worker[w].row]
    /\ saw' = [saw EXCEPT ![worker[w].id] = worker[w].known]
    /\ worker' = [worker EXCEPT ![w] = Idle]
    /\ UNCHANGED <<now, requests>>

Abandon(w) ==
    /\ worker[w].kind \in {"create", "search"}
    /\ worker' = [worker EXCEPT ![w] = Idle]
    /\ UNCHANGED <<config, now, requests, saw>>

-----------------------------------------------------------------------------
(* Search.                                                                 *)

\* The time of the search is taken once, at its start.
BeginSearch(w, s) ==
    Begin(w, [kind |-> "search", about |-> s, at |-> now, level |-> 1,
              known |-> Stored])

\* What the SELECT of the level in hand finds.
Found(me) == InForce(At(me.about, me.level), me.at)

\* Mutant of NextLevel: the search of a level that found nothing ends there
\* for the salon.
NextLevelSkips(level) == IF level = 2 THEN 4 ELSE level + 1

NextLevel(level) == level + 1

\* Nothing at this level: the next one.
GoOn(w) ==
    LET me == worker[w]
    IN  /\ me.kind = "search" /\ me.level < 4
        /\ Found(me) = {}
        /\ worker' = [worker EXCEPT ![w].level = NextLevel(me.level)]
        /\ UNCHANGED <<config, now, requests, saw>>

Answer(me, result) ==
    [kind |-> "answered", about |-> me.about, at |-> me.at, known |-> me.known,
     result |-> result]

\* One configuration at this level, or none at the last: the answer.
Settle(w) ==
    LET me == worker[w]
    IN  /\ me.kind = "search"
        /\ \/ \E c \in Found(me) :
                 /\ Found(me) = {c}
                 /\ worker' = [worker EXCEPT ![w] = Answer(me, c)]
           \/ /\ me.level = 4 /\ Found(me) = {}
              /\ worker' = [worker EXCEPT ![w] = Answer(me, None)]
        /\ UNCHANGED <<config, now, requests, saw>>

\* Several: scalar_one_or_none raises.
Fail(w) ==
    LET me == worker[w]
    IN  /\ me.kind = "search"
        /\ \E c, d \in Found(me) : c # d
        /\ worker' = [worker EXCEPT ![w] = [kind |-> "failed", about |-> me.about]]
        /\ UNCHANGED <<config, now, requests, saw>>

Tick ==
    /\ now < MaxTime
    /\ now' = now + 1
    /\ UNCHANGED <<config, worker, requests, saw>>

-----------------------------------------------------------------------------

Init ==
    /\ config = [c \in Config |-> Absent]
    /\ worker = [w \in Worker |-> Idle]
    /\ now = 0
    /\ requests = 0
    /\ saw = [c \in Config |-> {}]

Next ==
    \/ \E w \in Worker, c \in Config, row \in Row : BeginCreate(w, c, row)
    \/ \E w \in Worker : CommitCreate(w)
    \/ \E w \in Worker : Abandon(w)
    \/ \E w \in Worker, s \in Named : BeginSearch(w, s)
    \/ \E w \in Worker : GoOn(w) \/ Settle(w) \/ Fail(w)
    \/ Tick

Spec == Init /\ [][Next]_vars

-----------------------------------------------------------------------------
(* Properties.                                                             *)

Session ==
    [kind : {"create"}, id : Config, row : Row, known : SUBSET Config]
    \cup [kind : {"search"}, about : SUBSET Subject, at : Time, level : 1..4,
          known : SUBSET Config]
    \cup [kind : {"answered"}, about : SUBSET Subject, at : Time,
          known : SUBSET Config, result : Config \cup {None}]
    \cup [kind : {"failed"}, about : SUBSET Subject]

\* Configurations, sessions and history have their types.
TypeOK ==
    /\ config \in [Config -> Row \cup {Absent}]
    /\ worker \in [Worker -> Session \cup {Idle}]
    /\ now \in Time
    /\ requests \in 0..MaxRequests
    /\ saw \in [Config -> SUBSET Config]

\* "Only one active configuration per scope combination" (routes/overbooking.py,
\* line 52) as far as check_conflicts can hold it: of two active configurations
\* of one scope neither was stored when the other one's creation looked, be they
\* expired or not begun yet.
SecondsWereRaced ==
    \A c, d \in Stored :
        /\ c # d
        /\ config[c].subject = config[d].subject
        /\ config[c].active /\ config[d].active
        => c \notin saw[d]

\* The answer of a search is in force at the time of the search, no other
\* configuration of its subject that was stored when the search began is, and
\* none of a more specific subject; without an answer none was in force at all.
\* What is stored between the SELECTs may be missed, but never misleads them.
AnswersAreMostSpecific ==
    \A w \in Worker : worker[w].kind = "answered" =>
        LET me == worker[w]
            before == InForce(me.about, me.at) \cap me.known
        IN  IF me.result = None
            THEN before = {}
            ELSE /\ me.result \in InForce(me.about, me.at)
                 /\ \A c \in before \ {me.result} :
                       Level[config[me.result].subject] < Level[config[c].subject]

\* A search fails only over two configurations of one subject whose creations
\* overlapped.
FailuresHaveCause ==
    \A w \in Worker : worker[w].kind = "failed" =>
        \E c, d \in Stored :
            /\ c # d
            /\ config[c].subject = config[d].subject
            /\ config[c].subject \in worker[w].about
            /\ c \notin saw[d] /\ d \notin saw[c]
=============================================================================
