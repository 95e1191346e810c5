-------------------------- MODULE OverbookingProofs --------------------------
(***************************************************************************)
(* Proofs about Overbooking, for any number of configurations, subjects    *)
(* and sessions.                                                           *)
(***************************************************************************)
EXTENDS Overbooking, TLAPS

USE DEF Absent, Idle

-----------------------------------------------------------------------------
(* The inductive invariant.                                                *)

\* What a creation saw when it looked, and its row: nothing active of its scope.
CreateSound(me) ==
    /\ me.known \subseteq Stored
    /\ \A c \in me.known :
          config[c].subject = me.row.subject => ~ config[c].active

\* The levels a search has behind it held nothing that was stored when it began.
SearchSound(me) ==
    /\ me.about \in Named
    /\ me.known \subseteq Stored
    /\ \A k \in 1..4 :
          k < me.level => InForce(At(me.about, k), me.at) \cap me.known = {}

AnswerSound(me) ==
    /\ me.known \subseteq Stored
    /\ LET before == InForce(me.about, me.at) \cap me.known
       IN  IF me.result = None
           THEN before = {}
           ELSE /\ me.result \in InForce(me.about, me.at)
                /\ \A c \in before \ {me.result} :
                      Level[config[me.result].subject] < Level[config[c].subject]

FailSound(me) ==
    \E c, d \in Stored :
        /\ c # d
        /\ config[c].subject = config[d].subject
        /\ config[c].subject \in me.about
        /\ c \notin saw[d] /\ d \notin saw[c]

SessionSound(me) ==
    /\ me.kind = "create" => CreateSound(me)
    /\ me.kind = "search" => SearchSound(me)
    /\ me.kind = "answered" => AnswerSound(me)
    /\ me.kind = "failed" => FailSound(me)

\* No stored configuration saw an active one of its scope.
SawFree ==
    \A d \in Stored : \A c \in saw[d] :
        /\ c \in Stored
        /\ config[c].subject = config[d].subject => ~ config[c].active

SessionsSound == \A w \in Worker : SessionSound(worker[w])

IInv ==
    /\ TypeOK
    /\ SawFree
    /\ SessionsSound

-----------------------------------------------------------------------------
(* Stored configurations are never altered.                                *)

RowsStay ==
    \A c \in Stored : /\ config'[c] = config[c]
                      /\ saw'[c] = saw[c]

LEMMA StoredStay ==
    ASSUME RowsStay
    PROVE  Stored \subseteq Stored'
BY DEF RowsStay, Stored

\* What is in force of what was stored stays in force at that time.
LEMMA InForceStays ==
    ASSUME RowsStay, NEW s, NEW t, NEW c \in Stored
    PROVE  c \in InForce(s, t)' <=> c \in InForce(s, t)
<1>1. config'[c] = config[c] /\ c \in Stored'
    BY StoredStay DEF RowsStay
<1> QED
    BY <1>1 DEF InForce

LEMMA SoundStays ==
    ASSUME RowsStay, NEW me, SessionSound(me)
    PROVE  SessionSound(me)'
<1>1. ASSUME CreateSound(me)
      PROVE  CreateSound(me)'
    BY <1>1, StoredStay DEF CreateSound, RowsStay
<1>2. ASSUME SearchSound(me)
      PROVE  SearchSound(me)'
    BY <1>2, StoredStay, InForceStays DEF SearchSound
<1>3. ASSUME AnswerSound(me)
      PROVE  AnswerSound(me)'
  <2>1. me.known \subseteq Stored'
      BY <1>3, StoredStay DEF AnswerSound
  <2>2. InForce(me.about, me.at)' \cap me.known
        = InForce(me.about, me.at) \cap me.known
      BY <1>3, InForceStays DEF AnswerSound
  <2>3. CASE me.result = None
      BY <1>3, <2>1, <2>2, <2>3 DEF AnswerSound
  <2>4. CASE me.result # None
    <3>1. /\ me.result \in InForce(me.about, me.at)
          /\ me.result \in Stored
        BY <1>3, <2>4 DEF AnswerSound, InForce
    <3>2. /\ me.result \in InForce(me.about, me.at)'
          /\ config'[me.result] = config[me.result]
        BY <3>1, InForceStays DEF RowsStay
    <3>3. \A c \in (InForce(me.about, me.at) \cap me.known) \ {me.result} :
             /\ config'[c] = config[c]
             /\ Level[config[me.result].subject] < Level[config[c].subject]
        BY <1>3, <2>4 DEF AnswerSound, RowsStay
    <3> QED
        BY <2>1, <2>2, <2>4, <3>2, <3>3 DEF AnswerSound
  <2> QED BY <2>3, <2>4
<1>4. ASSUME FailSound(me)
      PROVE  FailSound(me)'
  <2>1. PICK c \in Stored, d \in Stored :
           /\ c # d
           /\ config[c].subject = config[d].subject
           /\ config[c].subject \in me.about
           /\ c \notin saw[d] /\ d \notin saw[c]
      BY <1>4 DEF FailSound
  <2>2. c \in Stored' /\ d \in Stored'
      BY StoredStay
  <2>3. /\ config'[c] = config[c] /\ config'[d] = config[d]
        /\ saw'[c] = saw[c] /\ saw'[d] = saw[d]
      BY DEF RowsStay
  <2> QED
      BY <2>1, <2>2, <2>3 DEF FailSound
<1> QED
    BY <1>1, <1>2, <1>3, <1>4 DEF SessionSound

\* A step that alters no stored configuration and gives one session a sound
\* request keeps the sessions sound.
LEMMA SessionStep ==
    ASSUME IInv, RowsStay, NEW w \in Worker, NEW new,
           worker' = [worker EXCEPT ![w] = new], SessionSound(new)'
    PROVE  SessionsSound'
<1> SUFFICES ASSUME NEW o \in Worker
             PROVE  SessionSound(worker[o])'
    BY DEF SessionsSound
<1>1. CASE o = w
  <2>1. worker'[o] = new
      BY <1>1 DEF IInv, TypeOK
  <2> QED
      BY <2>1
<1>2. CASE o # w
  <2>1. PICK me : me = worker[o]
      OBVIOUS
  <2>2. worker'[o] = me
      BY <1>2, <2>1 DEF IInv, TypeOK
  <2>3. SessionSound(me)
      BY <2>1 DEF IInv, SessionsSound
  <2>4. SessionSound(me)'
      BY <2>3, SoundStays
  <2> QED
      BY <2>2, <2>4
<1> QED BY <1>1, <1>2

-----------------------------------------------------------------------------
(* The steps.                                                              *)

\* Typing of a step that alters no table.
LEMMA WorkerTyped ==
    ASSUME TypeOK, NEW w \in Worker, NEW new \in Session \cup {Idle},
           worker' = [worker EXCEPT ![w] = new],
           UNCHANGED <<config, now, saw>>, requests' \in 0..MaxRequests
    PROVE  TypeOK'
BY DEF TypeOK

LEMMA Untouched ==
    ASSUME IInv, UNCHANGED <<config, saw>>
    PROVE  RowsStay /\ SawFree'
BY DEF RowsStay, IInv, SawFree, Stored

LEMMA BeginTyped ==
    ASSUME IInv, NEW w \in Worker, NEW session \in Session, Begin(w, session),
           SessionSound(session)
    PROVE  IInv'
<1>1. /\ worker' = [worker EXCEPT ![w] = session]
      /\ requests' \in 0..MaxRequests
      /\ UNCHANGED <<config, now, saw>>
    BY OverbookingAssumption DEF Begin, IInv, TypeOK
<1>2. TypeOK'
    BY <1>1, WorkerTyped DEF IInv
<1>3. RowsStay /\ SawFree'
    BY <1>1, Untouched
<1>4. SessionSound(session)'
    BY <1>3, SoundStays
<1>5. SessionsSound'
    BY <1>1, <1>3, <1>4, SessionStep
<1> QED
    BY <1>2, <1>3, <1>5 DEF IInv

LEMMA BeginCreateKeeps ==
    ASSUME IInv, NEW w \in Worker, NEW c \in Config, NEW row \in Row,
           BeginCreate(w, c, row)
    PROVE  IInv'
<1> DEFINE session == [kind |-> "create", id |-> c, row |-> row, known |-> Stored]
<1>1. session \in Session
    BY DEF Session, Stored
<1>2. CreateSound(session)
    BY DEF CreateSound, BeginCreate, Free
<1>3. SessionSound(session)
    BY <1>2 DEF SessionSound
<1> QED
    BY <1>1, <1>3, BeginTyped DEF BeginCreate

LEMMA BeginSearchKeeps ==
    ASSUME IInv, NEW w \in Worker, NEW s \in Named, BeginSearch(w, s)
    PROVE  IInv'
<1> DEFINE session == [kind |-> "search", about |-> s, at |-> now, level |-> 1,
                       known |-> Stored]
<1>1. session \in Session
  <2>1. s \in SUBSET Subject /\ now \in Time /\ Stored \in SUBSET Config
      BY DEF Named, IInv, TypeOK, Stored
  <2> QED
      BY <2>1 DEF Session
<1>2. SearchSound(session)
    BY DEF SearchSound
<1>3. SessionSound(session)
    BY <1>2 DEF SessionSound
<1> QED
    BY <1>1, <1>3, BeginTyped DEF BeginSearch

LEMMA CommitCreateKeeps ==
    ASSUME IInv, NEW w \in Worker, CommitCreate(w)
    PROVE  IInv'
<1>1. PICK me : me = worker[w]
    OBVIOUS
<1>2. me \in [kind : {"create"}, id : Config, row : Row, known : SUBSET Config]
  <2>1. me \in Session \cup {Idle} /\ me.kind = "create"
      BY <1>1 DEF CommitCreate, IInv, TypeOK
  <2> QED
      BY <2>1 DEF Session
<1>3. me.row # Absent
    BY <1>2 DEF Row
<1>4. /\ config[me.id] = Absent
      /\ config' = [config EXCEPT ![me.id] = me.row]
      /\ saw' = [saw EXCEPT ![me.id] = me.known]
      /\ worker' = [worker EXCEPT ![w] = Idle]
      /\ UNCHANGED <<now, requests>>
    BY <1>1 DEF CommitCreate
<1>5. TypeOK'
    BY <1>2, <1>4 DEF IInv, TypeOK
<1>6. /\ config'[me.id] = me.row /\ saw'[me.id] = me.known
      /\ \A c \in Config : c # me.id => config'[c] = config[c] /\ saw'[c] = saw[c]
    BY <1>2, <1>4 DEF IInv, TypeOK
<1>7. RowsStay
    BY <1>4, <1>6 DEF RowsStay, Stored
<1>8. Stored' = Stored \cup {me.id} /\ me.id \notin Stored
    BY <1>2, <1>3, <1>4, <1>6 DEF Stored
<1>9. CreateSound(me)
    BY <1>1, <1>2 DEF IInv, SessionsSound, SessionSound
<1>10. SawFree'
  <2> SUFFICES ASSUME NEW d \in Stored', NEW c \in saw'[d]
               PROVE  /\ c \in Stored'
                      /\ config'[c].subject = config'[d].subject
                         => ~ config'[c].active
      BY DEF SawFree
  <2>1. CASE d = me.id
    <3>1. c \in Stored /\ (config[c].subject = me.row.subject => ~ config[c].active)
        BY <2>1, <1>6, <1>9 DEF CreateSound
    <3>2. config'[c] = config[c]
        BY <3>1, <1>7 DEF RowsStay
    <3> QED
        BY <2>1, <3>1, <3>2, <1>6, <1>8
  <2>2. CASE d # me.id
    <3>1. d \in Stored /\ saw'[d] = saw[d] /\ config'[d] = config[d]
        BY <2>2, <1>7, <1>8 DEF RowsStay
    <3>2. c \in Stored /\ (config[c].subject = config[d].subject => ~ config[c].active)
        BY <3>1 DEF IInv, SawFree
    <3>3. config'[c] = config[c]
        BY <3>2, <1>7 DEF RowsStay
    <3> QED
        BY <3>1, <3>2, <3>3, <1>8
  <2> QED BY <2>1, <2>2
<1>11. SessionSound(Idle)'
    BY DEF SessionSound
<1>12. SessionsSound'
    BY <1>4, <1>7, <1>11, SessionStep
<1> QED
    BY <1>5, <1>10, <1>12 DEF IInv

\* What the SELECTs and the end of a request have in common.
LEMMA ReadStep ==
    ASSUME IInv, NEW w \in Worker, NEW new \in Session \cup {Idle},
           worker' = [worker EXCEPT ![w] = new],
           UNCHANGED <<config, now, requests, saw>>, SessionSound(new)
    PROVE  IInv'
<1>1. RowsStay /\ SawFree'
    BY Untouched
<1>2. SessionSound(new)'
    BY <1>1, SoundStays
<1>3. SessionsSound'
    BY <1>1, <1>2, SessionStep
<1>4. TypeOK'
    BY WorkerTyped DEF IInv, TypeOK
<1> QED
    BY <1>1, <1>3, <1>4 DEF IInv

LEMMA AbandonKeeps ==
    ASSUME IInv, NEW w \in Worker, Abandon(w)
    PROVE  IInv'
<1>1. SessionSound(Idle)
    BY DEF SessionSound
<1> QED
    BY <1>1, ReadStep DEF Abandon

LEMMA Searching ==
    ASSUME IInv, NEW w \in Worker, worker[w].kind = "search"
    PROVE  /\ worker[w] \in [kind : {"search"}, about : SUBSET Subject, at : Time,
                             level : 1..4, known : SUBSET Config]
           /\ SearchSound(worker[w])
<1>1. worker[w] \in Session \cup {Idle}
    BY DEF IInv, TypeOK
<1>2. SearchSound(worker[w])
    BY DEF IInv, SessionsSound, SessionSound
<1> QED
    BY <1>1, <1>2 DEF Session

LEMMA GoOnKeeps ==
    ASSUME IInv, NEW w \in Worker, GoOn(w)
    PROVE  IInv'
<1>1. PICK me : me = worker[w]
    OBVIOUS
<1>2. /\ me \in [kind : {"search"}, about : SUBSET Subject, at : Time,
                 level : 1..4, known : SUBSET Config]
      /\ SearchSound(me)
    BY <1>1, Searching DEF GoOn
<1>3. PICK new : new = [me EXCEPT !.level = NextLevel(me.level)]
    OBVIOUS
<1>4. /\ new \in Session
      /\ new.kind = "search" /\ new.about = me.about /\ new.at = me.at
      /\ new.known = me.known /\ new.level = me.level + 1
    BY <1>1, <1>2, <1>3 DEF GoOn, NextLevel, Session
<1>5. InForce(At(me.about, me.level), me.at) = {}
    BY <1>1 DEF GoOn, Found
<1>6. \A k \in 1..4 : k < new.level => k < me.level \/ k = me.level
    BY <1>2, <1>4
<1>7. SearchSound(new)
    BY <1>2, <1>4, <1>5, <1>6 DEF SearchSound
<1>8. SessionSound(new)
    BY <1>4, <1>7 DEF SessionSound
<1>9. worker' = [worker EXCEPT ![w] = new] /\ UNCHANGED <<config, now, requests, saw>>
    BY <1>1, <1>3 DEF GoOn
<1> QED
    BY <1>4, <1>8, <1>9, ReadStep

\* A configuration in force for a search is so at the level of its subject.
LEMMA AtItsLevel ==
    ASSUME IInv, NEW me, me.about \in Named,
           NEW c \in InForce(me.about, me.at)
    PROVE  /\ c \in Stored
           /\ config[c].subject \in Subject
           /\ Level[config[c].subject] \in 1..4
           /\ c \in InForce(At(me.about, Level[config[c].subject]), me.at)
<1>1. c \in Stored /\ config[c].subject \in me.about
    BY DEF InForce
<1>2. config[c].subject \in Subject
    BY <1>1 DEF Named
<1>3. Level[config[c].subject] \in 1..4
    BY <1>2, OverbookingAssumption
<1>4. config[c].subject \in At(me.about, Level[config[c].subject])
    BY <1>1 DEF At
<1>5. c \in InForce(At(me.about, Level[config[c].subject]), me.at)
    BY <1>1, <1>4 DEF InForce
<1> QED
    BY <1>1, <1>2, <1>3, <1>5

LEMMA SettleKeeps ==
    ASSUME IInv, NEW w \in Worker, Settle(w)
    PROVE  IInv'
<1>1. PICK me : me = worker[w]
    OBVIOUS
<1>2. /\ me \in [kind : {"search"}, about : SUBSET Subject, at : Time,
                 level : 1..4, known : SUBSET Config]
      /\ SearchSound(me)
    BY <1>1, Searching DEF Settle
<1>3. ASSUME NEW result \in Config \cup {None},
             worker' = [worker EXCEPT ![w] = Answer(me, result)],
             AnswerSound(Answer(me, result))
      PROVE  IInv'
  <2>1. PICK new : new = Answer(me, result)
      OBVIOUS
  <2>2. new \in Session /\ new.kind = "answered"
      BY <1>2, <2>1 DEF Answer, Session
  <2>3. SessionSound(new)
      BY <1>3, <2>1, <2>2 DEF SessionSound
  <2>4. UNCHANGED <<config, now, requests, saw>>
      BY DEF Settle
  <2> QED
      BY <1>3, <2>1, <2>2, <2>3, <2>4, ReadStep
<1>4. ASSUME NEW c \in InForce(me.about, me.at) \cap me.known
      PROVE  me.level <= Level[config[c].subject]
  <2>1. /\ Level[config[c].subject] \in 1..4
        /\ c \in InForce(At(me.about, Level[config[c].subject]), me.at)
      BY <1>2, AtItsLevel DEF SearchSound
  <2> QED
      BY <1>2, <2>1 DEF SearchSound
<1>5. CASE \E c \in Found(me) :
              /\ Found(me) = {c}
              /\ worker' = [worker EXCEPT ![w] = Answer(me, c)]
  <2>1. PICK c \in Found(me) :
              /\ Found(me) = {c}
              /\ worker' = [worker EXCEPT ![w] = Answer(me, c)]
      BY <1>5
  <2>2. /\ c \in Stored /\ c \in InForce(me.about, me.at)
        /\ Level[config[c].subject] = me.level
      BY <2>1 DEF Found, InForce, At
  <2>3. c \in Config /\ c # None
      BY <2>2, OverbookingAssumption DEF Stored
  <2>4. \A d \in (InForce(me.about, me.at) \cap me.known) \ {c} :
           Level[config[c].subject] < Level[config[d].subject]
    <3> TAKE d \in (InForce(me.about, me.at) \cap me.known) \ {c}
    <3>1. /\ Level[config[d].subject] \in 1..4
          /\ d \in InForce(At(me.about, Level[config[d].subject]), me.at)
        BY <1>2, AtItsLevel DEF SearchSound
    <3>2. Level[config[d].subject] # me.level
        BY <3>1, <2>1 DEF Found
    <3> QED
        BY <1>2, <1>4, <2>2, <3>1, <3>2
  <2>5. PICK new : new = Answer(me, c)
      OBVIOUS
  <2>6. new.known = me.known /\ new.about = me.about /\ new.at = me.at /\ new.result = c
      BY <2>5 DEF Answer
  <2>7. AnswerSound(new)
      BY <1>2, <2>2, <2>3, <2>4, <2>6 DEF AnswerSound, SearchSound
  <2> QED
      BY <1>3, <2>1, <2>3, <2>5, <2>7
<1>6. CASE /\ me.level = 4 /\ Found(me) = {}
           /\ worker' = [worker EXCEPT ![w] = Answer(me, None)]
  <2>1. InForce(me.about, me.at) \cap me.known = {}
    <3> SUFFICES ASSUME NEW d \in InForce(me.about, me.at) \cap me.known
                 PROVE  FALSE
        OBVIOUS
    <3>1. /\ Level[config[d].subject] \in 1..4
          /\ d \in InForce(At(me.about, Level[config[d].subject]), me.at)
        BY <1>2, AtItsLevel DEF SearchSound
    <3>2. Level[config[d].subject] = me.level
        BY <1>4, <1>6, <3>1
    <3> QED
        BY <1>6, <3>1, <3>2 DEF Found
  <2>2. PICK new : new = Answer(me, None)
      OBVIOUS
  <2>3. /\ new.known = me.known /\ new.about = me.about /\ new.at = me.at
        /\ new.result = None
      BY <2>2 DEF Answer
  <2>4. AnswerSound(new)
      BY <1>2, <2>1, <2>3 DEF AnswerSound, SearchSound
  <2> QED
      BY <1>3, <1>6, <2>2, <2>4
<1> QED
    BY <1>1, <1>5, <1>6 DEF Settle

LEMMA FailKeeps ==
    ASSUME IInv, NEW w \in Worker, Fail(w)
    PROVE  IInv'
<1>1. PICK me : me = worker[w]
    OBVIOUS
<1>2. /\ me \in [kind : {"search"}, about : SUBSET Subject, at : Time,
                 level : 1..4, known : SUBSET Config]
      /\ SearchSound(me)
    BY <1>1, Searching DEF Fail
<1>3. PICK c \in Found(me), d \in Found(me) : c # d
    BY <1>1 DEF Fail
<1>4. /\ c \in Stored /\ d \in Stored
      /\ config[c].active /\ config[d].active
      /\ config[c].subject \in At(me.about, me.level)
      /\ config[d].subject \in At(me.about, me.level)
    BY <1>3 DEF Found, InForce
<1>5. config[c].subject = config[d].subject /\ config[c].subject \in me.about
    BY <1>2, <1>4 DEF At, SearchSound, Named
<1>6. c \notin saw[d] /\ d \notin saw[c]
    BY <1>4, <1>5 DEF IInv, SawFree
<1>7. PICK new : new = [kind |-> "failed", about |-> me.about]
    OBVIOUS
<1>8. FailSound(new)
    BY <1>3, <1>4, <1>5, <1>6, <1>7 DEF FailSound
<1>9. new \in Session /\ SessionSound(new)
    BY <1>2, <1>7, <1>8 DEF Session, SessionSound
<1>10. worker' = [worker EXCEPT ![w] = new] /\ UNCHANGED <<config, now, requests, saw>>
    BY <1>1, <1>7 DEF Fail
<1> QED
    BY <1>9, <1>10, ReadStep

LEMMA RestKeeps ==
    ASSUME IInv, UNCHANGED <<config, worker, requests, saw>>, now' \in Time
    PROVE  IInv'
<1>1. RowsStay /\ SawFree'
    BY Untouched
<1>2. TypeOK'
    BY DEF IInv, TypeOK
<1>3. SessionsSound'
  <2> SUFFICES ASSUME NEW o \in Worker
               PROVE  SessionSound(worker[o])'
      BY DEF SessionsSound
  <2>1. PICK me : me = worker[o]
      OBVIOUS
  <2>2. SessionSound(me)
      BY <2>1 DEF IInv, SessionsSound
  <2>3. SessionSound(me)'
      BY <1>1, <2>2, SoundStays
  <2> QED
      BY <2>1, <2>3
<1> QED
    BY <1>1, <1>2, <1>3 DEF IInv

LEMMA InitHolds == Init => IInv
<1> SUFFICES ASSUME Init
             PROVE  IInv
    OBVIOUS
<1>1. TypeOK
    BY OverbookingAssumption DEF Init, TypeOK, Time
<1>2. Stored = {}
    BY DEF Init, Stored
<1>3. SawFree /\ SessionsSound
    BY <1>2 DEF Init, SawFree, SessionsSound, SessionSound
<1> QED
    BY <1>1, <1>3 DEF IInv

LEMMA StepHolds == IInv /\ [Next]_vars => IInv'
<1> SUFFICES ASSUME IInv, [Next]_vars
             PROVE  IInv'
    OBVIOUS
<1>1. CASE Tick
  <2>1. now' \in Time
      BY <1>1, OverbookingAssumption DEF Tick, IInv, TypeOK, Time
  <2> QED
      BY <1>1, <2>1, RestKeeps DEF Tick
<1>2. CASE UNCHANGED vars
    BY <1>2, RestKeeps DEF vars, IInv, TypeOK
<1> QED
    BY <1>1, <1>2, BeginCreateKeeps, CommitCreateKeeps, AbandonKeeps,
       BeginSearchKeeps, GoOnKeeps, SettleKeeps, FailKeeps DEF Next

-----------------------------------------------------------------------------
(* Theorems.                                                               *)

\* The inductive invariant holds in every reachable state.
THEOREM Invariance == Spec => []IInv
<1>1. Init => IInv
    BY InitHolds
<1>2. IInv /\ [Next]_vars => IInv'
    BY StepHolds
<1> QED
    BY <1>1, <1>2, PTL DEF Spec

\* Configurations, sessions and history keep their types.
THEOREM TypeCorrect == Spec => []TypeOK
<1>1. IInv => TypeOK
    BY DEF IInv
<1> QED
    BY <1>1, Invariance, PTL

\* Two active configurations of one scope come of creations that overlapped.
THEOREM OnlyRacesDouble == Spec => []SecondsWereRaced
<1>1. IInv => SecondsWereRaced
    BY DEF IInv, SawFree, SecondsWereRaced
<1> QED
    BY <1>1, Invariance, PTL

\* An answer is the most specific configuration in force.
THEOREM MostSpecific == Spec => []AnswersAreMostSpecific
<1>1. IInv => AnswersAreMostSpecific
    BY DEF IInv, SessionsSound, SessionSound, AnswerSound, AnswersAreMostSpecific
<1> QED
    BY <1>1, Invariance, PTL

\* A search fails only over creations that overlapped.
THEOREM FailuresExplained == Spec => []FailuresHaveCause
<1>1. IInv => FailuresHaveCause
    BY DEF IInv, SessionsSound, SessionSound, FailSound, FailuresHaveCause
<1> QED
    BY <1>1, Invariance, PTL
=============================================================================
