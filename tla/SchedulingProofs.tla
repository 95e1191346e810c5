-------------------------- MODULE SchedulingProofs --------------------------
(***************************************************************************)
(* Proofs about Catalogue and Slots, for any number of services, people,   *)
(* professionals, bookings and sessions, and for any hours.                *)
(***************************************************************************)
EXTENDS Slots, TLAPS

-----------------------------------------------------------------------------
(* The inductive invariant.                                                *)

\* What a session handles is stored.
RowsExist ==
    \A e \in Editor :
        /\ editor[e].kind \in {"patch", "retire"}
           => service[editor[e].id] # Absent
        /\ editor[e].kind = "profile" => profile[editor[e].id] # Absent

\* A session that is to store a deposit percentage also sets
\* requires_deposit, or leaves the one it found.
AsksForDeposit ==
    \A e \in Editor :
        editor[e].kind = "patch" /\ Deposits(editor[e].ask.percent)
        => \/ editor[e].ask.deposit = TRUE
           \/ editor[e].ask.deposit = None /\ editor[e].loaded.deposit = TRUE

\* requires_deposit, once loaded as true, is still so unless it was waived.
LoadedDepositHolds ==
    \A e \in Editor :
        editor[e].kind = "patch" /\ editor[e].loaded.deposit = TRUE
        => \/ service[editor[e].id].deposit = TRUE
           \/ editor[e].id \in waived

CatalogueInv ==
    /\ CatalogueTypeOK
    /\ RowsExist
    /\ AsksForDeposit
    /\ LoadedDepositHolds
    /\ DepositsAreRequired
    /\ OneProfileEach

-----------------------------------------------------------------------------
(* Types.                                                                  *)

USE DEF Absent, Idle

\* A Begin keeps the types of the catalogue.
LEMMA BeginTyped ==
    ASSUME CatalogueTypeOK, NEW e \in Editor, NEW session \in Session, Begin(e, session)
    PROVE  CatalogueTypeOK'
<1>1. edits' \in 0..MaxEdits
    BY CatalogueAssumption DEF CatalogueTypeOK, Begin
<1>2. editor' \in [Editor -> Session \cup {Idle}]
    BY DEF CatalogueTypeOK, Begin
<1>3. UNCHANGED <<service, profile, waived>>
    BY DEF Begin
<1> QED
    BY <1>1, <1>2, <1>3 DEF CatalogueTypeOK

\* So does a Finish, when the rows do.
LEMMA FinishTyped ==
    ASSUME CatalogueTypeOK, NEW e \in Editor, Finish(e),
           service' \in [Service -> ServiceRow \cup {Absent}],
           profile' \in [Profile -> ProfileRow \cup {Absent}],
           waived' \subseteq Service
    PROVE  CatalogueTypeOK'
<1>1. edits' \in 0..MaxEdits
    BY DEF CatalogueTypeOK, Finish
<1>2. editor' \in [Editor -> Session \cup {Idle}]
    BY DEF CatalogueTypeOK, Finish
<1> QED
    BY <1>1, <1>2 DEF CatalogueTypeOK

\* What a session is when it handles a request of one kind.
LEMMA Kinds ==
    ASSUME CatalogueTypeOK, NEW e \in Editor
    PROVE  /\ Handles(e, "patch") => editor[e] \in
                 [kind : {"patch"}, id : Service, loaded : ServiceRow,
                  ask : ServicePatch]
           /\ Handles(e, "retire") => editor[e] \in
                 [kind : {"retire"}, id : Service, loaded : ServiceRow]
           /\ Handles(e, "hire") => editor[e] \in
                 [kind : {"hire"}, id : Profile, row : ProfileRow]
           /\ Handles(e, "profile") => editor[e] \in
                 [kind : {"profile"}, id : Profile, loaded : ProfileRow,
                  ask : ProfilePatch]
<1>1. editor[e] \in Session \cup {Idle}
    BY DEF CatalogueTypeOK
<1> QED
    BY <1>1 DEF Session, Handles

\* A row is absent or a row of its table.
LEMMA Rows ==
    ASSUME CatalogueTypeOK
    PROVE  /\ \A s \in Service : service[s] # Absent => service[s] \in ServiceRow
           /\ \A p \in Profile : profile[p] # Absent => profile[p] \in ProfileRow
BY DEF CatalogueTypeOK

\* A commit of a PATCH stores a row of the table.
LEMMA PatchedServiceTyped ==
    ASSUME NEW row \in ServiceRow, NEW loaded \in ServiceRow,
           NEW ask \in ServicePatch
    PROVE  PatchedService(row, loaded, ask) \in ServiceRow
<1>1. Assigned(ask.duration, loaded.duration, row.duration) \in Duration
    BY DEF Assigned, ServiceRow, ServicePatch
<1>2. Assigned(ask.percent, loaded.percent, row.percent) \in Percent \cup {None}
    BY DEF Assigned, ServiceRow, ServicePatch
<1>3. Assigned(ask.deposit, loaded.deposit, row.deposit) \in BOOLEAN
    BY Zenon DEF Assigned, ServiceRow, ServicePatch
<1> QED
    BY <1>1, <1>2, <1>3 DEF ServiceRow, PatchedService

LEMMA PatchedProfileTyped ==
    ASSUME NEW row \in ProfileRow, NEW loaded \in ProfileRow,
           NEW ask \in ProfilePatch
    PROVE  PatchedProfile(row, loaded, ask) \in ProfileRow
<1>1. Assigned(ask.commission, loaded.commission, row.commission) \in Commission
    BY DEF Assigned, ProfileRow, ProfilePatch
<1>2. Assigned(ask.active, loaded.active, row.active) \in BOOLEAN
    BY Zenon DEF Assigned, ProfileRow, ProfilePatch
<1> QED
    BY <1>1, <1>2 DEF ProfileRow, PatchedProfile

-----------------------------------------------------------------------------
(* Steps of the catalogue.                                                 *)

\* What a Begin must say of its session for the invariant to hold.
SoundSession(session) ==
    /\ session.kind \in {"patch", "retire"} => service[session.id] # Absent
    /\ session.kind = "profile" => profile[session.id] # Absent
    /\ session.kind = "patch" =>
          /\ Deposits(session.ask.percent)
             => \/ session.ask.deposit = TRUE
                \/ session.ask.deposit = None /\ session.loaded.deposit = TRUE
          /\ session.loaded = service[session.id]

LEMMA BeginKeeps ==
    ASSUME CatalogueInv, NEW e \in Editor, NEW session \in Session,
           SoundSession(session), Begin(e, session)
    PROVE  CatalogueInv'
<1>1. CatalogueTypeOK'
    BY BeginTyped DEF CatalogueInv
<1>2. UNCHANGED <<service, profile, waived>>
    BY DEF Begin
<1>3. /\ editor'[e] = session
      /\ \A o \in Editor : o # e => editor'[o] = editor[o]
    BY DEF Begin, CatalogueInv, CatalogueTypeOK
<1>4. RowsExist'
  <2> SUFFICES ASSUME NEW o \in Editor
               PROVE  /\ editor'[o].kind \in {"patch", "retire"}
                         => service[editor'[o].id] # Absent
                      /\ editor'[o].kind = "profile"
                         => profile[editor'[o].id] # Absent
      BY <1>2 DEF RowsExist
  <2>1. CASE o = e
      BY <2>1, <1>3 DEF SoundSession
  <2>2. CASE o # e
      BY <2>2, <1>3 DEF CatalogueInv, RowsExist
  <2> QED BY <2>1, <2>2
<1>5. AsksForDeposit'
  <2> SUFFICES ASSUME NEW o \in Editor, editor'[o].kind = "patch",
                      Deposits(editor'[o].ask.percent)
               PROVE  \/ editor'[o].ask.deposit = TRUE
                      \/ /\ editor'[o].ask.deposit = None
                         /\ editor'[o].loaded.deposit = TRUE
      BY DEF AsksForDeposit
  <2>1. CASE o = e
      BY <2>1, <1>3 DEF SoundSession
  <2>2. CASE o # e
      BY <2>2, <1>3 DEF CatalogueInv, AsksForDeposit
  <2> QED BY <2>1, <2>2
<1>6. LoadedDepositHolds'
  <2> SUFFICES ASSUME NEW o \in Editor, editor'[o].kind = "patch",
                      editor'[o].loaded.deposit = TRUE
               PROVE  \/ service[editor'[o].id].deposit = TRUE
                      \/ editor'[o].id \in waived
      BY <1>2 DEF LoadedDepositHolds
  <2>1. CASE o = e
      BY <2>1, <1>3 DEF SoundSession
  <2>2. CASE o # e
      BY <2>2, <1>3 DEF CatalogueInv, LoadedDepositHolds
  <2> QED BY <2>1, <2>2
<1>7. DepositsAreRequired' /\ OneProfileEach'
    BY <1>2 DEF CatalogueInv, DepositsAreRequired, OneProfileEach
<1> QED
    BY <1>1, <1>4, <1>5, <1>6, <1>7 DEF CatalogueInv

\* A Finish needs the rows to stay, deposits not to be given up but by a
\* waiver, and the two properties of the rows.
RowsKept ==
    /\ \A s \in Service : service[s] # Absent =>
          /\ service'[s] # Absent
          /\ service[s].deposit = TRUE
             => service'[s].deposit = TRUE \/ s \in waived'
    /\ \A p \in Profile : profile[p] # Absent => profile'[p] # Absent
    /\ waived \subseteq waived'

LEMMA FinishKeeps ==
    ASSUME CatalogueInv, NEW e \in Editor, Finish(e), RowsKept,
           service' \in [Service -> ServiceRow \cup {Absent}],
           profile' \in [Profile -> ProfileRow \cup {Absent}],
           waived' \subseteq Service,
           DepositsAreRequired', OneProfileEach'
    PROVE  CatalogueInv'
<1>1. CatalogueTypeOK'
    BY FinishTyped DEF CatalogueInv
<1>2. /\ editor'[e] = Idle
      /\ \A o \in Editor : o # e => editor'[o] = editor[o]
    BY DEF Finish, CatalogueInv, CatalogueTypeOK
<1>3. \A o \in Editor :
         /\ Handles(o, "patch") => editor[o].id \in Service
         /\ Handles(o, "retire") => editor[o].id \in Service
         /\ Handles(o, "profile") => editor[o].id \in Profile
    BY Kinds DEF CatalogueInv
<1>4. RowsExist'
  <2> SUFFICES ASSUME NEW o \in Editor, o # e
               PROVE  /\ editor[o].kind \in {"patch", "retire"}
                         => service'[editor[o].id] # Absent
                      /\ editor[o].kind = "profile"
                         => profile'[editor[o].id] # Absent
      BY <1>2 DEF RowsExist
  <2> QED
      BY <1>3 DEF RowsKept, CatalogueInv, RowsExist, Handles
<1>5. AsksForDeposit'
    BY <1>2 DEF CatalogueInv, AsksForDeposit
<1>6. LoadedDepositHolds'
  <2> SUFFICES ASSUME NEW o \in Editor, editor'[o].kind = "patch",
                      editor'[o].loaded.deposit = TRUE
               PROVE  \/ service'[editor'[o].id].deposit = TRUE
                      \/ editor'[o].id \in waived'
      BY DEF LoadedDepositHolds
  <2>0. o # e /\ editor'[o] = editor[o]
      BY <1>2
  <2>1. editor[o].id \in Service /\ service[editor[o].id] # Absent
      BY <2>0, <1>3 DEF CatalogueInv, RowsExist, Handles
  <2>2. service[editor[o].id].deposit = TRUE \/ editor[o].id \in waived
      BY <2>0 DEF CatalogueInv, LoadedDepositHolds
  <2> QED
      BY <2>0, <2>1, <2>2 DEF RowsKept
<1> QED
    BY <1>1, <1>4, <1>5, <1>6 DEF CatalogueInv

LEMMA CreateServiceKeeps ==
    ASSUME CatalogueInv, NEW s \in Service, NEW d \in Duration,
           NEW deposit \in BOOLEAN, NEW percent \in Percent \cup {None},
           CreateService(s, d, deposit, percent)
    PROVE  CatalogueInv'
<1> DEFINE kept == IF Deposits(percent) THEN percent ELSE None
           row  == [kind |-> "service", duration |-> d, active |-> TRUE,
                    deposit |-> deposit, percent |-> kept]
<1>1. kept \in Percent \cup {None} /\ (Deposits(kept) => deposit)
    BY DEF CreateService, Deposits
<1>2. row \in ServiceRow /\ row # Absent
    BY <1>1 DEF ServiceRow
<1>3. /\ service[s] = Absent
      /\ service' = [service EXCEPT ![s] = row]
      /\ edits' \in 0..MaxEdits
      /\ UNCHANGED <<profile, editor, waived>>
    BY CatalogueAssumption DEF CreateService, CatalogueInv, CatalogueTypeOK
<1> HIDE DEF row
<1>4. /\ service'[s] = row
      /\ \A t \in Service : t # s => service'[t] = service[t]
    BY <1>3 DEF CatalogueInv, CatalogueTypeOK
<1>5. CatalogueTypeOK'
    BY <1>2, <1>3 DEF CatalogueInv, CatalogueTypeOK
<1>6. RowsExist'
    BY <1>2, <1>3, <1>4 DEF CatalogueInv, CatalogueTypeOK, RowsExist, Session
<1>7. AsksForDeposit'
    BY <1>3 DEF CatalogueInv, AsksForDeposit
<1>8. LoadedDepositHolds'
  <2> SUFFICES ASSUME NEW o \in Editor, editor[o].kind = "patch",
                      editor[o].loaded.deposit = TRUE
               PROVE  \/ service'[editor[o].id].deposit = TRUE
                      \/ editor[o].id \in waived
      BY <1>3 DEF LoadedDepositHolds
  <2>1. editor[o].id \in Service /\ editor[o].id # s
      BY <1>3, Kinds DEF CatalogueInv, RowsExist, Handles
  <2> QED
      BY <2>1, <1>4 DEF CatalogueInv, LoadedDepositHolds
<1>9. DepositsAreRequired'
  <2> SUFFICES ASSUME NEW t \in Service, service'[t] # Absent,
                      Deposits(service'[t].percent)
               PROVE  service'[t].deposit \/ t \in waived
      BY <1>3 DEF DepositsAreRequired
  <2>1. CASE t = s
    <3>1. service'[t].percent = kept /\ service'[t].deposit = deposit
        BY <2>1, <1>4 DEF row
    <3> QED
        BY <3>1, <1>1, Zenon
  <2>2. CASE t # s
      BY <2>2, <1>4 DEF CatalogueInv, DepositsAreRequired
  <2> QED BY <2>1, <2>2
<1>10. OneProfileEach'
    BY <1>3 DEF CatalogueInv, OneProfileEach
<1> QED
    BY <1>5, <1>6, <1>7, <1>8, <1>9, <1>10 DEF CatalogueInv

LEMMA BeginPatchServiceKeeps ==
    ASSUME CatalogueInv, NEW e \in Editor, NEW s \in Service,
           NEW ask \in ServicePatch, BeginPatchService(e, s, ask)
    PROVE  CatalogueInv'
<1> DEFINE session == [kind |-> "patch", id |-> s, loaded |-> service[s],
                       ask |-> ask]
<1>1. service[s] # Absent /\ Begin(e, session)
    BY DEF BeginPatchService
<1>2. session \in Session
    BY <1>1, Rows DEF CatalogueInv, Session
<1>3. Deposits(ask.percent)
      => ask.deposit = TRUE \/ (ask.deposit = None /\ service[s].deposit = TRUE)
  <2> SUFFICES ASSUME Deposits(ask.percent)
               PROVE  \/ ask.deposit = TRUE
                      \/ ask.deposit = None /\ service[s].deposit = TRUE
      OBVIOUS
  <2>1. IF ask.deposit # None THEN ask.deposit ELSE service[s].deposit
      BY DEF BeginPatchService
  <2>2. ask.deposit \in BOOLEAN \cup {None}
      BY DEF ServicePatch
  <2>3. service[s].deposit \in BOOLEAN
      BY <1>1, Rows DEF CatalogueInv, ServiceRow
  <2> QED
      BY <2>1, <2>2, <2>3, Zenon
<1>4. SoundSession(session)
    BY <1>1, <1>3 DEF SoundSession
<1> QED
    BY <1>1, <1>2, <1>4, BeginKeeps

LEMMA CommitPatchServiceKeeps ==
    ASSUME CatalogueInv, NEW e \in Editor, CommitPatchService(e)
    PROVE  CatalogueInv'
<1>1. PICK me : me = editor[e]
    OBVIOUS
<1>2. me \in [kind : {"patch"}, id : Service, loaded : ServiceRow,
              ask : ServicePatch]
    BY <1>1, Kinds DEF CommitPatchService, CatalogueInv
<1>3. PICK s : s = me.id
    OBVIOUS
<1>4. PICK old : old = service[s]
    OBVIOUS
<1>5. s \in Service /\ old # Absent /\ old \in ServiceRow
    BY <1>1, <1>2, <1>3, <1>4, Rows
    DEF CatalogueInv, RowsExist, CommitPatchService, Handles
<1>6. PICK row : row = PatchedService(old, me.loaded, me.ask)
    OBVIOUS
<1>7. row \in ServiceRow /\ row # Absent
  <2>1. row \in ServiceRow
      BY <1>2, <1>5, <1>6, PatchedServiceTyped
  <2> QED
      BY <2>1 DEF ServiceRow
<1>8. /\ row.deposit = Assigned(me.ask.deposit, me.loaded.deposit, old.deposit)
      /\ row.percent = Assigned(me.ask.percent, me.loaded.percent, old.percent)
    BY <1>5, <1>6 DEF ServiceRow, PatchedService
<1>9. /\ service' = [service EXCEPT ![s] = row]
      /\ waived' = IF me.ask.deposit = FALSE THEN waived \cup {s} ELSE waived
      /\ Finish(e)
      /\ UNCHANGED profile
    BY <1>1, <1>3, <1>4, <1>6 DEF CommitPatchService
<1>10. /\ service' \in [Service -> ServiceRow \cup {Absent}]
       /\ profile' \in [Profile -> ProfileRow \cup {Absent}]
       /\ waived' \subseteq Service
    BY <1>5, <1>7, <1>9 DEF CatalogueInv, CatalogueTypeOK
<1>11. /\ service'[s] = row
       /\ \A t \in Service : t # s => service'[t] = service[t]
    BY <1>5, <1>9 DEF CatalogueInv, CatalogueTypeOK
<1>12. old.deposit = TRUE => row.deposit = TRUE \/ s \in waived'
  <2> SUFFICES ASSUME old.deposit = TRUE, me.ask.deposit # FALSE
               PROVE  row.deposit = TRUE
      BY <1>9
  <2>1. me.ask.deposit = TRUE \/ me.ask.deposit = None
      BY <1>2 DEF ServicePatch
  <2> QED
      BY <2>1, <1>8 DEF Assigned
<1>13. RowsKept
    BY <1>4, <1>7, <1>9, <1>11, <1>12 DEF RowsKept
<1>14. Deposits(row.percent) => row.deposit = TRUE \/ s \in waived'
  <2> SUFFICES ASSUME Deposits(row.percent), s \notin waived'
               PROVE  row.deposit = TRUE
      OBVIOUS
  <2>1. CASE Deposits(old.percent)
    <3>1. old.deposit = TRUE
        BY <2>1, <1>4, <1>5, <1>9 DEF CatalogueInv, DepositsAreRequired, ServiceRow
    <3> QED
        BY <3>1, <1>12
  <2>2. CASE ~ Deposits(old.percent)
    <3>1. Deposits(me.ask.percent)
        BY <2>2, <1>8 DEF Assigned, Deposits
    <3>2. \/ me.ask.deposit = TRUE
          \/ me.ask.deposit = None /\ me.loaded.deposit = TRUE
        BY <3>1, <1>1, <1>2 DEF CatalogueInv, AsksForDeposit
    <3>3. me.loaded.deposit = TRUE => old.deposit = TRUE
        BY <1>1, <1>2, <1>3, <1>4, <1>9 DEF CatalogueInv, LoadedDepositHolds
    <3>4. CASE me.loaded.deposit = TRUE
        BY <3>3, <3>4, <1>12
    <3>5. CASE me.ask.deposit = TRUE /\ me.loaded.deposit # TRUE
      <4>1. me.ask.deposit # None
          BY <3>5, CatalogueAssumption
      <4> QED
          BY <3>5, <4>1, <1>8 DEF Assigned
    <3> QED BY <3>2, <3>4, <3>5
  <2> QED BY <2>1, <2>2
<1>15. DepositsAreRequired'
  <2> SUFFICES ASSUME NEW t \in Service, service'[t] # Absent,
                      Deposits(service'[t].percent)
               PROVE  service'[t].deposit = TRUE \/ t \in waived'
      BY DEF DepositsAreRequired
  <2>1. CASE t = s
      BY <2>1, <1>11, <1>14
  <2>2. CASE t # s
      BY <2>2, <1>9, <1>10, <1>11
      DEF CatalogueInv, CatalogueTypeOK, DepositsAreRequired, ServiceRow
  <2> QED BY <2>1, <2>2
<1>16. OneProfileEach'
    BY <1>9 DEF CatalogueInv, OneProfileEach
<1> QED
    BY <1>9, <1>10, <1>13, <1>15, <1>16, FinishKeeps

LEMMA BeginRetireKeeps ==
    ASSUME CatalogueInv, NEW e \in Editor, NEW s \in Service, BeginRetire(e, s)
    PROVE  CatalogueInv'
<1> DEFINE session == [kind |-> "retire", id |-> s, loaded |-> service[s]]
<1>1. service[s] # Absent /\ Begin(e, session)
    BY DEF BeginRetire
<1>2. session \in Session
    BY <1>1, Rows DEF CatalogueInv, Session
<1>3. SoundSession(session)
    BY <1>1 DEF SoundSession
<1> QED
    BY <1>1, <1>2, <1>3, BeginKeeps

LEMMA CommitRetireKeeps ==
    ASSUME CatalogueInv, NEW e \in Editor, CommitRetire(e)
    PROVE  CatalogueInv'
<1>1. PICK s : s = editor[e].id
    OBVIOUS
<1>2. s \in Service /\ service[s] # Absent /\ service[s] \in ServiceRow
    BY <1>1, Kinds, Rows DEF CommitRetire, CatalogueInv, RowsExist, Handles
<1>3. PICK row : row = [service[s] EXCEPT !.active = FALSE]
    OBVIOUS
<1>4. /\ row \in ServiceRow /\ row # Absent
      /\ row.deposit = service[s].deposit /\ row.percent = service[s].percent
    BY <1>2, <1>3 DEF ServiceRow
<1>5. /\ service' = [service EXCEPT ![s] = row]
      /\ Finish(e)
      /\ UNCHANGED <<profile, waived>>
    BY <1>1, <1>3 DEF CommitRetire
<1>6. /\ service' \in [Service -> ServiceRow \cup {Absent}]
      /\ profile' \in [Profile -> ProfileRow \cup {Absent}]
      /\ waived' \subseteq Service
    BY <1>4, <1>5 DEF CatalogueInv, CatalogueTypeOK
<1>7. /\ service'[s] = row
      /\ \A t \in Service : t # s => service'[t] = service[t]
    BY <1>2, <1>5 DEF CatalogueInv, CatalogueTypeOK
<1>8. RowsKept
    BY <1>2, <1>4, <1>5, <1>7 DEF RowsKept
<1>9. DepositsAreRequired'
  <2> SUFFICES ASSUME NEW t \in Service, service'[t] # Absent,
                      Deposits(service'[t].percent)
               PROVE  service'[t].deposit \/ t \in waived
      BY <1>5 DEF DepositsAreRequired
  <2>1. service[t] # Absent /\ Deposits(service[t].percent)
      BY <1>2, <1>4, <1>7
  <2>2. service[t].deposit \/ t \in waived
      BY <2>1 DEF CatalogueInv, DepositsAreRequired
  <2>3. service'[t].deposit = service[t].deposit
      BY <1>4, <1>7
  <2> QED
      BY <2>2, <2>3, Zenon
<1>10. OneProfileEach'
    BY <1>5 DEF CatalogueInv, OneProfileEach
<1> QED
    BY <1>5, <1>6, <1>8, <1>9, <1>10, FinishKeeps

LEMMA BeginHireKeeps ==
    ASSUME CatalogueInv, NEW e \in Editor, NEW p \in Profile, NEW u \in Person,
           NEW c \in Commission, BeginHire(e, p, u, c)
    PROVE  CatalogueInv'
<1> DEFINE row == [kind |-> "profile", person |-> u, active |-> TRUE,
                   commission |-> c]
           session == [kind |-> "hire", id |-> p, row |-> row]
<1>1. Begin(e, session)
    BY DEF BeginHire
<1>2. row \in ProfileRow
    BY DEF ProfileRow
<1>3. session \in Session
    BY <1>2 DEF Session
<1>4. SoundSession(session)
    BY DEF SoundSession
<1> QED
    BY <1>1, <1>3, <1>4, BeginKeeps

\* What the commits of profiles leave alone.
LEMMA ServicesKept ==
    ASSUME CatalogueInv, UNCHANGED <<service, waived>>
    PROVE  /\ \A s \in Service : service[s] # Absent =>
                 /\ service'[s] # Absent
                 /\ service[s].deposit = TRUE
                    => service'[s].deposit = TRUE \/ s \in waived'
           /\ service' \in [Service -> ServiceRow \cup {Absent}]
           /\ waived' \subseteq Service
           /\ waived \subseteq waived'
           /\ DepositsAreRequired'
<1>1. DepositsAreRequired'
    BY DEF CatalogueInv, DepositsAreRequired
<1> QED
    BY <1>1 DEF CatalogueInv, CatalogueTypeOK

LEMMA CommitHireKeeps ==
    ASSUME CatalogueInv, NEW e \in Editor, CommitHire(e)
    PROVE  CatalogueInv'
<1>1. PICK me : me = editor[e]
    OBVIOUS
<1>2. me.id \in Profile /\ me.row \in ProfileRow
    BY <1>1, Kinds DEF CommitHire, CatalogueInv
<1>3. /\ profile[me.id] = Absent
      /\ \A q \in Profile :
            profile[q] # Absent => profile[q].person # me.row.person
      /\ profile' = [profile EXCEPT ![me.id] = me.row]
      /\ Finish(e)
      /\ UNCHANGED <<service, waived>>
    BY <1>1 DEF CommitHire
<1>4. profile' \in [Profile -> ProfileRow \cup {Absent}]
    BY <1>2, <1>3 DEF CatalogueInv, CatalogueTypeOK
<1>5. /\ profile'[me.id] = me.row
      /\ \A q \in Profile : q # me.id => profile'[q] = profile[q]
    BY <1>2, <1>3 DEF CatalogueInv, CatalogueTypeOK
<1>6. RowsKept
    BY <1>3, <1>5, ServicesKept DEF RowsKept
<1>7. OneProfileEach'
    BY <1>3, <1>5 DEF CatalogueInv, OneProfileEach
<1> QED
    BY <1>3, <1>4, <1>6, <1>7, ServicesKept, FinishKeeps

LEMMA BeginPatchProfileKeeps ==
    ASSUME CatalogueInv, NEW e \in Editor, NEW p \in Profile,
           NEW ask \in ProfilePatch, BeginPatchProfile(e, p, ask)
    PROVE  CatalogueInv'
<1> DEFINE session == [kind |-> "profile", id |-> p, loaded |-> profile[p],
                       ask |-> ask]
<1>1. profile[p] # Absent /\ Begin(e, session)
    BY DEF BeginPatchProfile
<1>2. session \in Session
    BY <1>1, Rows DEF CatalogueInv, Session
<1>3. SoundSession(session)
    BY <1>1 DEF SoundSession
<1> QED
    BY <1>1, <1>2, <1>3, BeginKeeps

LEMMA CommitPatchProfileKeeps ==
    ASSUME CatalogueInv, NEW e \in Editor, CommitPatchProfile(e)
    PROVE  CatalogueInv'
<1>1. PICK me : me = editor[e]
    OBVIOUS
<1>2. /\ me.id \in Profile /\ me.loaded \in ProfileRow /\ me.ask \in ProfilePatch
      /\ profile[me.id] # Absent
    BY <1>1, Kinds DEF CommitPatchProfile, CatalogueInv, RowsExist, Handles
<1>3. profile[me.id] \in ProfileRow
    BY <1>2, Rows DEF CatalogueInv
<1>4. PICK row : row = PatchedProfile(profile[me.id], me.loaded, me.ask)
    OBVIOUS
<1>5. row \in ProfileRow
    BY <1>2, <1>3, <1>4, PatchedProfileTyped
<1>6. row.person = profile[me.id].person /\ row # Absent
    BY <1>3, <1>4, <1>5 DEF PatchedProfile, ProfileRow
<1>7. /\ profile' = [profile EXCEPT ![me.id] = row]
      /\ Finish(e)
      /\ UNCHANGED <<service, waived>>
    BY <1>1, <1>4 DEF CommitPatchProfile
<1>8. profile' \in [Profile -> ProfileRow \cup {Absent}]
    BY <1>2, <1>5, <1>7 DEF CatalogueInv, CatalogueTypeOK
<1>9. /\ profile'[me.id] = row
      /\ \A q \in Profile : q # me.id => profile'[q] = profile[q]
    BY <1>2, <1>7 DEF CatalogueInv, CatalogueTypeOK
<1>10. RowsKept
    BY <1>6, <1>9, ServicesKept, <1>7 DEF RowsKept
<1>11. OneProfileEach'
    BY <1>2, <1>6, <1>9 DEF CatalogueInv, OneProfileEach
<1> QED
    BY <1>7, <1>8, <1>10, <1>11, ServicesKept, FinishKeeps

LEMMA AbandonKeeps ==
    ASSUME CatalogueInv, NEW e \in Editor, Abandon(e)
    PROVE  CatalogueInv'
<1>1. Finish(e) /\ UNCHANGED <<service, profile, waived>>
    BY DEF Abandon
<1>2. profile' \in [Profile -> ProfileRow \cup {Absent}] /\ OneProfileEach'
    BY <1>1 DEF CatalogueInv, CatalogueTypeOK, OneProfileEach
<1>3. RowsKept
    BY <1>1, ServicesKept DEF RowsKept
<1> QED
    BY <1>1, <1>2, <1>3, ServicesKept, FinishKeeps

LEMMA CatalogueStep ==
    ASSUME CatalogueInv, CatalogueNext
    PROVE  CatalogueInv'
<1>1. CASE ServiceStep
    BY <1>1, CreateServiceKeeps, BeginPatchServiceKeeps, CommitPatchServiceKeeps,
       BeginRetireKeeps, CommitRetireKeeps DEF ServiceStep
<1>2. CASE ProfileStep
    BY <1>2, BeginHireKeeps, CommitHireKeeps, BeginPatchProfileKeeps,
       CommitPatchProfileKeeps DEF ProfileStep
<1>3. CASE \E e \in Editor : Abandon(e)
    BY <1>3, AbandonKeeps
<1> QED
    BY <1>1, <1>2, <1>3 DEF CatalogueNext

-----------------------------------------------------------------------------
(* Steps of the calendar.                                                  *)

IInv ==
    /\ TypeOK
    /\ CatalogueInv
    /\ OffersAreBookable
    /\ ZonedAnswersAreOfEmptyDays

\* A generated slot ends within the hours it was generated from.
LEMMA GeneratedFits ==
    ASSUME NEW hours \in SUBSET [start : Nat, end : Nat, active : BOOLEAN],
           NEW duration \in Nat, NEW interval,
           NEW t \in Generated(hours, duration, interval)
    PROVE  /\ t \in Nat
           /\ \E w \in hours : w.start <= t /\ t + duration <= w.end
BY DEF Generated

\* A slot the comparison lets pass meets no booking that is not longer than
\* the service.
LEMMA PassedIsFree ==
    ASSUME NEW t \in Nat, NEW duration \in Nat,
           NEW b \in [start : Nat, length : Nat \ {0}],
           ~ Conflicts(t, duration, b), b.length <= duration
    PROVE  ~ Meets(t, duration, b.start, b.length)
BY DEF Conflicts, Meets

LEMMA BeginSlotsKeeps ==
    ASSUME IInv, NEW r \in Reader, NEW p \in Professional, NEW s \in Service,
           NEW i \in Interval, BeginSlots(r, p, s, i)
    PROVE  IInv'
<1> DEFINE asked == [kind |-> "reading", professional |-> p, interval |-> i,
                     duration |-> service[s].duration]
<1>1. asked \in Request
    BY Rows DEF BeginSlots, IInv, CatalogueInv, ServiceRow, Request
<1>2. /\ reader' = [reader EXCEPT ![r] = asked]
      /\ reads' \in 0..MaxReads
      /\ UNCHANGED <<zoned, booking, marks>>
      /\ UNCHANGED catalogue
    BY SlotsAssumption DEF BeginSlots, IInv, TypeOK
<1>3. CatalogueInv'
    BY <1>2 DEF IInv, CatalogueInv, CatalogueTypeOK, RowsExist, AsksForDeposit,
       LoadedDepositHolds, DepositsAreRequired, OneProfileEach, catalogue
<1>4. TypeOK'
    BY <1>1, <1>2, <1>3 DEF IInv, TypeOK, CatalogueInv
<1>5. /\ reader'[r].kind = "reading"
      /\ \A o \in Reader : o # r => reader'[o] = reader[o]
    BY <1>2 DEF IInv, TypeOK
<1>6. OffersAreBookable'
    BY <1>5 DEF IInv, OffersAreBookable, Hours
<1>7. ZonedAnswersAreOfEmptyDays'
    BY <1>2, <1>5 DEF IInv, ZonedAnswersAreOfEmptyDays
<1> QED
    BY <1>3, <1>4, <1>6, <1>7 DEF IInv

LEMMA AnswerKeeps ==
    ASSUME IInv, NEW r \in Reader, Answer(r)
    PROVE  IInv'
<1>1. PICK me : me = reader[r]
    OBVIOUS
<1>2. me \in Request
    BY <1>1 DEF Answer, IInv, TypeOK, Request, Response
<1>3. PICK found : found = Booked(me.professional)
    OBVIOUS
<1>4. found \subseteq Times
    BY <1>3 DEF Booked, IInv, TypeOK
<1>5. PICK starts : starts = Generated(Hours(me.professional), me.duration,
                                       me.interval)
    OBVIOUS
<1>6. me.duration \in Nat
    BY <1>2, CatalogueAssumption DEF Request
<1>7. Hours(me.professional) \in SUBSET [start : Nat, end : Nat, active : BOOLEAN]
    BY <1>2, SlotsAssumption DEF Hours, Request
<1>8. \A t \in starts :
         /\ t \in Nat
         /\ \E w \in Hours(me.professional) :
               w.start <= t /\ t + me.duration <= w.end
    BY <1>5, <1>6, <1>7, GeneratedFits
<1>9. PICK offered : offered = Filtered(starts, me.duration, found)
    OBVIOUS
<1>10. offered \subseteq starts
    BY <1>9 DEF Filtered
<1> DEFINE response == [kind |-> "answered", professional |-> me.professional,
                        interval |-> me.interval, duration |-> me.duration,
                        found |-> found, offered |-> offered]
           result == IF zoned /\ starts # {} /\ found # {} THEN Idle ELSE response
<1>11. response \in Response
    BY <1>2, <1>4, <1>8, <1>10 DEF Request, Response
<1>12. /\ reader' = [reader EXCEPT ![r] = result]
       /\ UNCHANGED <<zoned, booking, reads, marks>>
       /\ UNCHANGED catalogue
    BY <1>1, <1>3, <1>5, <1>9 DEF Answer
<1>13. \A t \in offered :
          /\ \E w \in Hours(me.professional) :
                w.start <= t /\ t + me.duration <= w.end
          /\ \A b \in found :
                b.length <= me.duration
                => ~ Meets(t, me.duration, b.start, b.length)
  <2> TAKE t \in offered
  <2>1. t \in Nat
      BY <1>8, <1>10
  <2>2. \A b \in found : ~ Conflicts(t, me.duration, b)
      BY <1>9 DEF Filtered
  <2>3. \A b \in found : b \in [start : Nat, length : Nat \ {0}]
      BY <1>4, SlotsAssumption
  <2> QED
      BY <1>6, <1>8, <1>10, <2>1, <2>2, <2>3, PassedIsFree
<1>14. CatalogueInv'
    BY <1>12 DEF IInv, CatalogueInv, CatalogueTypeOK, RowsExist, AsksForDeposit,
       LoadedDepositHolds, DepositsAreRequired, OneProfileEach, catalogue
<1>15. result \in Response \cup {Idle}
    BY <1>11
<1> HIDE DEF result
<1>16. TypeOK'
    BY <1>12, <1>14, <1>15 DEF IInv, TypeOK, CatalogueInv
<1>17. /\ reader'[r] = result
       /\ \A o \in Reader : o # r => reader'[o] = reader[o]
    BY <1>12 DEF IInv, TypeOK
<1>18. result.kind = "answered" => result = response
    BY DEF result
<1>19. OffersAreBookable'
  <2> SUFFICES ASSUME NEW o \in Reader, reader'[o].kind = "answered",
                      NEW t \in reader'[o].offered
               PROVE  /\ \E w \in Hours(reader'[o].professional) :
                            /\ w.start <= t
                            /\ t + reader'[o].duration <= w.end
                      /\ \A b \in reader'[o].found :
                            b.length <= reader'[o].duration
                            => ~ Meets(t, reader'[o].duration, b.start, b.length)
      BY DEF OffersAreBookable, Hours
  <2>1. CASE o = r
      BY <2>1, <1>13, <1>17, <1>18
  <2>2. CASE o # r
      BY <2>2, <1>17 DEF IInv, OffersAreBookable
  <2> QED BY <2>1, <2>2
<1>20. ZonedAnswersAreOfEmptyDays'
  <2> SUFFICES ASSUME NEW o \in Reader, zoned, reader'[o].kind = "answered"
               PROVE  reader'[o].found = {} \/ reader'[o].offered = {}
      BY <1>12 DEF ZonedAnswersAreOfEmptyDays
  <2>1. CASE o = r
    <3>1. reader'[o] = response /\ (starts = {} \/ found = {})
        BY <2>1, <1>17 DEF result
    <3> QED
        BY <3>1, <1>10
  <2>2. CASE o # r
      BY <2>2, <1>17 DEF IInv, ZonedAnswersAreOfEmptyDays
  <2> QED BY <2>1, <2>2
<1> QED
    BY <1>14, <1>16, <1>19, <1>20 DEF IInv

LEMMA MarkKeeps ==
    ASSUME IInv, NEW b \in Booking, NEW status \in BookingStatus, Mark(b, status)
    PROVE  IInv'
<1>1. /\ booking' = [booking EXCEPT ![b].status = status]
      /\ marks' \in 0..MaxMarks
      /\ UNCHANGED <<zoned, reader, reads>>
      /\ UNCHANGED catalogue
    BY SlotsAssumption DEF Mark, IInv, TypeOK
<1>2. CatalogueInv'
    BY <1>1 DEF IInv, CatalogueInv, CatalogueTypeOK, RowsExist, AsksForDeposit,
       LoadedDepositHolds, DepositsAreRequired, OneProfileEach, catalogue
<1>3. \A o \in Booking :
         /\ booking'[o] \in BookingRow
         /\ booking'[o].start = booking[o].start
         /\ booking'[o].length = booking[o].length
    BY <1>1 DEF IInv, TypeOK, BookingRow
<1>4. booking' \in [Booking -> BookingRow]
    BY <1>1 DEF IInv, TypeOK, BookingRow
<1>5. TypeOK'
    BY <1>1, <1>2, <1>3, <1>4 DEF IInv, TypeOK, CatalogueInv
<1>6. OffersAreBookable' /\ ZonedAnswersAreOfEmptyDays'
    BY <1>1 DEF IInv, OffersAreBookable, ZonedAnswersAreOfEmptyDays, Hours
<1> QED
    BY <1>2, <1>5, <1>6 DEF IInv

LEMMA CatalogueStepKeeps ==
    ASSUME IInv, CatalogueNext, UNCHANGED slots
    PROVE  IInv'
<1>1. CatalogueInv'
    BY CatalogueStep DEF IInv
<1>2. UNCHANGED <<zoned, booking, reader, reads, marks>>
    BY DEF slots
<1>3. TypeOK'
    BY <1>1, <1>2 DEF IInv, TypeOK, CatalogueInv
<1>4. OffersAreBookable' /\ ZonedAnswersAreOfEmptyDays'
    BY <1>2 DEF IInv, OffersAreBookable, ZonedAnswersAreOfEmptyDays, Hours
<1> QED
    BY <1>1, <1>3, <1>4 DEF IInv

LEMMA InitHolds == Init => IInv
<1> SUFFICES ASSUME Init
             PROVE  IInv
    OBVIOUS
<1>1. CatalogueInv
    BY CatalogueAssumption
    DEF Init, CatalogueInit, CatalogueInv, CatalogueTypeOK, RowsExist,
        AsksForDeposit, LoadedDepositHolds, DepositsAreRequired, OneProfileEach
<1>2. \A b \in Booking : \E p \in Professional, t \in Times :
         booking[b] = [professional |-> p, start |-> t.start,
                       length |-> t.length, status |-> "PENDING"]
    BY DEF Init
<1>3. \A b \in Booking :
         /\ booking[b] \in BookingRow
         /\ [start |-> booking[b].start, length |-> booking[b].length] \in Times
  <2> TAKE b \in Booking
  <2>1. PICK p \in Professional, t \in Times :
           booking[b] = [professional |-> p, start |-> t.start,
                         length |-> t.length, status |-> "PENDING"]
      BY <1>2
  <2>2. t \in [start : Nat, length : Nat \ {0}]
      BY SlotsAssumption
  <2>3. t = [start |-> t.start, length |-> t.length]
      BY <2>2
  <2>4. booking[b].start = t.start /\ booking[b].length = t.length
      BY <2>1
  <2>5. booking[b] \in BookingRow
      BY <2>1, <2>2 DEF BookingRow, BookingStatus
  <2> QED
      BY <2>3, <2>4, <2>5
<1>4. booking \in [Booking -> BookingRow]
  <2>1. booking = [b \in Booking |-> booking[b]]
      BY DEF Init
  <2> QED
      BY <2>1, <1>3
<1>5. TypeOK
    BY <1>1, <1>3, <1>4, SlotsAssumption DEF Init, CatalogueInv, TypeOK
<1>6. OffersAreBookable /\ ZonedAnswersAreOfEmptyDays
    BY DEF Init, OffersAreBookable, ZonedAnswersAreOfEmptyDays
<1> QED
    BY <1>1, <1>5, <1>6 DEF IInv

LEMMA StepHolds == IInv /\ [Next]_vars => IInv'
<1> SUFFICES ASSUME IInv, [Next]_vars
             PROVE  IInv'
    OBVIOUS
<1>1. CASE SlotsStep
    BY <1>1, BeginSlotsKeeps, AnswerKeeps, MarkKeeps DEF SlotsStep
<1>2. CASE CatalogueNext /\ UNCHANGED slots
    BY <1>2, CatalogueStepKeeps
<1>3. CASE UNCHANGED vars
    BY <1>3
    DEF vars, slots, catalogue, IInv, TypeOK, CatalogueInv, CatalogueTypeOK,
        RowsExist, AsksForDeposit, LoadedDepositHolds, DepositsAreRequired,
        OneProfileEach, OffersAreBookable, ZonedAnswersAreOfEmptyDays, Hours
<1> QED
    BY <1>1, <1>2, <1>3 DEF Next

-----------------------------------------------------------------------------
(* Theorems.                                                               *)

\* The inductive invariant holds in every reachable state.
THEOREM Invariance == Spec => []IInv
<1>1. Init => IInv
    BY InitHolds
<1>2. IInv /\ [Next]_vars => IInv'
    BY StepHolds
<1> QED
    BY <1>1, <1>2, PTL DEF Spec

\* Catalogue, bookings and requests keep their types.
THEOREM TypeCorrect == Spec => []TypeOK
<1>1. IInv => TypeOK
    BY DEF IInv
<1> QED
    BY <1>1, Invariance, PTL

\* A deposit percentage stands only beside requires_deposit, unless a PATCH
\* has waived the deposit.
THEOREM DepositsRequired == Spec => []DepositsAreRequired
<1>1. IInv => DepositsAreRequired
    BY DEF IInv, CatalogueInv
<1> QED
    BY <1>1, Invariance, PTL

\* Nobody has two profiles as a professional.
THEOREM OneProfile == Spec => []OneProfileEach
<1>1. IInv => OneProfileEach
    BY DEF IInv, CatalogueInv
<1> QED
    BY <1>1, Invariance, PTL

\* Offered slots lie within the hours and meet no booking that is not longer
\* than the service asked for.
THEOREM Bookable == Spec => []OffersAreBookable
<1>1. IInv => OffersAreBookable
    BY DEF IInv
<1> QED
    BY <1>1, Invariance, PTL

\* A multiple of the interval is a slot's distance from its window's start.
LEMMA MultiplesAreExact ==
    ASSUME NEW k \in Nat, NEW i \in Nat \ {0}
    PROVE  k * i \in Nat /\ (k * i) % i = 0
BY SMT

\* Every step of the interval at which the service still ends within the window
\* is generated.
LEMMA StepsAreGenerated ==
    ASSUME NEW hours \in SUBSET [start : Nat, end : Nat, active : BOOLEAN],
           NEW w \in hours, NEW duration \in Nat, NEW interval \in Nat \ {0},
           NEW k \in Nat, w.start + k * interval + duration <= w.end
    PROVE  w.start + k * interval \in Generated(hours, duration, interval)
<1> DEFINE t == w.start + k * interval
<1>1. w.start \in Nat /\ w.end \in Nat /\ k * interval \in Nat
    BY MultiplesAreExact
<1>2. t - w.start = k * interval /\ t \in w.start..w.end
    BY <1>1
<1>3. (t - w.start) % interval = 0
    BY <1>2, MultiplesAreExact
<1>4. t + duration <= w.end
    OBVIOUS
<1> HIDE DEF t
<1>5. t \in {x \in w.start..w.end : /\ (x - w.start) % interval = 0
                                   /\ x + duration <= w.end}
    BY <1>2, <1>3, <1>4
<1>6. t \in Generated(hours, duration, interval)
    BY <1>5 DEF Generated
<1> QED
    BY <1>6 DEF t

\* What a response offers and holds back, for NothingFreeIsHidden.
Complete(me) ==
    \A w \in Hours(me.professional) : \A k \in 0..w.end :
        LET t == w.start + k * me.interval
        IN  t + me.duration <= w.end
            => \/ t \in me.offered
               \/ \E b \in me.found :
                     \/ Meets(t, me.duration, b.start, b.length)
                     \/ Meets(t, me.duration, b.start, me.duration)

\* An answer is complete when it is given: what is generated and not offered has
\* been filtered.
LEMMA AnswerIsComplete ==
    ASSUME IInv, NEW r \in Reader, Answer(r), reader'[r].kind = "answered"
    PROVE  Complete(reader'[r])
<1> DEFINE me == reader[r]
           found == Booked(me.professional)
           starts == Generated(Hours(me.professional), me.duration, me.interval)
           offered == Filtered(starts, me.duration, found)
           response == [kind |-> "answered", professional |-> me.professional,
                        interval |-> me.interval, duration |-> me.duration,
                        found |-> found, offered |-> offered]
<1>1. me \in Request
    BY DEF Answer, IInv, TypeOK, Request, Response
<1>2. reader'[r] = response
    BY DEF Answer, IInv, TypeOK
<1>3. /\ me.duration \in Nat /\ me.interval \in Nat \ {0}
      /\ Hours(me.professional) \in SUBSET [start : Nat, end : Nat, active : BOOLEAN]
    BY <1>1, CatalogueAssumption, SlotsAssumption DEF Request, Hours
<1>4. ASSUME NEW w \in Hours(me.professional), NEW k \in 0..w.end,
             w.start + k * me.interval + me.duration <= w.end,
             w.start + k * me.interval \notin offered
      PROVE  \E b \in found : Meets(w.start + k * me.interval, me.duration,
                                    b.start, me.duration)
  <2> DEFINE t == w.start + k * me.interval
  <2>1. k \in Nat
      BY <1>3
  <2>2. t \in starts
      BY <1>3, <1>4, <2>1, StepsAreGenerated
  <2> HIDE DEF t, starts, found
  <2>3. \E b \in found : Conflicts(t, me.duration, b)
      BY <1>4, <2>2 DEF Filtered, t
  <2>4. \E b \in found : Meets(t, me.duration, b.start, me.duration)
      BY <2>3 DEF Conflicts, Meets
  <2> QED
      BY <2>4 DEF t
<1>5. /\ response.professional = me.professional /\ response.interval = me.interval
      /\ response.duration = me.duration /\ response.found = found
      /\ response.offered = offered
    OBVIOUS
<1> HIDE DEF found, offered, response
<1> QED
    BY <1>2, <1>4, <1>5, Zenon DEF Complete

\* A slot is held back only for a booking it meets, or would meet if the booking
\* lasted as long as the service.
THEOREM NothingHidden == Spec => []NothingFreeIsHidden
<1> DEFINE Done == \A r \in Reader : reader[r].kind = "answered" => Complete(reader[r])
<1>1. Init => Done
    BY DEF Init, Idle
<1>2. IInv /\ Done /\ [Next]_vars => Done'
  <2> SUFFICES ASSUME IInv, Done, [Next]_vars, NEW r \in Reader,
                      reader'[r].kind = "answered"
               PROVE  Complete(reader'[r])
      BY DEF Complete, Hours
  <2>1. CASE reader'[r] = reader[r]
      BY <2>1
  <2>2. CASE Answer(r)
      BY <2>2, AnswerIsComplete
  <2>3. reader'[r] = reader[r] \/ Answer(r)
    <3>1. \A o \in Reader, p \in Professional, s \in Service, i \in Interval :
             BeginSlots(o, p, s, i) => reader'[r] = reader[r]
        BY DEF BeginSlots, IInv, TypeOK
    <3>2. \A o \in Reader : Answer(o) => o = r \/ reader'[r] = reader[r]
        BY DEF Answer, IInv, TypeOK
    <3>3. \A b \in Booking, status \in BookingStatus :
             Mark(b, status) => reader'[r] = reader[r]
        BY DEF Mark
    <3>4. UNCHANGED slots => reader'[r] = reader[r]
        BY DEF slots
    <3> QED
        BY <3>1, <3>2, <3>3, <3>4 DEF Next, SlotsStep, vars
  <2> QED
      BY <2>1, <2>2, <2>3
<1>3. Done => NothingFreeIsHidden
    BY DEF Complete, NothingFreeIsHidden
<1> HIDE DEF Done
<1> QED
    BY <1>1, <1>2, <1>3, Invariance, PTL DEF Spec

\* With time zones in the database only a day without bookings or without room
\* is answered.
THEOREM ZonedAnswers == Spec => []ZonedAnswersAreOfEmptyDays
<1>1. IInv => ZonedAnswersAreOfEmptyDays
    BY DEF IInv
<1> QED
    BY <1>1, Invariance, PTL

\* One step activates no service.
LEMMA RetiredStep ==
    ASSUME IInv, [Next]_vars
    PROVE  [\A s \in Service :
              service[s] # Absent /\ ~ service[s].active
              => service'[s] # Absent /\ ~ service'[s].active]_catalogue
<1> SUFFICES ASSUME NEW s \in Service, service[s] # Absent, ~ service[s].active
             PROVE  service'[s] # Absent /\ ~ service'[s].active
    BY Zenon
<1>0. service[s] \in ServiceRow /\ service[s].active = FALSE
  <2>1. service[s] \in ServiceRow
      BY Rows DEF IInv, CatalogueInv
  <2>2. service[s].active \in BOOLEAN
      BY <2>1 DEF ServiceRow
  <2> QED
      BY <2>1, <2>2, Zenon
<1> DEFINE kept == service'[s] # Absent /\ service'[s].active = FALSE
<1>1. ASSUME UNCHANGED service PROVE kept
    BY <1>0, <1>1
<1>2. ASSUME \E t \in Service, d \in Duration, deposit \in BOOLEAN,
                percent \in Percent \cup {None} :
                CreateService(t, d, deposit, percent)
      PROVE  kept
  <2>1. PICK t \in Service : service[t] = Absent /\
                 \A u \in Service : u # t => service'[u] = service[u]
      BY <1>2 DEF CreateService, IInv, TypeOK, CatalogueTypeOK
  <2> QED
      BY <1>0, <2>1
<1>3. ASSUME \E e \in Editor : CommitPatchService(e) PROVE kept
  <2>1. PICK e \in Editor : CommitPatchService(e)
      BY <1>3
  <2>2. PICK me : me = editor[e]
      OBVIOUS
  <2>3. CASE me.id = s
    <3>1. service'[s] = PatchedService(service[s], me.loaded, me.ask)
        BY <2>1, <2>2, <2>3 DEF CommitPatchService, IInv, TypeOK, CatalogueTypeOK
    <3>2. PICK row : row = PatchedService(service[s], me.loaded, me.ask)
        OBVIOUS
    <3>3. me.loaded \in ServiceRow /\ me.ask \in ServicePatch
        BY <2>1, <2>2, Kinds DEF CommitPatchService, IInv, CatalogueInv
    <3>4. row \in ServiceRow
        BY <3>2, <3>3, <1>0, PatchedServiceTyped
    <3>5. row.active = FALSE
        BY <3>2, <1>0 DEF PatchedService, ServiceRow
    <3> QED
        BY <3>1, <3>2, <3>4, <3>5 DEF ServiceRow
  <2>4. CASE me.id # s
      BY <1>0, <2>1, <2>2, <2>4 DEF CommitPatchService, IInv, TypeOK, CatalogueTypeOK
  <2> QED BY <2>3, <2>4
<1>4. ASSUME \E e \in Editor : CommitRetire(e) PROVE kept
  <2>1. PICK t : service' = [service EXCEPT ![t].active = FALSE]
      BY <1>4 DEF CommitRetire
  <2>2. CASE t = s
    <3>1. service'[s] = [service[s] EXCEPT !.active = FALSE]
        BY <2>1, <2>2 DEF IInv, TypeOK, CatalogueTypeOK
    <3> QED
        BY <3>1, <1>0 DEF ServiceRow
  <2>3. CASE t # s
      BY <1>0, <2>1, <2>3 DEF IInv, TypeOK, CatalogueTypeOK
  <2> QED BY <2>2, <2>3
<1>5. \/ UNCHANGED service
      \/ \E t \in Service, d \in Duration, deposit \in BOOLEAN,
            percent \in Percent \cup {None} :
            CreateService(t, d, deposit, percent)
      \/ \E e \in Editor : CommitPatchService(e)
      \/ \E e \in Editor : CommitRetire(e)
  <2>1. CASE SlotsStep
      BY <2>1 DEF SlotsStep, BeginSlots, Answer, Mark, catalogue
  <2>2. CASE ServiceStep
      BY <2>2 DEF ServiceStep, BeginPatchService, BeginRetire, Begin
  <2>3. CASE ProfileStep
      BY <2>3 DEF ProfileStep, BeginHire, CommitHire, BeginPatchProfile,
         CommitPatchProfile, Begin
  <2>4. CASE \E e \in Editor : Abandon(e)
      BY <2>4 DEF Abandon
  <2>5. CASE UNCHANGED vars
      BY <2>5 DEF vars, catalogue
  <2> QED
      BY <2>1, <2>2, <2>3, <2>4, <2>5 DEF Next, CatalogueNext
<1>6. kept
    BY <1>1, <1>2, <1>3, <1>4, <1>5
<1> QED
    BY <1>6, Zenon

\* A deactivated service is never active again.
THEOREM RetiredForGood == Spec => RetiredServicesStayRetired
<1>1. IInv /\ [Next]_vars
      => [\A s \in Service :
             service[s] # Absent /\ ~ service[s].active
             => service'[s] # Absent /\ ~ service'[s].active]_catalogue
    BY RetiredStep
<1> QED
    BY <1>1, Invariance, PTL DEF Spec, RetiredServicesStayRetired
=============================================================================
