------------------------------ MODULE Catalogue ------------------------------
(***************************************************************************)
(* The catalogue of eSalao: the services a salon sells                     *)
(* (api/v1/routes/services.py) and the professionals who work there        *)
(* (api/v1/routes/professionals.py).                                       *)
(*                                                                         *)
(* A request has a database session of its own.  It loads the row it is    *)
(* about once (the repository's second SELECT of the same row gives back   *)
(* the object that is already loaded) and writes at its commit, and of     *)
(* what it assigned only the columns whose value differs from the loaded   *)
(* one.  Only administrators pass the checks of these routes, and          *)
(* professionals for their own profile: the role "receptionist" they also  *)
(* name is not one a user can have.                                        *)
(***************************************************************************)
EXTENDS Naturals

CONSTANTS Service,          \* ids of the table services
          Person,           \* users who may become professionals
          Profile,          \* ids of the table professionals
          Editor,           \* the catalogue requests handled at a time
          Duration,         \* durations of a service, in minutes
          Percent,          \* deposit percentages a request may name
          Commission,       \* commissions of a professional
          None,             \* NULL, and a field a request leaves out
          MaxEdits          \* bound: catalogue requests of a behaviour

ASSUME CatalogueAssumption ==
    /\ Duration \subseteq Nat \ {0}
    /\ Percent \subseteq 0..100
    /\ None \notin Duration
    /\ None \notin Percent
    /\ None \notin Commission
    /\ None \notin BOOLEAN
    /\ MaxEdits \in Nat

VARIABLES service,          \* the stored services
          profile,          \* the stored profiles of professionals
          editor,           \* the request each editor handles, or Idle
          edits,            \* how many catalogue requests have begun
          waived            \* history: services a PATCH freed from a deposit

catalogue == <<service, profile, editor, edits, waived>>

Absent == [kind |-> "absent"]
Idle == [kind |-> "idle"]

\* A service's row, but for the columns nothing decides by (name, price,
\* description, category, salon).
ServiceRow == [kind : {"service"}, duration : Duration, active : BOOLEAN,
               deposit : BOOLEAN, percent : Percent \cup {None}]

ProfileRow == [kind : {"profile"}, person : Person, active : BOOLEAN,
               commission : Commission]

\* What a PATCH of a service and one of a professional may name.
ServicePatch == [duration : Duration \cup {None}, deposit : BOOLEAN \cup {None},
                 percent : Percent \cup {None}]

ProfilePatch == [active : BOOLEAN \cup {None},
                 commission : Commission \cup {None}]

\* The sessions: what each handles, with the row it has loaded.
Session ==
    [kind : {"patch"}, id : Service, loaded : ServiceRow, ask : ServicePatch]
    \cup [kind : {"retire"}, id : Service, loaded : ServiceRow]
    \cup [kind : {"hire"}, id : Profile, row : ProfileRow]
    \cup [kind : {"profile"}, id : Profile, loaded : ProfileRow,
          ask : ProfilePatch]

Begin(e, session) ==
    /\ editor[e] = Idle
    /\ edits < MaxEdits
    /\ edits' = edits + 1
    /\ editor' = [editor EXCEPT ![e] = session]
    /\ UNCHANGED <<service, profile, waived>>

Finish(e) ==
    /\ editor' = [editor EXCEPT ![e] = Idle]
    /\ UNCHANGED edits

Handles(e, kind) == editor[e].kind = kind

\* Mutant of Assigned: the fields a request leaves out are assigned as well.
AssignedUnset(asked, loaded, stored) ==
    IF asked = loaded THEN stored ELSE asked

\* The column's value after a commit that assigns asked to a row loaded with
\* loaded and now stored as stored.
Assigned(asked, loaded, stored) ==
    IF asked = None \/ asked = loaded THEN stored ELSE asked

\* A row after the commit of a PATCH.
PatchedService(row, loaded, ask) ==
    [row EXCEPT
        !.duration = Assigned(ask.duration, loaded.duration, row.duration),
        !.deposit = Assigned(ask.deposit, loaded.deposit, row.deposit),
        !.percent = Assigned(ask.percent, loaded.percent, row.percent)]

PatchedProfile(row, loaded, ask) ==
    [row EXCEPT
        !.active = Assigned(ask.active, loaded.active, row.active),
        !.commission = Assigned(ask.commission, loaded.commission,
                                row.commission)]

\* A deposit percentage above zero.
Deposits(percent) == percent # None /\ percent # 0

-----------------------------------------------------------------------------
(* Services.                                                               *)

\* POST /services: one transaction.  The percentage is stored only with
\* requires_deposit, and not when it is zero.
CreateService(s, d, deposit, percent) ==
    /\ service[s] = Absent
    /\ edits < MaxEdits
    /\ Deposits(percent) => deposit
    /\ service' = [service EXCEPT ![s] =
          [kind |-> "service", duration |-> d, active |-> TRUE,
           deposit |-> deposit,
           percent |-> IF Deposits(percent) THEN percent ELSE None]]
    /\ edits' = edits + 1
    /\ UNCHANGED <<profile, editor, waived>>

\* Mutant of BeginPatchService: a percentage is checked only against the
\* requires_deposit of the same request.
BeginPatchServiceAlone(e, s, ask) ==
    /\ service[s] # Absent
    /\ Deposits(ask.percent) => ask.deposit # FALSE
    /\ Begin(e, [kind |-> "patch", id |-> s, loaded |-> service[s], ask |-> ask])

\* PATCH /services/{id}: the row is loaded, and a percentage is refused unless
\* the request, or else the row, requires a deposit.
BeginPatchService(e, s, ask) ==
    /\ service[s] # Absent
    /\ Deposits(ask.percent) =>
          IF ask.deposit # None THEN ask.deposit ELSE service[s].deposit
    /\ Begin(e, [kind |-> "patch", id |-> s, loaded |-> service[s], ask |-> ask])

\* Mutant of CommitPatchService: every column of the loaded row is written.
CommitPatchServiceWhole(e) ==
    /\ Handles(e, "patch")
    /\ LET me == editor[e]
           s  == me.id
       IN  /\ service' = [service EXCEPT ![s] =
                              PatchedService(me.loaded, me.loaded, me.ask)]
           /\ waived' = IF me.ask.deposit = FALSE THEN waived \cup {s} ELSE waived
    /\ Finish(e)
    /\ UNCHANGED profile

CommitPatchService(e) ==
    /\ Handles(e, "patch")
    /\ LET me == editor[e]
           s  == me.id
       IN  /\ service' = [service EXCEPT ![s] =
                              PatchedService(service[s], me.loaded, me.ask)]
           /\ waived' = IF me.ask.deposit = FALSE THEN waived \cup {s} ELSE waived
    /\ Finish(e)
    /\ UNCHANGED profile

\* DELETE /services/{id}.
BeginRetire(e, s) ==
    /\ service[s] # Absent
    /\ Begin(e, [kind |-> "retire", id |-> s, loaded |-> service[s]])

CommitRetire(e) ==
    /\ Handles(e, "retire")
    /\ service' = [service EXCEPT ![editor[e].id].active = FALSE]
    /\ Finish(e)
    /\ UNCHANGED <<profile, waived>>

-----------------------------------------------------------------------------
(* Professionals.                                                          *)

\* POST /professionals: refused when the user is found to have a profile.
BeginHire(e, p, u, c) ==
    /\ profile[p] = Absent
    /\ \A q \in Profile : profile[q] # Absent => profile[q].person # u
    /\ Begin(e, [kind |-> "hire", id |-> p,
                 row |-> [kind |-> "profile", person |-> u, active |-> TRUE,
                          commission |-> c]])

\* The INSERT; the unique index on user_id refuses a second profile.
CommitHire(e) ==
    /\ Handles(e, "hire")
    /\ profile[editor[e].id] = Absent
    /\ \A q \in Profile :
          profile[q] # Absent => profile[q].person # editor[e].row.person
    /\ profile' = [profile EXCEPT ![editor[e].id] = editor[e].row]
    /\ Finish(e)
    /\ UNCHANGED <<service, waived>>

\* PATCH /professionals/{id} by an administrator, and DELETE, which is the
\* PATCH that sets is_active to false; the professional themself may name
\* anything but the commission.
BeginPatchProfile(e, p, ask) ==
    /\ profile[p] # Absent
    /\ Begin(e, [kind |-> "profile", id |-> p, loaded |-> profile[p],
                 ask |-> ask])

CommitPatchProfile(e) ==
    /\ Handles(e, "profile")
    /\ LET me == editor[e]
       IN  profile' = [profile EXCEPT ![me.id] =
              PatchedProfile(profile[me.id], me.loaded, me.ask)]
    /\ Finish(e)
    /\ UNCHANGED <<service, waived>>

\* A request ends without its commit.
Abandon(e) ==
    /\ editor[e] # Idle
    /\ Finish(e)
    /\ UNCHANGED <<service, profile, waived>>

-----------------------------------------------------------------------------

CatalogueInit ==
    /\ service = [s \in Service |-> Absent]
    /\ profile = [p \in Profile |-> Absent]
    /\ editor = [e \in Editor |-> Idle]
    /\ edits = 0
    /\ waived = {}

ServiceStep ==
    \/ \E s \in Service, d \in Duration, deposit \in BOOLEAN,
          percent \in Percent \cup {None} : CreateService(s, d, deposit, percent)
    \/ \E e \in Editor, s \in Service, ask \in ServicePatch :
          BeginPatchService(e, s, ask)
    \/ \E e \in Editor : CommitPatchService(e)
    \/ \E e \in Editor, s \in Service : BeginRetire(e, s)
    \/ \E e \in Editor : CommitRetire(e)

ProfileStep ==
    \/ \E e \in Editor, p \in Profile, u \in Person, c \in Commission :
          BeginHire(e, p, u, c)
    \/ \E e \in Editor : CommitHire(e)
    \/ \E e \in Editor, p \in Profile, ask \in ProfilePatch :
          BeginPatchProfile(e, p, ask)
    \/ \E e \in Editor : CommitPatchProfile(e)

CatalogueNext ==
    \/ ServiceStep
    \/ ProfileStep
    \/ \E e \in Editor : Abandon(e)

CatalogueSpec == CatalogueInit /\ [][CatalogueNext]_catalogue

-----------------------------------------------------------------------------
(* Properties.                                                             *)

CatalogueTypeOK ==
    /\ service \in [Service -> ServiceRow \cup {Absent}]
    /\ profile \in [Profile -> ProfileRow \cup {Absent}]
    /\ editor \in [Editor -> Session \cup {Idle}]
    /\ edits \in 0..MaxEdits
    /\ waived \subseteq Service

\* A service that was deactivated stays so: no route activates one, and a PATCH
\* that loaded the row before commits only the columns it names, so it does not
\* bring the old is_active back.
RetiredServicesStayRetired ==
    [][\A s \in Service :
          service[s] # Absent /\ ~ service[s].active
          => service'[s] # Absent /\ ~ service'[s].active]_catalogue

\* A service asks for a deposit percentage only if it requires a deposit
\* (routes/services.py:47), in every interleaving of creations and PATCHes, as
\* long as no PATCH sets requires_deposit to false: such a PATCH leaves the
\* percentage as it is, and one that names a percentage may have read the row
\* before it.
DepositsAreRequired ==
    \A s \in Service :
        service[s] # Absent /\ Deposits(service[s].percent)
        => service[s].deposit \/ s \in waived

\* Nobody has two profiles, though two requests that hire one person may both
\* find none (routes/professionals.py:97).
OneProfileEach ==
    \A p, q \in Profile :
        /\ profile[p] # Absent /\ profile[q] # Absent
        /\ profile[p].person = profile[q].person
        => p = q
=============================================================================
