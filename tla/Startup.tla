------------------------------ MODULE Startup ------------------------------
(***************************************************************************)
(* Which profile and model a new native session gets:                      *)
(* crates/gritt-harness/src/startup.rs, and the model lists it consults,   *)
(* crates/gritt-provider/src/models.rs.                                    *)
(*                                                                         *)
(* Several resolutions run at once: drafts, pickers, a second gritt.  They *)
(* share one cache file per profile and, in one process, the catalog of    *)
(* lists.  A resolution waits for its endpoints only; between two of its   *)
(* steps every other one may move.                                         *)
(*                                                                         *)
(* A cache file is its list, whether it was fetched within the refresh     *)
(* interval and whether a fetch was tried within it.  Deprecated names,    *)
(* ambiguous aliases, remembered efforts and the wording of failures are   *)
(* left out.                                                               *)
(***************************************************************************)
EXTENDS Naturals, Sequences

CONSTANTS
    None,
    Order,         \* fallback_order: the default profile, then the fallbacks, each once;
                   \* with none and nothing asked a resolution ends before it begins
    Qualified,     \* the model names that spell a profile out: [profile, model]
    FallbackModel, \* fallback_model of each profile, or None
    DefaultModel,  \* default_model
    LastUsed,      \* the choices of the last successful session
    StaleFallback, \* stale_fallback of the list policy
    Weak,          \* the models that cannot take the effort a request names
    Flows,         \* the resolutions
    Requests,      \* what they may be asked: [profile, pinned, hint, model, effort]
    Lists,         \* what an endpoint may list
    Kept,          \* what a cache file may be at first: [list, fresh, tried]
    MaxChanges     \* bound: how often an endpoint changes

VARIABLES
    cached,        \* a cache directory is there
    keyed,         \* the profiles whose key resolves
    offer,         \* each endpoint: the list it serves, or None while it is down
    file,          \* each profile's cache file: [list, fresh, tried]
    catalog,       \* each profile's list in the process, or None
    flow,          \* each resolution, see Start
    changes,       \* bound: the changes so far
    probe,         \* history: what each endpoint answered each resolution
    disturbed      \* history: a list was replaced before it was looked up

shared  == <<cached, keyed, offer, file, catalog, changes>>
vars == <<shared, flow, probe, disturbed>>

Profiles == DOMAIN FallbackModel

Idle == [pc |-> "idle", request |-> None, order |-> <<>>, at |-> 1,
         snap |-> None, got |-> None, has |-> FALSE, model |-> None]

Strict(f)  == Len(flow[f].order) > 1
Tried(f)   == flow[f].order[flow[f].at]
Primary(f) == flow[f].at = 1
Listed(p)  == IF catalog[p] = None THEN {} ELSE catalog[p]

Set(f, r) == flow' = [flow EXCEPT ![f] = r]
To(f, pc) == [flow[f] EXCEPT !.pc = pc]

-----------------------------------------------------------------------------
(* primary_profile: where a resolution starts, and whether it may leave.   *)

NamedBy(name) == IF name \in DOMAIN Qualified THEN Qualified[name].profile ELSE None

PrimaryProfile(r) ==
    LET listed == r.profile # None /\ r.model \in Listed(r.profile)
        named  == IF (r.profile = None \/ r.hint) /\ ~listed THEN NamedBy(r.model) ELSE None
    IN  CASE named # None     -> [profile |-> named, pinned |-> TRUE]
          [] r.profile # None -> [profile |-> r.profile, pinned |-> r.pinned]
          [] LastUsed # None      -> [profile |-> LastUsed.profile, pinned |-> FALSE]
          [] NamedBy(DefaultModel) # None
                              -> [profile |-> NamedBy(DefaultModel), pinned |-> FALSE]
          [] OTHER            -> [profile |-> Order[1], pinned |-> FALSE]

(* A profile, then the others in their order. *)
Chain(first) ==
    [i \in 1 .. Len(Order) + (IF \E j \in DOMAIN Order : Order[j] = first THEN 0 ELSE 1) |->
        IF i = 1 THEN first
        ELSE IF \E j \in 1 .. i - 1 : Order[j] = first THEN Order[i] ELSE Order[i - 1]]

(* resolve_startup: the chain is fixed at the start. *)
Begin(f, r) ==
    LET first == PrimaryProfile(r) IN
    /\ flow[f].pc = "idle"
    /\ Set(f, [To(f, "trying") EXCEPT !.request = r,
                  !.order = IF first.pinned THEN <<first.profile>> ELSE Chain(first.profile)])
    /\ UNCHANGED <<shared, probe, disturbed>>

(* A candidate that fails is skipped; after the last one nothing is left. *)
Skip(f) ==
    Set(f, [To(f, IF flow[f].at < Len(flow[f].order) THEN "trying" ELSE "rejected")
            EXCEPT !.at = @ + 1, !.snap = None, !.got = None])

-----------------------------------------------------------------------------
(* The lists.                                                              *)

(* ModelCatalog::insert *)
Insert(f, p, list) ==
    /\ catalog' = [catalog EXCEPT ![p] = list]
    /\ disturbed' = disturbed \cup
           {g \in Flows \ {f} : flow[g].pc = "choosing" /\ Tried(g) = p}

(* load_models and from_cache_after_failure for an entry read before: the  *)
(* list it holds when it is recent, or stale and allowed.                  *)
FromCache(f, entry) ==
    LET usable == entry.list # None /\ (entry.fresh \/ StaleFallback) IN
    /\ Set(f, [To(f, "choosing") EXCEPT !.has = usable, !.snap = None, !.got = None])
    /\ IF usable THEN Insert(f, Tried(f), entry.list) ELSE UNCHANGED <<catalog, disturbed>>

(* load_catalog, through warm_catalog: ask at most once per interval. *)
Load(f) ==
    LET entry == file[Tried(f)] IN
    /\ IF ~cached
       THEN /\ Set(f, [To(f, "choosing") EXCEPT !.has = catalog[Tried(f)] # None])
            /\ UNCHANGED <<catalog, disturbed>>
       ELSE IF (entry.fresh /\ entry.list # None) \/ entry.tried THEN FromCache(f, entry)
       ELSE /\ Set(f, [To(f, "loading") EXCEPT !.snap = entry])
            /\ UNCHANGED <<catalog, disturbed>>
    /\ UNCHANGED <<cached, keyed, offer, file, changes, probe>>

(* probe_models: a chain asks the endpoint whatever the cache says. *)
Probe(f) ==
    /\ Set(f, [To(f, "probing") EXCEPT !.snap = file[Tried(f)]])
    /\ UNCHANGED <<shared, probe, disturbed>>

(* Faulty variant: a list answered from the cache hides an endpoint that   *)
(* is down.                                                                *)
ConsultCache(f) == flow[f].pc = "trying" /\ (Strict(f) => Tried(f) \in keyed) /\ Load(f)

(* try_profile: how a candidate's list is come by. *)
Consult(f) ==
    /\ flow[f].pc = "trying"
    /\ IF Strict(f) /\ cached
       THEN Tried(f) \in keyed /\ Probe(f)
       ELSE (Strict(f) => Tried(f) \in keyed) /\ Load(f)

MissingKey(f) ==
    /\ flow[f].pc = "trying" /\ Strict(f) /\ Tried(f) \notin keyed
    /\ Skip(f)
    /\ UNCHANGED <<shared, probe, disturbed>>

(* fetch_models: without a key nothing is sent. *)
Answer(f) ==
    LET p == Tried(f)
        got == IF p \in keyed THEN offer[p] ELSE None IN
    /\ flow[f].pc \in {"probing", "loading"}
    /\ Set(f, [To(f, IF flow[f].pc = "probing" THEN "probed" ELSE "loaded") EXCEPT !.got = got])
    /\ probe' = [probe EXCEPT ![f][p] = got]
    /\ UNCHANGED <<shared, disturbed>>

(* record_fetch: a list replaces the entry; a failure writes the entry read *)
(* before the request back, with the attempt on it.                         *)
Record(f) ==
    LET p == Tried(f)  got == flow[f].got IN
    /\ flow[f].pc \in {"probed", "loaded"}
    /\ IF got # None
       THEN /\ file' = [file EXCEPT ![p] = [list |-> got, fresh |-> TRUE, tried |-> TRUE]]
            /\ Insert(f, p, got)
            /\ Set(f, [To(f, "choosing") EXCEPT !.has = TRUE, !.snap = None, !.got = None])
       ELSE /\ file' = [file EXCEPT ![p] = [flow[f].snap EXCEPT !.tried = TRUE]]
            /\ IF flow[f].pc = "probed"
               THEN Skip(f) /\ UNCHANGED <<catalog, disturbed>>
               ELSE FromCache(f, flow[f].snap)
    /\ UNCHANGED <<cached, keyed, offer, changes, probe>>

-----------------------------------------------------------------------------
(* The model.                                                              *)

(* resolve_under_profile: an id the list holds is that id. *)
Resolved(p, name) ==
    IF name \in Listed(p) \/ name \notin DOMAIN Qualified
    THEN [profile |-> p, model |-> name] ELSE Qualified[name]

(* The names a candidate tries, in order, where there are any. *)
Wanted(f) ==
    LET p == Tried(f) IN
    <<flow[f].request.model,
      IF Primary(f) THEN None ELSE FallbackModel[p],
      IF LastUsed # None /\ LastUsed.profile = p THEN LastUsed.model ELSE None,
      DefaultModel>>

(* What a candidate may run on.  The first candidate takes its first name  *)
(* or fails; alone it may take one its list lacks.  A fallback must find   *)
(* the name in its list, or use its own fallback_model when it has none.   *)
Suits(f, i) ==
    LET p == Tried(f)  name == Wanted(f)[i]  m == Resolved(p, name) IN
    /\ name # None /\ m.profile = p
    /\ Primary(f) => \A j \in 1 .. i - 1 : Wanted(f)[j] = None
    /\ flow[f].has => m.model \in Listed(p) \/ (Primary(f) /\ ~Strict(f))
    /\ ~flow[f].has => Primary(f) \/ (name = FallbackModel[p] /\ name # flow[f].request.model)

(* The first name that suits. *)
Picks(f) ==
    {i \in 1 .. 4 : Suits(f, i) /\ \A j \in 1 .. i - 1 : ~Suits(f, j)}

(* try_profile, from the model on: the effort is checked last. *)
Choose(f) ==
    LET model(i) == Resolved(Tried(f), Wanted(f)[i]).model
        takes(i) == ~(flow[f].request.effort /\ model(i) \in Weak)
    IN  /\ flow[f].pc = "choosing"
        /\ \/ \E i \in Picks(f) : takes(i) /\ Set(f, [To(f, "ready") EXCEPT !.model = model(i)])
           \/ (\A i \in Picks(f) : ~takes(i)) /\ Skip(f)
        /\ UNCHANGED <<shared, probe, disturbed>>

-----------------------------------------------------------------------------
(* The endpoints are external: they go down, come back, change their list. *)
Change(p) ==
    /\ changes < MaxChanges
    /\ offer' \in {[offer EXCEPT ![p] = list] : list \in Lists \cup {None}} \ {offer}
    /\ changes' = changes + 1
    /\ UNCHANGED <<cached, keyed, file, catalog, flow, probe, disturbed>>

Init ==
    /\ cached \in BOOLEAN /\ keyed \in SUBSET Profiles
    /\ offer \in [Profiles -> Lists \cup {None}]
    /\ file \in [Profiles -> Kept]
    /\ catalog = [p \in Profiles |-> None]
    /\ flow = [f \in Flows |-> Idle]
    /\ changes = 0
    /\ probe = [f \in Flows |-> [p \in Profiles |-> None]]
    /\ disturbed = {}

Next ==
    \/ \E f \in Flows :
         \/ \E r \in Requests : Begin(f, r)
         \/ Consult(f) \/ MissingKey(f) \/ Answer(f) \/ Record(f) \/ Choose(f)
    \/ \E p \in Profiles : Change(p)

Spec == Init /\ [][Next]_vars

-----------------------------------------------------------------------------
(* Properties.                                                             *)

TypeOK ==
    /\ cached \in BOOLEAN /\ keyed \subseteq Profiles
    /\ offer \in [Profiles -> Lists \cup {None}]
    /\ file \in [Profiles -> [list : Lists \cup {None}, fresh : BOOLEAN, tried : BOOLEAN]]
    /\ catalog \in [Profiles -> Lists \cup {None}]
    /\ \A f \in Flows : flow[f].pc \in {"idle", "trying", "probing", "loading", "probed", "loaded",
                                        "choosing", "ready", "rejected"}

(* A session that starts on a chain starts on a profile whose key is there *)
(* and whose endpoint answered in this very resolution, with the model it  *)
(* gets, however stale the cache is and whatever other resolutions write   *)
(* meanwhile; a fallback without a list uses its own model.  The exception *)
(* is a list another resolution replaced between the answer and the choice.*)
StartsOnTheLiving ==
    \A f \in Flows : flow[f].pc = "ready" /\ Strict(f) =>
        LET p == Tried(f) IN
        /\ p \in keyed
        /\ cached => probe[f][p] # None /\ (flow[f].model \in probe[f][p] \/ f \in disturbed)
        /\ ~cached /\ ~Primary(f) => flow[f].model = Resolved(p, FallbackModel[p]).model

(* And none is passed over for nothing: a profile is skipped only without  *)
(* its key, or when its endpoint did not answer, or answered with a list   *)
(* that lacks the requested model, or the model lacks the effort.          *)
SkippedForCause ==
    \A f \in Flows : \A i \in 1 .. Len(flow[f].order) :
        LET p == flow[f].order[i]  r == flow[f].request IN
        /\ cached /\ Strict(f) /\ i < flow[f].at /\ p \in keyed /\ f \notin disturbed
        /\ probe[f][p] # None /\ r.model # None /\ r.model \in probe[f][p]
        => r.effort /\ r.model \in Weak

(* Failover is honest in both directions.                                  *)
FailoverIsHonest == TypeOK /\ StartsOnTheLiving /\ SkippedForCause

=============================================================================
