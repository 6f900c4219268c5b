------------------------------ MODULE Profiles ------------------------------
(* The profile catalogue beside the broker. An operator (command line or API)
   creates, archives, reactivates and edits profiles; the broker, in a
   transaction of its own, reads the corpus of an active profile, rebuilds
   its state from the fills and stores an order with the account it leads to.
   A corpus edit checks that nothing was traded, then rewrites the corpus and
   every account row of the profile. *)
EXTENDS Naturals, FiniteSets

CONSTANTS Ids,             \* profile identifiers
          DefaultProfile,  \* the one the migrations create
          DefaultCorpus,
          Corpora,         \* corpora an operator asks for
          Cost,            \* money one fill takes
          Overlap,         \* may an edit and a transaction of the broker overlap
          MaxOrders        \* bound on the orders placed

ASSUME ProfilesAssumption ==
  /\ DefaultProfile \in Ids
  /\ Overlap \in BOOLEAN
  /\ Cost \in Nat /\ MaxOrders \in Nat
  /\ \A c \in Corpora \cup {DefaultCorpus} : c \in Nat /\ c >= Cost * MaxOrders

VARIABLES profiles,  \* id -> [known, status, corpus]
          orders,    \* stored orders, each with the corpus it was placed on
          accounts,  \* stored account rows, one per order that wrote one
          edit,      \* corpus edit between its check and its commit
          placing    \* transaction of the broker between its read and commit

profilesVars == <<profiles, orders, accounts, edit, placing>>

Nobody == [profile |-> "none"]
Unknown == [known |-> FALSE]

Filled(of, p) == {o \in of : o.profile = p /\ o.status = "filled"}

(* The account row _rebuild_state_from_fills leads to. *)
AccountRow(p, corpus, of, n) ==
  LET spent == Cost * Cardinality(Filled(of, p))
  IN [profile |-> p, order |-> n, starting |-> corpus,
      available |-> corpus - spent, equity |-> corpus, exposure |-> spent]

(* _is_initial_account_snapshot *)
IsInitial(a) ==
  a.available = a.starting /\ a.equity = a.starting /\ a.exposure = 0

\* Mutant: orders without a fill, the rejected ones for instance, do not count.
NothingHeld(p) ==
  /\ Filled(orders, p) = {}
  /\ \A a \in accounts : a.profile = p => IsInitial(a)

(* _ensure_corpus_update_allowed *)
CorpusUpdateAllowed(p) ==
  /\ {o \in orders : o.profile = p} = {}
  /\ \A a \in accounts : a.profile = p => IsInitial(a)

ProfilesInit ==
  /\ profiles = [p \in Ids |->
       IF p = DefaultProfile
       THEN [known |-> TRUE, status |-> "ACTIVE", corpus |-> DefaultCorpus]
       ELSE Unknown]
  /\ orders = {} /\ accounts = {}
  /\ edit = Nobody /\ placing = Nobody

CreateProfile(p, corpus) ==
  /\ ~profiles[p].known
  /\ profiles' = [profiles EXCEPT ![p] =
       [known |-> TRUE, status |-> "ACTIVE", corpus |-> corpus]]
  /\ UNCHANGED <<orders, accounts, edit, placing>>

(* archive_profile, and update_profile with a status: neither asks for
   positions or orders of the profile. *)
SetStatus(p, status) ==
  /\ profiles[p].known
  /\ profiles' = [profiles EXCEPT ![p].status = status]
  /\ UNCHANGED <<orders, accounts, edit, placing>>

(* update_profile_corpus and update_profile, up to the check. *)
CheckCorpusEdit(p, corpus) ==
  /\ edit = Nobody
  /\ Overlap \/ placing = Nobody
  /\ profiles[p].known
  /\ CorpusUpdateAllowed(p)
  /\ edit' = [profile |-> p, corpus |-> corpus]
  /\ UNCHANGED <<profiles, orders, accounts, placing>>

(* _sync_initial_account_snapshots reads the account rows again and writes
   the corpus over every one of them. *)
CommitCorpusEdit ==
  /\ edit # Nobody
  /\ profiles' = [profiles EXCEPT ![edit.profile].corpus = edit.corpus]
  /\ accounts' = {IF a.profile # edit.profile THEN a
                  ELSE [a EXCEPT !.starting = edit.corpus,
                                 !.available = edit.corpus,
                                 !.equity = edit.corpus] : a \in accounts}
  /\ edit' = Nobody
  /\ UNCHANGED <<orders, placing>>

(* resolve_runtime_profile at the top of place_order: a missing or archived
   profile raises. *)
BeginOrder(p, status) ==
  /\ placing = Nobody
  /\ Overlap \/ edit = Nobody
  /\ Cardinality(orders) < MaxOrders
  /\ profiles[p].known /\ profiles[p].status = "ACTIVE"
  /\ placing' = [profile |-> p, corpus |-> profiles[p].corpus,
                 order |-> Cardinality(orders) + 1, status |-> status]
  /\ UNCHANGED <<profiles, orders, accounts, edit>>

(* settle_pending_next_open_orders of a queued order. *)
BeginSettlement(o, status) ==
  /\ placing = Nobody
  /\ Overlap \/ edit = Nobody
  /\ o.status = "queued"
  /\ profiles[o.profile].status = "ACTIVE"
  /\ placing' = [profile |-> o.profile, corpus |-> profiles[o.profile].corpus,
                 order |-> o.order, status |-> status]
  /\ UNCHANGED <<profiles, orders, accounts, edit>>

(* A queued order is stored alone; a rejected or filled one with the account. *)
CommitPlacing ==
  /\ placing # Nobody
  /\ LET stored == {o \in orders : o.order # placing.order} \cup {placing}
     IN /\ orders' = stored
        /\ accounts' = IF placing.status = "queued" THEN accounts
             ELSE accounts \cup {AccountRow(placing.profile, placing.corpus,
                                            stored, placing.order)}
  /\ placing' = Nobody
  /\ UNCHANGED <<profiles, edit>>

(* The broker's process dies, or place_order raises. *)
AbandonPlacing ==
  /\ placing # Nobody
  /\ placing' = Nobody
  /\ UNCHANGED <<profiles, orders, accounts, edit>>

ProfilesNext ==
  \/ \E p \in Ids, corpus \in Corpora :
       CreateProfile(p, corpus) \/ CheckCorpusEdit(p, corpus)
  \/ \E p \in Ids, status \in {"ACTIVE", "ARCHIVED"} : SetStatus(p, status)
  \/ CommitCorpusEdit
  \/ \E p \in Ids, status \in {"rejected", "queued", "filled"} :
       BeginOrder(p, status)
  \/ \E o \in orders, status \in {"rejected", "filled"} : BeginSettlement(o, status)
  \/ CommitPlacing
  \/ AbandonPlacing

ProfilesSpec == ProfilesInit /\ [][ProfilesNext]_profilesVars

-----------------------------------------------------------------------------
ProfilesTypeOK ==
  /\ \A p \in Ids : profiles[p].known =>
       /\ profiles[p].status \in {"ACTIVE", "ARCHIVED"}
       /\ profiles[p].corpus \in Corpora \cup {DefaultCorpus}
  /\ \A o \in orders : /\ o.profile \in Ids /\ o.order \in 1 .. MaxOrders
                       /\ o.status \in {"rejected", "queued", "filled"}
  /\ \A a \in accounts : a.profile \in Ids /\ a.exposure \in Nat
  /\ edit = Nobody \/ (edit.profile \in Ids /\ edit.corpus \in Corpora)
  /\ placing = Nobody \/ placing.profile \in Ids

(* Whatever was traded rests on the corpus the profile has now: every order
   was placed on it, every account row starts from it, and no row shows as
   available what its fills have spent (TaurusProfileRepository and
   PaperBroker.place_order share the rows and no lock). *)
TradingRestsOnCorpus ==
  /\ \A o \in orders : o.corpus = profiles[o.profile].corpus
  /\ \A a \in accounts : /\ a.starting = profiles[a.profile].corpus
                         /\ a.available + a.exposure = a.starting

(* "Once fills, queued orders, nonzero positions, or non-initial account
   snapshots exist, corpus changes are rejected" (docs/TAURUS_COMMANDS.md).
   Kept when an edit and a transaction of the broker do not overlap. *)
CorpusChangesPrecedeTrading ==
  [][\A p \in Ids : profiles[p].known /\ profiles'[p].corpus # profiles[p].corpus
       => {o \in orders : o.profile = p} = {}]_profilesVars

=============================================================================
