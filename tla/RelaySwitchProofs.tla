-------------------------- MODULE RelaySwitchProofs --------------------------
(***************************************************************************)
(* Proofs about RelaySwitch for any profiles of any kinds, and any number  *)
(* of commands, errors, edits and events from outside.                     *)
(***************************************************************************)
EXTENDS RelaySwitch, TLAPS

Conf == Configs(Owners, Edits)
Credential == Auths(Owners)
Profile == Profiles(Owners, Edits)
Urls == Owners \cup {None, Proxy}
Keys == Owners \cup {None, NoAuthToken}

(* What profiles and files are made of has the shape they have.            *)
LEMMA Shapes ==
    /\ Conf = [active : BOOLEAN, base : Urls, token : Keys, edit : Edits]
    /\ Credential = [key : Keys, login : BOOLEAN]
    /\ Profile = [config : Conf, auth : Credential, up : Urls, key : Keys]
  BY DEF Conf, Credential, Profile, Configs, Auths, Profiles, Urls, Keys

LEMMA Blanks ==
    /\ NoConfig \in Conf /\ NoAuth \in Credential
    /\ \A p \in Ids : NewProfile(p) \in Profile
<1>1. 0 \in Edits
  BY ConstantsAssumption DEF Edits
<1>2. NoConfig \in Conf /\ NoAuth \in Credential
  BY <1>1, Shapes DEF NoConfig, NoAuth, Urls, Keys
<1>3. QED
  BY <1>2, Shapes DEF NewProfile, Urls, Keys, Owners

LEMMA Parts ==
    ASSUME NEW x \in Profile
    PROVE  /\ x.config \in Conf /\ x.auth \in Credential /\ x.up \in Urls /\ x.key \in Keys
           /\ x.config.base \in Urls /\ x.config.token \in Keys /\ x.config.edit \in Edits
           /\ x.config.active \in BOOLEAN /\ x.auth.key \in Keys /\ x.auth.login \in BOOLEAN
<1>1. /\ x.config \in Conf /\ x.auth \in Credential /\ x.up \in Urls /\ x.key \in Keys
  BY Shapes
<1>2. /\ x.config.base \in Urls /\ x.config.token \in Keys /\ x.config.edit \in Edits
      /\ x.config.active \in BOOLEAN
  BY <1>1, Shapes
<1>3. x.auth.key \in Keys /\ x.auth.login \in BOOLEAN
  BY <1>1, Shapes
<1>4. QED
  BY <1>1, <1>2, <1>3

LEMMA UrlType == ASSUME NEW k \in Kinds, NEW x \in Profile PROVE BaseUrl(k, x) \in Urls
<1>1. x.up \in Urls /\ x.config.base \in Urls /\ None \in Urls
  BY Parts DEF Urls
<1>2. CASE k = "chat"
  BY <1>1, <1>2 DEF BaseUrl, Or
<1>3. CASE k = "routes"
  BY <1>1, <1>3 DEF BaseUrl, Or
<1>4. CASE k # "chat" /\ k # "routes"
  BY <1>1, <1>4 DEF BaseUrl, Or
<1>5. QED
  BY <1>2, <1>3, <1>4

LEMMA KeyType ==
    ASSUME NEW k \in Kinds, NEW x \in Profile
    PROVE  /\ ApiKey(k, x) \in {x.auth.key, x.config.token, x.key, None}
           /\ ApiKey(k, x) \in Keys
  BY Parts DEF ApiKey, Or, Or3, Keys

LEMMA CompletedType == ASSUME NEW k \in Kinds, NEW x \in Profile PROVE Completed(k, x) \in Conf
<1>1. /\ Or(Endpoint(k, BaseUrl(k, x)), x.config.base) \in Urls
      /\ Or(ApiKey(k, x), x.config.token) \in Keys
  BY UrlType, KeyType, Parts DEF Endpoint, Or, Urls
<1>2. x.config.edit \in Edits /\ NoAuthToken \in Keys /\ None \in Keys
  BY Parts DEF Keys
<1>3. Completed(k, x).token \in Keys
  BY <1>1, <1>2 DEF Completed
<1>4. QED
  BY <1>1, <1>2, <1>3, Shapes DEF Completed

LEMMA WithKey == ASSUME NEW a \in Credential, NEW key \in Keys
                 PROVE  [a EXCEPT !.key = key] \in Credential
  BY Shapes

LEMMA Rewritten ==
    ASSUME NEW q \in Profile, NEW c \in Conf, NEW u \in Urls, NEW key \in Keys
    PROVE  [q EXCEPT !.config = c, !.up = u, !.auth.key = key]
              = [config |-> c, auth |-> [q.auth EXCEPT !.key = key], up |-> u, key |-> q.key]
<1> DEFINE q1 == [q EXCEPT !.config = c]
           q2 == [q1 EXCEPT !.up = u]
<1>1. [q EXCEPT !.config = c, !.up = u, !.auth.key = key] = [q2 EXCEPT !.auth.key = key]
  OBVIOUS
<1>2. q1 = [config |-> c, auth |-> q.auth, up |-> q.up, key |-> q.key]
  BY Shapes
<1> HIDE DEF q1
<1>3. q2 = [config |-> c, auth |-> q.auth, up |-> u, key |-> q.key]
  BY <1>2
<1> HIDE DEF q2
<1>4. QED
  BY <1>1, <1>3

(* A relay's profile as it is normalised: the key it is completed from is   *)
(* forgotten where none is needed.                                         *)
Keyed(k, x) == IF k = "noauth" THEN [x EXCEPT !.key = None] ELSE x
AuthKey(k, q) == IF k \in KeyKinds THEN Or(ApiKey(k, q), q.auth.key) ELSE None

Rough(k, x) ==
  LET q == Keyed(k, x)
  IN [config |-> Completed(k, q), auth |-> [key |-> AuthKey(k, q), login |-> q.auth.login],
      up |-> BaseUrl(k, q), key |-> q.key]

LEMMA KeyedParts ==
    ASSUME NEW k \in Kinds, NEW x \in Profile
    PROVE  /\ Keyed(k, x) \in Profile /\ AuthKey(k, Keyed(k, x)) \in Keys
           /\ Keyed(k, x).config = x.config /\ Keyed(k, x).auth = x.auth
           /\ Keyed(k, x).up = x.up
           /\ Keyed(k, x).key = IF k = "noauth" THEN None ELSE x.key
<1>1. /\ Keyed(k, x) \in Profile
      /\ Keyed(k, x).config = x.config /\ Keyed(k, x).auth = x.auth
      /\ Keyed(k, x).up = x.up
      /\ Keyed(k, x).key = IF k = "noauth" THEN None ELSE x.key
  BY Shapes DEF Keys, Keyed
<1>2. AuthKey(k, Keyed(k, x)) \in Keys
  BY <1>1, KeyType, Parts DEF AuthKey, Or, Keys
<1>3. QED
  BY <1>1, <1>2

LEMMA RelayParts ==
    ASSUME NEW k \in Kinds, k # "official", NEW x \in Profile
    PROVE  LET q == Keyed(k, x)
               r == Rough(k, x)
               y == Normalized(k, x)
           IN  /\ r \in Profile /\ r.config = Completed(k, q) /\ r.up = BaseUrl(k, q)
               /\ r.auth.key = AuthKey(k, q) /\ r.auth.login = x.auth.login /\ r.key = q.key
               /\ y \in Profile /\ y.config = r.config /\ y.auth = r.auth /\ y.up = r.up
               /\ y.key = IF k = "noauth" THEN None ELSE ApiKey(k, r)
<1> DEFINE q == Keyed(k, x)
           r == Rough(k, x)
           key == IF k = "noauth" THEN None ELSE ApiKey(k, r)
           y == Normalized(k, x)
<1>1. y = [r EXCEPT !.key = key]
  <2>1. y = NormalizedRelay(k, x)
    BY DEF Normalized
  <2>2. NormalizedRelay(k, x) = [r EXCEPT !.key = key]
    BY DEF NormalizedRelay, Rough, Keyed, AuthKey
  <2>3. QED
    BY <2>1, <2>2
<1>2. /\ q \in Profile /\ AuthKey(k, q) \in Keys /\ q.auth = x.auth /\ q.key \in Keys
      /\ q.auth.login \in BOOLEAN /\ Completed(k, q) \in Conf /\ BaseUrl(k, q) \in Urls
  BY KeyedParts, Parts, CompletedType, UrlType
<1>3. /\ r \in Profile /\ r.config = Completed(k, q) /\ r.up = BaseUrl(k, q)
      /\ r.auth.key = AuthKey(k, q) /\ r.auth.login = x.auth.login /\ r.key = q.key
  BY <1>2, Shapes DEF Rough
<1>4. key \in Keys
  BY <1>3, KeyType DEF Keys
<1> HIDE DEF r, key, y
<1>5. y \in Profile /\ y.config = r.config /\ y.auth = r.auth /\ y.up = r.up /\ y.key = key
  BY <1>1, <1>3, <1>4, Shapes
<1>6. QED
  BY <1>3, <1>5 DEF r, key, y

LEMMA NormalizedType == ASSUME NEW k \in Kinds, NEW x \in Profile PROVE Normalized(k, x) \in Profile
<1>1. CASE k = "official"
  <2>1. [key |-> None, login |-> x.auth.login] \in Credential
    BY Parts, Shapes DEF Keys
  <2>2. NormalizedOfficial(x).config \in Conf /\ None \in Urls /\ None \in Keys
    BY Parts, Blanks DEF NormalizedOfficial, Urls, Keys
  <2>3. QED
    BY <1>1, <2>1, <2>2, Shapes DEF Normalized, NormalizedOfficial
<1>2. QED
  BY <1>1, RelayParts

LEMMA OwnEndpointType ==
    ASSUME NEW k \in Kinds, NEW x \in Profile, NEW c \in Conf
    PROVE  /\ OwnEndpoint(k, x, c) \in Conf
           /\ OwnEndpoint(k, x, c).token = c.token
           /\ OwnEndpoint(k, x, c).edit = c.edit
           /\ OwnEndpoint(k, x, c).active = c.active
  BY UrlType, Shapes DEF OwnEndpoint

(* A backfilled profile, by its kind.                                      *)
LEMMA BackfilledParts ==
    ASSUME NEW k \in Kinds, NEW x \in Profile, NEW c \in Conf, NEW a \in Credential
    PROVE  LET d == OwnEndpoint(k, x, c)
               y == Backfilled(k, x, c, a)
               key == ApiKey(k, x)
           IN  /\ y \in Profile /\ y.up = x.up
               /\ y.config.active = c.active /\ y.config.base = d.base /\ y.config.edit = c.edit
               /\ k \in Pure => /\ y.config.token = None /\ y.key = key
                                /\ y.auth.key = key /\ y.auth.login = x.auth.login
               /\ k = "mix" => /\ y.config.token = key /\ y.key = key
                               /\ y.auth.key = None /\ y.auth.login = a.login
               /\ k \notin Pure /\ k # "mix" =>
                     /\ y.config.token \in {None, c.token} /\ y.key = Or(c.token, x.key)
                     /\ c.token = None => y.auth = a
<1> DEFINE d == OwnEndpoint(k, x, c)
           y == Backfilled(k, x, c, a)
           key == ApiKey(k, x)
<1>1. /\ d \in Conf /\ d.token = c.token /\ d.edit = c.edit /\ d.active = c.active
      /\ key \in Keys /\ None \in Keys
  BY OwnEndpointType, KeyType DEF Keys
<1>2. y = Credentials(k, x, d, a)
  BY DEF Backfilled
<1> HIDE DEF d, y, key
<1>3. CASE k \in Pure
  <2>1. /\ [d EXCEPT !.token = None] \in Conf
        /\ [x.auth EXCEPT !.key = key] \in Credential
    BY <1>1, WithKey, Parts, Shapes
  <2>2. y = [x EXCEPT !.config = [d EXCEPT !.token = None], !.auth.key = key, !.key = key]
    BY <1>2, <1>3 DEF Credentials, Pure, KeyKinds, key
  <2>3. y = [config |-> [d EXCEPT !.token = None], auth |-> [x.auth EXCEPT !.key = key],
             up |-> x.up, key |-> key]
    BY <2>2, Shapes
  <2>4. y \in Profile
    BY <1>1, <2>1, <2>3, Parts, Shapes
  <2>5. QED
    BY <1>1, <1>3, <2>3, <2>4, Shapes DEF d, y, key, Pure, KeyKinds
<1>4. CASE k = "mix"
  <2>1. /\ [d EXCEPT !.token = key] \in Conf
        /\ [a EXCEPT !.key = None] \in Credential
    BY <1>1, WithKey, Shapes
  <2>2. y = [config |-> [d EXCEPT !.token = key], auth |-> [a EXCEPT !.key = None],
             up |-> x.up, key |-> key]
    BY <1>2, <1>4, Shapes DEF Credentials, Pure, KeyKinds, key
  <2>3. y \in Profile
    BY <1>1, <2>1, <2>2, Parts, Shapes
  <2>4. QED
    BY <1>1, <1>4, <2>2, <2>3, Shapes DEF d, y, key, Pure, KeyKinds
<1>5. CASE k \notin Pure /\ k # "mix"
  <2> DEFINE f == IF a = NoAuth \/ a.key # None THEN [d EXCEPT !.token = None] ELSE d
             b == IF a = NoAuth /\ d.token # None THEN [x.auth EXCEPT !.key = d.token] ELSE a
  <2>1. f \in Conf /\ b \in Credential /\ d.token \in Keys
    BY <1>1, WithKey, Parts, Shapes
  <2>2. Or(d.token, x.key) \in Keys
    BY <2>1, Parts DEF Or
  <2>3. y = [config |-> f, auth |-> b, up |-> x.up, key |-> Or(d.token, x.key)]
    BY <1>2, <1>5, Shapes DEF Credentials
  <2>4. /\ f.active = c.active /\ f.base = d.base /\ f.edit = c.edit /\ f.token \in {None, c.token}
    BY <1>1, Shapes
  <2> HIDE DEF f
  <2>5. y \in Profile
    BY <2>1, <2>2, <2>3, Parts, Shapes
  <2>6. QED
    BY <1>1, <1>5, <2>3, <2>4, <2>5 DEF d, y, key
<1>6. QED
  BY <1>3, <1>4, <1>5

LEMMA WrittenType ==
    ASSUME NEW k \in Kinds, NEW x \in Profile, NEW c \in Conf, NEW a \in Credential
    PROVE  ConfigFor(k, x, c) \in Conf /\ AuthFor(k, x, a) \in Credential
<1>1. ConfigFor(k, x, c) \in Conf
  BY CompletedType, Shapes DEF ConfigFor, Cleared, Keys
<1>2. x.auth \in Credential /\ x.auth.login \in BOOLEAN /\ a.login \in BOOLEAN /\ None \in Keys
  BY Parts, Shapes DEF Keys
<1>3. AuthFor(k, x, a) \in Credential
  BY <1>2, WithKey, Shapes DEF AuthFor
<1>4. QED
  BY <1>1, <1>3

(***************************************************************************)
(* The inductive invariant, in two halves. The first holds whatever breaks *)
(* in: what profiles and files may contain, in settings.json, in what a    *)
(* command holds and in what it is about to write.                         *)
(***************************************************************************)
Home(p, x) == {x.key, x.auth.key, x.config.token} \subseteq {p, None, NoAuthToken}
Plain(x) == x.key = None /\ x.auth.key = None /\ x.config.token = None
Pending(x) == x.config.token = None \/ x.key # None

\* A profile as it is stored, and as it is before it is normalised.
Stored(p, x) == IF Kind[p] = "official" THEN Plain(x) ELSE Home(p, x)
Held(p, x) == IF Kind[p] = "official" THEN Pending(x) ELSE Home(p, x)

AllStored(s) ==
  s \in SettingsType /\ s.active \in s.ids /\ \A p \in s.ids : Stored(p, s.prof[p])
AllHeld(s) ==
  s \in SettingsType /\ s.active \in s.ids /\ \A p \in s.ids : Held(p, s.prof[p])

Stages == {"idle", "capture", "save", "load", "apply", "auth", "config", "check", "done",
           "undo", "undoconfig", "undoauth", "failed"}
Later == {"apply", "auth", "config", "check", "done", "undo", "undoconfig", "undoauth"}
Files == [config: Conf, auth: Credential]
Commands == [pc: Stages, what: {"switch", "restart"}, prev: Ids, set: SettingsType,
             orig: SettingsType, read: BOOLEAN, snap: Files, write: Files, old: Files]
Budgets == [commands: Nat, errors: Nat, edits: Edits, outside: Nat]
Befores == SettingsType \X Conf \X Credential

TypeInv ==
  /\ AllStored(settings) /\ AllStored(form) /\ \A s \in copy : AllStored(s)
  /\ config \in Conf /\ auth \in Credential
  /\ clean \in BOOLEAN /\ latest \in [Ids -> Edits] /\ overwritten \in SUBSET Ids
  /\ budget \in Budgets

CommandInv ==
  /\ cmd \in Commands
  /\ cmd.pc = "idle" => cmd = Idle /\ before = <<>>
  /\ cmd.pc # "idle" => before \in Befores /\ AllHeld(cmd.set)
  /\ cmd.pc \notin {"idle", "capture", "save", "load", "failed"} => AllStored(cmd.set)
  /\ cmd.what = "switch" /\ cmd.pc \notin {"idle", "capture", "failed"} => AllStored(cmd.orig)

WriteInv ==
  /\ cmd.pc \in {"auth", "config", "check", "done"}
       => Live(cmd.set, cmd.write.config, cmd.write.auth)
  /\ cmd.pc \in {"config", "check", "done"} => auth = cmd.write.auth
  /\ cmd.pc \in {"check", "done"} => Provider(config) = Provider(cmd.write.config)

FileInv == TypeInv /\ CommandInv /\ WriteInv

(***************************************************************************)
(* The second half holds as long as nothing breaks in, and where no relay  *)
(* does without a key: every profile is the one its user made, the live    *)
(* files are those of the active one, and a command knows both.            *)
(***************************************************************************)
\* The provider in config.toml is that of p.
Sends(p, c) ==
  CASE Kind[p] = "official" -> ~c.active /\ c.token = None
    [] Kind[p] = "mix" -> Provider(c) = <<TRUE, p, p>>
    [] OTHER -> Provider(c) = <<TRUE, IF Kind[p] \in ProxyKinds THEN Proxy ELSE p, None>>

\* The profile x is the one the user of p made, as it is stored, and as it may be
\* before: one with routes that was just backfilled has its own endpoint.
Own(p) == IF Kind[p] = "official" THEN None ELSE p
Owned(p, x) ==
  /\ x.up = Own(p) /\ x.key = Own(p)
  /\ x.auth.key = IF Kind[p] \in Pure THEN p ELSE None
Canonical(p, x) == Owned(p, x) /\ Sends(p, x.config)
Usable(p, x) ==
  /\ Owned(p, x)
  /\ Sends(p, x.config) \/ (Kind[p] = "routes" /\ Provider(x.config) = <<TRUE, p, None>>)

AllCanonical(s) == \A p \in s.ids : Canonical(p, s.prof[p])
AllUsable(s) == \A p \in s.ids : Usable(p, s.prof[p])

\* auth.json is that of p, whose profile is x, or keeps a ChatGPT login for it.
Opens(p, x, a) == IF Kind[p] \in Pure THEN a = x.auth
                                      ELSE a.key = None /\ (x.auth.login => a.login)
LoginIn(s) == \E p \in s.ids : s.prof[p].auth.login

Settled(s, c, a) ==
  /\ AllCanonical(s)
  /\ Sends(s.active, c) /\ Opens(s.active, Active(s), a)
  /\ a.login \/ LoginIn(s)

\* The edits of config.toml are where they belong, but for those of some profiles.
EditsKept(s, c, last, over) ==
  \A p \in s.ids \ over : Kind[p] # "official" =>
    last[p] = IF p = s.active THEN c.edit ELSE s.prof[p].config.edit

RestInv == cmd.pc = "idle" =>
  Settled(settings, config, auth) /\ EditsKept(settings, config, latest, overwritten)

BeforeInv == cmd.pc # "idle" =>
  /\ AllStored(before[1]) /\ Settled(before[1], before[2], before[3])
  /\ EditsKept(before[1], before[2], latest, overwritten)

\* No edit came in since the command began: it would have put both profiles there.
Quiet == cmd.prev \notin overwritten \/ cmd.set.active \notin overwritten

\* What a command is about to save: only the profile being left is changed.
SetInv == cmd.pc # "idle" =>
  /\ cmd.prev = before[1].active /\ cmd.set.ids = before[1].ids
  /\ AllStored(cmd.set) /\ AllUsable(cmd.set)
  /\ cmd.pc \in Later => AllCanonical(cmd.set)
  /\ \A p \in Ids : p # cmd.prev => cmd.set.prof[p] = before[1].prof[p]
  /\ cmd.what = "restart" => cmd.set.active = cmd.prev
  /\ cmd.set.active = cmd.prev => cmd.set.prof[cmd.prev] = before[1].prof[cmd.prev]
  /\ cmd.set.active # cmd.prev =>
       /\ cmd.set.prof[cmd.prev].auth.login
            = IF Kind[cmd.prev] \in Pure THEN before[1].prof[cmd.prev].auth.login
                                         ELSE before[3].login
       /\ Quiet => cmd.set.prof[cmd.prev].config.edit = before[2].edit

\* Settings.json and what would be given back of it.
StoreInv == cmd.pc # "idle" =>
  /\ cmd.pc \in {"capture", "save", "undoconfig", "undoauth", "failed"} => settings = before[1]
  /\ cmd.pc = "load" => settings = Normal(cmd.set)
  /\ cmd.pc \in {"apply", "auth", "config", "check", "done", "undo"} => settings = cmd.set
  /\ cmd.what = "switch" /\ cmd.read /\ cmd.pc \notin {"capture", "failed"} => cmd.orig = before[1]
  /\ form = before[1]

\* A config.toml as it was before, up to the edits that came in since.
Same(c, d, quiet) == Provider(c) = Provider(d) /\ (quiet => c.edit = d.edit)

\* The live files, those to give back and those to write.
LiveInv == cmd.pc # "idle" =>
  /\ cmd.pc \notin {"capture", "failed"} =>
       Same(cmd.snap.config, before[2], Quiet) /\ cmd.snap.auth = before[3]
  /\ cmd.pc \in {"capture", "save", "load", "apply", "auth", "config", "undoauth", "failed"}
       => Same(config, before[2], Quiet)
  /\ cmd.pc \in {"capture", "save", "load", "apply", "auth", "failed"} => auth = before[3]
  /\ cmd.pc \in {"auth", "config", "check", "done"} =>
       /\ cmd.write.auth = AuthFor(Kind[cmd.set.active], Active(cmd.set), before[3])
       /\ Sends(cmd.set.active, cmd.write.config)
       /\ Kind[cmd.set.active] # "official"
            => cmd.write.config.edit = Active(cmd.set).config.edit
  /\ cmd.pc \in {"check", "done"} /\ Quiet => config.edit = cmd.write.config.edit

CopyInv == \A s \in copy : AllCanonical(s)

FormInv == cmd.pc = "idle" => form = settings

Undisturbed ==
  /\ CopyInv /\ RestInv /\ FormInv /\ AllCanonical(settings)
  /\ BeforeInv /\ SetInv /\ StoreInv /\ LiveInv

CleanInv == clean => Undisturbed

(***************************************************************************)
(* Keys: what normalising, backfilling and writing a profile do to them.   *)
(***************************************************************************)
LEMMA KindType == \A p \in Ids : Kind[p] \in Kinds
  BY ConstantsAssumption

(* A profile that is stored is one that may be normalised.                 *)
LEMMA StoredHeld == ASSUME NEW p \in Ids, NEW x, Stored(p, x) PROVE Held(p, x)
  BY DEF Stored, Held, Plain, Pending

(* A new profile holds its own key and no other.                           *)
LEMMA NewHeld == \A p \in Ids : Held(p, NewProfile(p))
  BY DEF Held, Home, Pending, NewProfile, NoConfig, NoAuth

(* Whatever is held before, a normalised profile may be stored.            *)
LEMMA NormalizedStored ==
    ASSUME NEW p \in Ids, NEW x \in Profile, Held(p, x)
    PROVE  Stored(p, Normalized(Kind[p], x))
<1> DEFINE k == Kind[p]
<1>1. CASE k = "official"
  <2> DEFINE y == NormalizedOfficial(x)
  <2>1. y.key = None /\ y.auth.key = None
    BY DEF NormalizedOfficial
  <2>2. y.config.token = None
    BY <1>1 DEF NormalizedOfficial, NoConfig, Held, Pending
  <2>3. QED
    BY <1>1, <2>1, <2>2 DEF Normalized, Stored, Plain
<1>2. CASE k # "official"
  <2> DEFINE q == Keyed(k, x)
             r == Rough(k, x)
             y == Normalized(k, x)
             allowed == {p, None, NoAuthToken}
  <2>1. /\ r \in Profile /\ r.config = Completed(k, q)
        /\ r.auth.key = AuthKey(k, q) /\ r.key = q.key
        /\ y.config = r.config /\ y.auth = r.auth
        /\ y.key = IF k = "noauth" THEN None ELSE ApiKey(k, r)
    BY <1>2, RelayParts, KindType
  <2>2. /\ q \in Profile /\ q.config = x.config /\ q.auth = x.auth
        /\ q.key = IF k = "noauth" THEN None ELSE x.key
    BY KeyedParts, KindType
  <2>3. {x.key, x.auth.key, x.config.token, None, NoAuthToken} \subseteq allowed
    BY <1>2 DEF Held, Home
  <2>4. ApiKey(k, q) \in allowed
    <3>1. ApiKey(k, q) \in {q.auth.key, q.config.token, q.key, None}
      BY <2>2, KeyType, KindType
    <3>2. QED
      BY <2>2, <2>3, <3>1
  <2> HIDE DEF q, r, y
  <2>5. r.auth.key \in allowed
    <3>1. r.auth.key = AuthKey(k, q)
      BY <2>1
    <3>2. QED
      BY <2>2, <2>3, <2>4, <3>1 DEF AuthKey, Or
  <2>6. r.config.token \in allowed
    <3>1. r.config.token = Completed(k, q).token
      BY <2>1
    <3>2. QED
      BY <2>2, <2>3, <2>4, <3>1 DEF Completed, Or
  <2>7. r.key \in allowed
    BY <2>1, <2>2, <2>3
  <2>8. ApiKey(k, r) \in allowed
    <3>1. ApiKey(k, r) \in {r.auth.key, r.config.token, r.key, None}
      BY <2>1, KeyType, KindType
    <3>2. QED
      BY <2>3, <2>5, <2>6, <2>7, <3>1
  <2> HIDE DEF allowed
  <2>9. y.key \in allowed /\ y.auth = r.auth /\ y.config = r.config
    BY <2>1, <2>3, <2>8
  <2>10. QED
    BY <1>2, <2>5, <2>6, <2>9 DEF y, allowed, Stored, Home
<1>3. QED
  BY <1>1, <1>2

(* Backfilling a profile brings no other key into it, whatever the files.  *)
LEMMA BackfilledHeld ==
    ASSUME NEW p \in Ids, NEW x \in Profile, NEW c \in Conf, NEW a \in Credential, Held(p, x)
    PROVE  Backfilled(Kind[p], x, c, a) \in Profile /\ Held(p, Backfilled(Kind[p], x, c, a))
<1> DEFINE k == Kind[p]
           y == Backfilled(k, x, c, a)
           key == ApiKey(k, x)
<1>1. /\ y \in Profile
      /\ k \in Pure => y.config.token = None /\ y.key = key /\ y.auth.key = key
      /\ k = "mix" => y.config.token = key /\ y.key = key /\ y.auth.key = None
      /\ k \notin Pure /\ k # "mix" =>
           y.config.token \in {None, c.token} /\ y.key = Or(c.token, x.key)
  BY BackfilledParts, KindType
<1>2. k \in Pure \/ k = "mix" \/ k = "official"
  BY ConstantsAssumption DEF Kinds
<1>3. key \in {x.auth.key, x.config.token, x.key, None}
  BY KeyType, KindType
<1> HIDE DEF y, key
<1>4. CASE k \in Pure
  BY <1>1, <1>3, <1>4 DEF Held, Home, Pure, KeyKinds, y
<1>5. CASE k = "mix"
  BY <1>1, <1>3, <1>5 DEF Held, Home, y
<1>6. CASE k = "official"
  BY <1>1, <1>6 DEF Held, Pending, Or, Pure, KeyKinds, y
<1>7. QED
  BY <1>2, <1>4, <1>5, <1>6

(* The settings: every profile of an id there is gets normalised.          *)
LEMMA NormalStored ==
    ASSUME NEW s, AllHeld(s)
    PROVE  AllStored(Normal(s)) /\ Normal(s).ids = s.ids /\ Normal(s).active = s.active
<1> DEFINE f == [p \in Ids |-> IF p \in s.ids THEN Normalized(Kind[p], s.prof[p]) ELSE s.prof[p]]
<1>1. s \in SettingsType /\ s.active \in s.ids /\ s.ids \subseteq Ids
  BY DEF AllHeld, SettingsType
<1>2. \A p \in Ids : s.prof[p] \in Profile
  BY <1>1 DEF SettingsType, Profile
<1>3. f \in [Ids -> Profile]
  BY <1>2, NormalizedType, KindType
<1>4. \A p \in s.ids : Stored(p, f[p])
  BY <1>1, <1>2, NormalizedStored DEF AllHeld
<1>5. Normal(s) = [s EXCEPT !.prof = f]
  BY DEF Normal
<1> HIDE DEF f
<1>6. /\ Normal(s) \in SettingsType /\ Normal(s).ids = s.ids /\ Normal(s).active = s.active
      /\ Normal(s).prof = f
  BY <1>1, <1>3, <1>5 DEF SettingsType, Profile
<1>7. QED
  BY <1>1, <1>4, <1>6 DEF AllStored

LEMMA AllStoredHeld == ASSUME NEW s, AllStored(s) PROVE AllHeld(s)
<1>1. s.ids \subseteq Ids
  BY DEF AllStored, SettingsType
<1>2. QED
  BY <1>1, StoredHeld DEF AllStored, AllHeld

LEMMA ReNormalStored ==
    ASSUME NEW s, AllStored(s)
    PROVE  AllStored(Normal(s)) /\ Normal(s).ids = s.ids /\ Normal(s).active = s.active
  BY AllStoredHeld, NormalStored

(* Settings in which one profile was backfilled are those of a command.    *)
LEMMA BackfilledSettings ==
    ASSUME NEW s, AllHeld(s), NEW q \in Ids, NEW c \in Conf, NEW a \in Credential
    PROVE  LET t == [s EXCEPT !.prof[q] = Backfilled(Kind[q], @, c, a)]
           IN  /\ AllHeld(t)
               /\ t \in SettingsType /\ t.ids = s.ids /\ t.active = s.active
               /\ t.prof = [s.prof EXCEPT ![q] = Backfilled(Kind[q], s.prof[q], c, a)]
<1> DEFINE y == Backfilled(Kind[q], s.prof[q], c, a)
           f == [s.prof EXCEPT ![q] = y]
           t == [s EXCEPT !.prof[q] = Backfilled(Kind[q], @, c, a)]
<1>1. /\ s \in SettingsType /\ s.active \in s.ids /\ s.ids \subseteq Ids
      /\ s.prof \in [Ids -> Profile] /\ s.prof[q] \in Profile
  BY DEF AllHeld, SettingsType, Profile
<1>2. y \in Profile
  BY <1>1, BackfilledParts, KindType
<1>3. q \in s.ids => Held(q, y)
  BY <1>1, BackfilledHeld, KindType DEF AllHeld
<1>4. t = [s EXCEPT !.prof = f]
  BY <1>1
<1> HIDE DEF y, t
<1>5. f \in [Ids -> Profile] /\ f[q] = y /\ \A p \in Ids : p # q => f[p] = s.prof[p]
  BY <1>1, <1>2
<1> HIDE DEF f
<1>6. t \in SettingsType /\ t.ids = s.ids /\ t.active = s.active /\ t.prof = f
  BY <1>1, <1>4, <1>5 DEF SettingsType, Profile
<1>7. AllHeld(t)
  BY <1>1, <1>3, <1>5, <1>6 DEF AllHeld
<1>8. QED
  BY <1>6, <1>7 DEF t, f, y

(***************************************************************************)
(* Commands: one step of one changes a few of its fields.                  *)
(***************************************************************************)
LEMMA StageChanged ==
    ASSUME NEW c \in Commands, NEW e \in Stages
    PROVE  LET d == [c EXCEPT !.pc = e]
           IN  /\ d \in Commands /\ d.pc = e /\ d.what = c.what /\ d.prev = c.prev
               /\ d.set = c.set /\ d.orig = c.orig /\ d.read = c.read
               /\ d.snap = c.snap /\ d.write = c.write /\ d.old = c.old
  BY DEF Commands

(* Settings made of new profiles, the default ones among them.             *)
LEMMA FreshStored ==
    ASSUME NEW some \in SUBSET Ids, Default \in some
    PROVE  LET s == Normal([ids |-> some, active |-> Default, prof |-> [p \in Ids |-> NewProfile(p)]])
           IN  AllStored(s) /\ s.ids = some /\ s.active = Default
<1> DEFINE t == [ids |-> some, active |-> Default, prof |-> [p \in Ids |-> NewProfile(p)]]
<1>1. [p \in Ids |-> NewProfile(p)] \in [Ids -> Profile]
  BY Blanks
<1>2. t \in SettingsType /\ t.active \in t.ids
  BY <1>1, ConstantsAssumption DEF SettingsType, Profile
<1>3. \A p \in t.ids : Held(p, t.prof[p])
  BY NewHeld
<1>4. QED
  BY <1>2, <1>3, NormalStored DEF AllHeld

LEMMA DefaultsStored == AllStored(Defaults) /\ Defaults \in SettingsType /\ Default \in Ids
<1>1. Default \in Ids
  BY ConstantsAssumption
<1>2. AllStored(Defaults)
  BY <1>1, FreshStored DEF Defaults
<1>3. QED
  BY <1>1, <1>2 DEF AllStored

LEMMA IdleType == Idle \in Commands /\ Idle.pc = "idle" /\ Idle.what = "switch" /\ Idle.read = TRUE
<1>1. NoFiles \in Files
  BY Blanks DEF NoFiles, Files
<1>2. QED
  BY <1>1, DefaultsStored DEF Idle, Commands, Stages

(* What is written for a stored profile is what its live files are.        *)
LEMMA LiveWritten ==
    ASSUME NEW s, AllStored(s), NEW c \in Conf, NEW a \in Credential
    PROVE  Live(s, ConfigFor(Kind[s.active], Active(s), c), AuthFor(Kind[s.active], Active(s), a))
<1> DEFINE k == Kind[s.active]
           x == Active(s)
<1>1. x \in Profile /\ Stored(s.active, x) /\ s.active \in Ids
  BY DEF AllStored, SettingsType, Profile, Active
<1>2. k \in Kinds
  BY <1>1, ConstantsAssumption
<1>3. CASE k = "official"
  <2>1. /\ Provider(Cleared(c)) = <<FALSE, c.base, None>>
        /\ Provider(Cleared(Cleared(c))) = <<FALSE, c.base, None>>
    BY Shapes DEF Provider, Cleared, Keys
  <2>2. AuthFor(k, x, a).key = None
    BY <1>1, <1>3, Shapes DEF AuthFor, Stored, Plain
  <2>3. QED
    BY <1>3, <2>1, <2>2 DEF Live, ConfigFor, Provider
<1>4. CASE k # "official"
  <2>1. AuthFor(k, x, AuthFor(k, x, a)).key = AuthFor(k, x, a).key
    BY <1>2, <1>4 DEF AuthFor
  <2>2. QED
    BY <1>4, <2>1 DEF Live, ConfigFor
<1>5. QED
  BY <1>3, <1>4

(* Only the provider in config.toml and the key in auth.json count.        *)
LEMMA LiveDepends ==
    ASSUME NEW s, s.active \in Ids, NEW c, NEW d, NEW a, NEW b,
           c \in Conf, d \in Conf, Provider(c) = Provider(d), a.key = b.key
    PROVE  Live(s, c, a) = Live(s, d, b)
<1> DEFINE k == Kind[s.active]
<1>1. c.active = d.active /\ c.base = d.base /\ c.token = d.token
  BY DEF Provider
<1>2. k \in Kinds
  BY ConstantsAssumption
<1>3. CASE k = "official"
  <2>1. /\ Provider(Cleared(c)) = <<FALSE, c.base, None>>
        /\ Provider(Cleared(d)) = <<FALSE, d.base, None>>
    BY Shapes DEF Provider, Cleared, Keys
  <2>2. QED
    BY <1>1, <1>3, <2>1 DEF Live, ConfigFor, Provider
<1>4. CASE k # "official"
  <2>1. AuthFor(k, Active(s), a).key = AuthFor(k, Active(s), b).key
    BY <1>2, <1>4 DEF AuthFor
  <2>2. QED
    BY <1>1, <1>4, <2>1 DEF Live, ConfigFor
<1>5. QED
  BY <1>3, <1>4

(***************************************************************************)
(* The first half of the invariant.                                        *)
(***************************************************************************)
LEMMA InitFiles == Init => FileInv
<1> SUFFICES ASSUME Init PROVE FileInv
  OBVIOUS
<1> DEFINE t == [ids |-> Ids \ Imports, active |-> Default, prof |-> [p \in Ids |-> NewProfile(p)]]
           s == Normal(t)
<1>4. AllStored(s)
  BY ConstantsAssumption, FreshStored
<1>5. PICK p \in s.ids : settings = [s EXCEPT !.active = p]
  BY DEF Init
<1> HIDE DEF s
<1>6. AllStored(settings)
  BY <1>4, <1>5 DEF AllStored, SettingsType
<1>7. auth \in Credential
  BY Shapes DEF Init, Keys
<1>8. config \in Conf
  <2>1. Active(settings) \in Profile /\ settings.active \in Ids
    BY <1>6 DEF AllStored, SettingsType, Active, Profile
  <2>2. QED
    BY <1>7, <2>1, Blanks, WrittenType, KindType DEF Init
<1>9. latest \in [Ids -> Edits] /\ overwritten \in SUBSET Ids /\ budget \in Budgets
  BY ConstantsAssumption DEF Init, Edits, Budgets
<1>10. TypeInv
  BY <1>6, <1>7, <1>8, <1>9 DEF Init, TypeInv
<1>11. CommandInv
  BY IdleType DEF Init, CommandInv
<1>12. WriteInv
  BY IdleType DEF Init, WriteInv
<1>13. QED
  BY <1>10, <1>11, <1>12 DEF FileInv

(* What is left of a budget.                                               *)
LEMMA Spent ==
    ASSUME budget \in Budgets, NEW what \in {"commands", "errors", "edits", "outside"},
           Spend(what)
    PROVE  /\ budget' \in Budgets
           /\ what # "edits" => budget'.edits = budget.edits
           /\ what = "edits" => budget'.edits = budget.edits - 1 /\ budget.edits > 0
  BY ConstantsAssumption DEF Budgets, Spend, Edits

LEMMA SpentOutside ==
    ASSUME budget \in Budgets, NEW failed \in {0, 1}, SpendOutside(failed)
    PROVE  budget' \in Budgets
<1>1. /\ budget.outside - 1 \in Nat /\ budget.errors - failed \in Nat
      /\ budget' = [budget EXCEPT !.outside = budget.outside - 1, !.errors = budget.errors - failed]
  BY DEF Budgets, SpendOutside
<1> DEFINE b == [budget EXCEPT !.outside = budget.outside - 1]
<1>2. b \in Budgets
  BY <1>1 DEF Budgets
<1>3. budget' = [b EXCEPT !.errors = budget.errors - failed]
  BY <1>1
<1> HIDE DEF b
<1>4. QED
  BY <1>1, <1>2, <1>3 DEF Budgets

(* Settings that were read and normalised.                                 *)
LEMMA ActiveType ==
    ASSUME NEW s, AllStored(s)
    PROVE  s \in SettingsType /\ s.active \in Ids /\ Active(s) \in Profile
  BY DEF AllStored, SettingsType, Active, Profile

(* The settings a command works with once the profile left is backfilled.  *)
LEMMA LeftHeld ==
    ASSUME NEW s, AllHeld(s), NEW q \in Ids, config \in Conf, auth \in Credential
    PROVE  AllHeld(BackfilledBefore(s, q)) /\ BackfilledBefore(s, q) \in SettingsType
<1> DEFINE t == [s EXCEPT !.prof[q] = Backfilled(Kind[q], @, config, auth)]
<1>1. AllHeld(t) /\ t \in SettingsType
  BY BackfilledSettings
<1>2. BackfilledBefore(s, q) = IF q = s.active THEN s ELSE t
  BY DEF BackfilledBefore
<1> HIDE DEF t
<1>3. QED
  BY <1>1, <1>2 DEF AllHeld

LEMMA ChooseFiles == ASSUME FileInv, NEW p \in Ids, Choose(p) PROVE FileInv'
<1> DEFINE sent == [form EXCEPT !.active = p]
           set == BackfilledBefore(sent, form.active)
<1>1. AllStored(form) /\ AllStored(settings) /\ config \in Conf /\ auth \in Credential
  BY DEF FileInv, TypeInv
<1>2. AllHeld(sent) /\ form.active \in Ids
  <2>1. AllHeld(form) /\ p \in form.ids /\ form.active \in Ids
    BY <1>1, AllStoredHeld, ActiveType DEF Choose
  <2>2. QED
    BY <2>1 DEF AllHeld, SettingsType
<1>3. cmd' = [Idle EXCEPT !.pc = "capture", !.prev = form.active, !.set = set]
  BY DEF Choose
<1> HIDE DEF sent
<1>4. AllHeld(set) /\ set \in SettingsType
  BY <1>1, <1>2, LeftHeld
<1> HIDE DEF set
<1>5. cmd' \in Commands /\ cmd'.pc = "capture" /\ cmd'.set = set
  BY <1>2, <1>3, <1>4, IdleType DEF Commands, Stages
<1>6. budget' \in Budgets
  BY Spent DEF Choose, FileInv, TypeInv
<1>7. TypeInv'
  BY <1>6 DEF Choose, files, FileInv, TypeInv
<1>8. before' \in Befores
  <2>1. before' = <<settings, config, auth>>
    BY DEF Choose
  <2>2. QED
    BY <1>1, <2>1, ActiveType DEF Befores
<1>9. CommandInv'
  BY <1>4, <1>5, <1>8 DEF CommandInv
<1>10. WriteInv'
  BY <1>5 DEF WriteInv
<1>11. QED
  BY <1>7, <1>9, <1>10 DEF FileInv

LEMMA CaptureFiles == ASSUME FileInv, Capture \/ CaptureUnread PROVE FileInv'
<1> DEFINE set == BackfilledBefore(cmd.set, cmd.prev)
<1>1. PICK orig \in {Normal(settings), Defaults}, read \in BOOLEAN : Captured(orig, read)
  BY DEF Capture, CaptureUnread
<1>2. /\ AllHeld(cmd.set) /\ cmd \in Commands /\ cmd.prev \in Ids /\ before \in Befores
      /\ AllStored(settings) /\ config \in Conf /\ auth \in Credential
  BY <1>1 DEF Captured, Step, FileInv, CommandInv, TypeInv, Commands
<1>3. AllHeld(set) /\ set \in SettingsType
  BY <1>2, LeftHeld
<1>4. AllStored(orig) /\ orig \in SettingsType /\ LiveFiles \in Files
  <2>1. AllStored(orig)
    BY <1>2, ReNormalStored, DefaultsStored
  <2>2. QED
    BY <1>2, <2>1 DEF AllStored, LiveFiles, Files
<1> HIDE DEF set
<1>5. cmd' = [cmd EXCEPT !.pc = "save", !.set = set, !.orig = orig, !.read = read,
                !.snap = LiveFiles]
  BY <1>1, <1>2 DEF Captured, set, Commands
<1>6. /\ cmd'.set = set /\ cmd'.orig = orig /\ cmd'.pc = "save" /\ cmd'.what = cmd.what
      /\ cmd' \in Commands
  BY <1>2, <1>3, <1>4, <1>5 DEF Commands, Stages
<1>7. budget' \in Budgets
  BY Spent DEF Capture, CaptureUnread, FileInv, TypeInv
<1>8. TypeInv'
  BY <1>1, <1>7 DEF Captured, files, history, FileInv, TypeInv
<1>9. CommandInv'
  BY <1>1, <1>2, <1>3, <1>4, <1>6 DEF CommandInv, Captured, history
<1>10. WriteInv'
  BY <1>6 DEF WriteInv
<1>11. QED
  BY <1>8, <1>9, <1>10 DEF FileInv

LEMMA SaveFiles == ASSUME FileInv, Save PROVE FileInv'
<1>1. cmd \in Commands /\ AllHeld(cmd.set) /\ before \in Befores /\ cmd.pc = "save"
      /\ (cmd.what = "switch" => AllStored(cmd.orig))
  BY DEF Save, Step, FileInv, CommandInv
<1>2. /\ cmd' \in Commands /\ cmd'.pc = "load" /\ cmd'.set = cmd.set /\ cmd'.orig = cmd.orig
      /\ cmd'.what = cmd.what
  BY <1>1, StageChanged DEF Save, Stages
<1>3. AllStored(settings')
  BY <1>1, NormalStored DEF Save
<1>4. TypeInv'
  BY <1>3 DEF Save, history, FileInv, TypeInv
<1>5. CommandInv'
  BY <1>1, <1>2 DEF Save, history, CommandInv
<1>6. WriteInv'
  BY <1>2 DEF WriteInv
<1>7. QED
  BY <1>4, <1>5, <1>6 DEF FileInv

LEMMA LoadFiles == ASSUME FileInv, Load PROVE FileInv'
<1>1. /\ cmd \in Commands /\ before \in Befores /\ cmd.pc = "load" /\ AllStored(settings)
      /\ (cmd.what = "switch" => AllStored(cmd.orig))
  BY DEF Load, Step, FileInv, CommandInv, TypeInv
<1>2. AllStored(Normal(settings)) /\ Normal(settings) \in SettingsType
  BY <1>1, ReNormalStored DEF AllStored
<1>3. /\ cmd' \in Commands /\ cmd'.pc = "apply" /\ cmd'.set = Normal(settings)
      /\ cmd'.orig = cmd.orig /\ cmd'.what = cmd.what
  BY <1>1, <1>2 DEF Load, Commands, Stages
<1>4. TypeInv'
  BY DEF Load, files, history, FileInv, TypeInv
<1>5. CommandInv'
  BY <1>1, <1>2, <1>3, AllStoredHeld DEF Load, history, CommandInv
<1>6. WriteInv'
  BY <1>3 DEF WriteInv
<1>7. QED
  BY <1>4, <1>5, <1>6 DEF FileInv

LEMMA BeginRestartFiles == ASSUME FileInv, BeginRestart PROVE FileInv'
<1>1. AllStored(settings) /\ config \in Conf /\ auth \in Credential
  BY DEF FileInv, TypeInv
<1>2. /\ AllStored(Normal(settings)) /\ Normal(settings) \in SettingsType /\ LiveFiles \in Files
      /\ settings.active \in Ids
  BY <1>1, ReNormalStored, ActiveType DEF AllStored, LiveFiles, Files
<1>3. /\ cmd' \in Commands /\ cmd'.pc = "apply" /\ cmd'.set = Normal(settings)
      /\ cmd'.what = "restart"
  BY <1>2, IdleType DEF BeginRestart, Commands, Stages
<1>4. budget' \in Budgets
  BY Spent DEF BeginRestart, FileInv, TypeInv
<1>5. TypeInv'
  BY <1>4 DEF BeginRestart, files, FileInv, TypeInv
<1>6. before' \in Befores
  <2>1. before' = <<settings, config, auth>>
    BY DEF BeginRestart
  <2>2. QED
    BY <1>1, <2>1, ActiveType DEF Befores
<1>7. CommandInv'
  BY <1>2, <1>3, <1>6, AllStoredHeld DEF CommandInv
<1>8. WriteInv'
  BY <1>3 DEF WriteInv
<1>9. QED
  BY <1>5, <1>7, <1>8 DEF FileInv

LEMMA ApplyFiles == ASSUME FileInv, Apply \/ ApplyUnread PROVE FileInv'
<1>1. PICK c \in {config, NoConfig} : Applied(c)
  BY DEF Apply, ApplyUnread
<1> DEFINE k == Kind[cmd.set.active]
           x == Active(cmd.set)
           w == [config |-> ConfigFor(k, x, c), auth |-> AuthFor(k, x, auth)]
<1>2. /\ cmd \in Commands /\ before \in Befores /\ cmd.pc = "apply" /\ AllStored(cmd.set)
      /\ (cmd.what = "switch" => AllStored(cmd.orig))
      /\ config \in Conf /\ auth \in Credential /\ c \in Conf
  BY <1>1, Blanks DEF Applied, Step, FileInv, CommandInv, TypeInv
<1>3. w \in Files /\ LiveFiles \in Files
  BY <1>2, ActiveType, WrittenType, KindType DEF Files, LiveFiles
<1>4. Live(cmd.set, w.config, w.auth)
  BY <1>2, LiveWritten
<1> HIDE DEF w
<1>5. budget' \in Budgets
  BY Spent DEF Apply, ApplyUnread, FileInv, TypeInv
<1>6. TypeInv' /\ before' = before
  BY <1>1, <1>5 DEF Applied, files, history, FileInv, TypeInv
<1>7. CASE Valid(k, x)
  <2>1. cmd' = [cmd EXCEPT !.pc = "auth", !.old = LiveFiles, !.write = w]
    BY <1>1, <1>7 DEF Applied, w
  <2>2. /\ cmd' \in Commands /\ cmd'.pc = "auth" /\ cmd'.set = cmd.set /\ cmd'.orig = cmd.orig
        /\ cmd'.what = cmd.what /\ cmd'.write = w
    BY <1>2, <1>3, <2>1 DEF Commands, Stages
  <2>3. CommandInv'
    BY <1>2, <1>6, <2>2, AllStoredHeld DEF CommandInv
  <2>4. WriteInv'
    BY <1>4, <2>2 DEF WriteInv, Live
  <2>5. QED
    BY <1>6, <2>3, <2>4 DEF FileInv
<1>8. CASE ~Valid(k, x)
  <2>1. /\ cmd' \in Commands /\ cmd'.pc = "undo" /\ cmd'.set = cmd.set /\ cmd'.orig = cmd.orig
        /\ cmd'.what = cmd.what
    BY <1>1, <1>2, <1>8, StageChanged DEF Applied, Stages
  <2>2. CommandInv'
    BY <1>2, <1>6, <2>1, AllStoredHeld DEF CommandInv
  <2>3. WriteInv'
    BY <2>1 DEF WriteInv
  <2>4. QED
    BY <1>6, <2>2, <2>3 DEF FileInv
<1>9. QED
  BY <1>7, <1>8

(* Steps that only move a command on: its settings stay as they are.       *)
LEMMA MovedOn ==
    ASSUME CommandInv, cmd.pc # "idle", NEW e \in Stages \ {"idle"},
           cmd' = [cmd EXCEPT !.pc = e], before' = before,
           e \in Later => cmd.pc \in Later,
           e # "failed" => cmd.pc # "capture" /\ cmd.pc # "failed"
    PROVE  /\ CommandInv'
           /\ cmd' \in Commands /\ cmd'.pc = e /\ cmd'.set = cmd.set
           /\ cmd'.write = cmd.write /\ cmd'.snap = cmd.snap /\ cmd'.orig = cmd.orig
           /\ cmd'.what = cmd.what /\ cmd'.prev = cmd.prev /\ cmd'.read = cmd.read
<1>1. /\ cmd \in Commands /\ before \in Befores /\ AllHeld(cmd.set) /\ cmd.pc \in Stages
  BY DEF CommandInv, Commands
<1>2. /\ cmd' \in Commands /\ cmd'.pc = e /\ cmd'.set = cmd.set
      /\ cmd'.write = cmd.write /\ cmd'.snap = cmd.snap /\ cmd'.orig = cmd.orig
      /\ cmd'.what = cmd.what /\ cmd'.prev = cmd.prev /\ cmd'.read = cmd.read
  BY <1>1, StageChanged
<1>3. CommandInv'
  <2>1. cmd'.pc \notin {"idle", "capture", "save", "load", "failed"} => AllStored(cmd'.set)
    BY <1>2 DEF CommandInv, Stages, Later
  <2>2. cmd'.what = "switch" /\ cmd'.pc \notin {"idle", "capture", "failed"} => AllStored(cmd'.orig)
    BY <1>2 DEF CommandInv
  <2>3. QED
    BY <1>1, <1>2, <2>1, <2>2 DEF CommandInv
<1>4. QED
  BY <1>2, <1>3

LEMMA WriteAuthFiles == ASSUME FileInv, WriteAuth PROVE FileInv'
<1>1. cmd.pc = "auth" /\ cmd \in Commands /\ cmd.write \in Files
  BY DEF WriteAuth, Step, FileInv, CommandInv, Commands
<1>2. CommandInv' /\ cmd'.pc = "config" /\ cmd'.set = cmd.set /\ cmd'.write = cmd.write
  BY <1>1, MovedOn DEF Later, WriteAuth, history, FileInv, Stages
<1>3. auth' = cmd.write.auth /\ auth' \in Credential
  BY <1>1 DEF WriteAuth, Files
<1>4. TypeInv'
  BY <1>3 DEF WriteAuth, history, FileInv, TypeInv
<1>5. WriteInv'
  BY <1>1, <1>2, <1>3 DEF FileInv, WriteInv, Live
<1>6. QED
  BY <1>2, <1>4, <1>5 DEF FileInv

LEMMA WriteConfigFiles == ASSUME FileInv, WriteConfig PROVE FileInv'
<1>1. cmd.pc = "config" /\ cmd \in Commands /\ cmd.write \in Files
  BY DEF WriteConfig, Step, FileInv, CommandInv, Commands
<1>2. CommandInv' /\ cmd'.pc = "check" /\ cmd'.set = cmd.set /\ cmd'.write = cmd.write
  BY <1>1, MovedOn DEF Later, WriteConfig, history, FileInv, Stages
<1>3. config' = cmd.write.config /\ config' \in Conf /\ auth' = auth
  BY <1>1 DEF WriteConfig, Files
<1>4. TypeInv'
  BY <1>3 DEF WriteConfig, history, FileInv, TypeInv
<1>5. WriteInv'
  BY <1>1, <1>2, <1>3 DEF FileInv, WriteInv, Live, Provider
<1>6. QED
  BY <1>2, <1>4, <1>5 DEF FileInv

LEMMA CheckFiles == ASSUME FileInv, Check PROVE FileInv'
<1>1. cmd.pc = "check" /\ UNCHANGED <<settings, config, auth>>
  BY DEF Check, Step, files
<1>2. PICK e \in {"undo", "done"} : cmd' = [cmd EXCEPT !.pc = e]
  BY DEF Check
<1>3. CommandInv' /\ cmd'.pc = e /\ cmd'.set = cmd.set /\ cmd'.write = cmd.write
  BY <1>1, <1>2, MovedOn DEF Later, Check, history, FileInv, Stages
<1>4. TypeInv'
  BY <1>1 DEF Check, history, FileInv, TypeInv
<1>5. WriteInv'
  BY <1>1, <1>3 DEF FileInv, WriteInv, Live, Provider
<1>6. QED
  BY <1>3, <1>4, <1>5 DEF FileInv

LEMMA ErrorFiles == ASSUME FileInv, Error PROVE FileInv'
<1>1. /\ cmd.pc \in {"capture", "save", "load", "apply", "auth", "config", "check"}
      /\ cmd \in Commands /\ cmd.old \in Files /\ before' = before
  BY DEF Error, StartFails, StatusUnread, Step, FileInv, CommandInv, Commands
<1>2. PICK e \in {"failed", "undo"} :
         /\ cmd' = [cmd EXCEPT !.pc = e]
         /\ e = "undo" => cmd.pc \in {"apply", "auth", "config", "check"}
  BY <1>1 DEF Error
<1>3. CommandInv' /\ cmd'.pc = e
  BY <1>1, <1>2, MovedOn DEF Later, FileInv, Stages
<1>4. config' \in Conf /\ auth' \in Credential /\ clean' \in BOOLEAN
  BY <1>1 DEF Error, Files, FileInv, TypeInv
<1>5. budget' \in Budgets
  BY Spent DEF Error, FileInv, TypeInv
<1>6. TypeInv'
  BY <1>4, <1>5 DEF Error, FileInv, TypeInv
<1>7. WriteInv'
  BY <1>3 DEF WriteInv
<1>8. QED
  BY <1>3, <1>6, <1>7 DEF FileInv

LEMMA UndoFiles ==
    ASSUME FileInv, UndoSettings \/ UndoConfig \/ UndoAuth \/ UndoError PROVE FileInv'
<1>1. /\ cmd.pc \in {"undo", "undoconfig", "undoauth"} /\ before' = before
      /\ cmd \in Commands /\ cmd.snap \in Files
      /\ cmd.pc = "undo" /\ cmd.what = "switch" => AllStored(cmd.orig)
  BY DEF UndoSettings, UndoConfig, UndoAuth, UndoError, Step, history, FileInv, CommandInv, Commands
<1>2. PICK e \in {"undoconfig", "undoauth", "failed"} : cmd' = [cmd EXCEPT !.pc = e]
  BY DEF UndoSettings, UndoConfig, UndoAuth, UndoError
<1>3. CommandInv' /\ cmd'.pc = e
  BY <1>1, <1>2, MovedOn DEF Later, FileInv, Stages
<1>4. AllStored(settings')
  BY <1>1, ReNormalStored
     DEF UndoSettings, UndoConfig, UndoAuth, UndoError, Step, files, history, FileInv, TypeInv
<1>5. config' \in Conf /\ auth' \in Credential
  BY <1>1 DEF UndoSettings, UndoConfig, UndoAuth, UndoError, files, FileInv, TypeInv, Files
<1>6. budget' \in Budgets /\ clean' \in BOOLEAN
  BY <1>1, Spent
     DEF UndoSettings, UndoConfig, UndoAuth, UndoError, history, FileInv, TypeInv, Commands
<1>7. TypeInv'
  BY <1>4, <1>5, <1>6
     DEF UndoSettings, UndoConfig, UndoAuth, UndoError, files, history, FileInv, TypeInv
<1>8. WriteInv'
  BY <1>3 DEF WriteInv
<1>9. QED
  BY <1>3, <1>7, <1>8 DEF FileInv

(* A command that is over, or a manager that has gone.                     *)
LEMMA IdleFiles ==
    ASSUME cmd' = Idle, before' = <<>>
    PROVE  CommandInv' /\ WriteInv'
  BY IdleType DEF CommandInv, WriteInv

LEMMA FinishFiles == ASSUME FileInv, Finish \/ FinishUnread PROVE FileInv'
<1>1. PICK shown \in {form, cmd.set, Normal(settings), Defaults} :
         Answered(shown) /\ (shown = cmd.set => Step("done") \/ AllStored(shown))
  BY ReNormalStored, DefaultsStored DEF Finish, FinishUnread, FileInv, TypeInv
<1>2. /\ cmd \in Commands /\ cmd.pc \in {"done", "failed"} /\ cmd.prev \in Ids
      /\ Step("done") => AllStored(cmd.set)
  BY <1>1 DEF Answered, Step, FileInv, CommandInv, Commands
<1>3. AllStored(form')
  BY <1>1, <1>2, ReNormalStored, DefaultsStored DEF Answered, FileInv, TypeInv
<1>4. overwritten' \in SUBSET Ids
  BY <1>1, <1>2 DEF Answered, FileInv, TypeInv
<1>5. budget' \in Budgets /\ clean' \in BOOLEAN
  BY Spent DEF Finish, FinishUnread, FileInv, TypeInv
<1>6. TypeInv'
  BY <1>1, <1>3, <1>4, <1>5 DEF Answered, files, FileInv, TypeInv
<1>7. CommandInv' /\ WriteInv'
  BY <1>1, IdleFiles DEF Answered
<1>8. QED
  BY <1>6, <1>7 DEF FileInv

LEMMA ImportFiles == ASSUME FileInv, NEW p \in Ids, Import(p) PROVE FileInv'
<1>0. PICK failed \in {0, 1} :
         LET s == IF failed = 0 THEN Normal(settings) ELSE Defaults
         IN  /\ SpendOutside(failed)
             /\ settings' = Normal([ids |-> s.ids \cup {p}, active |-> p,
                                    prof |-> [s.prof EXCEPT ![p] = NewProfile(p)]])
  BY DEF Import
<1> DEFINE s == IF failed = 0 THEN Normal(settings) ELSE Defaults
           f == [s.prof EXCEPT ![p] = NewProfile(p)]
           t == [ids |-> s.ids \cup {p}, active |-> p, prof |-> f]
<1>1. AllHeld(s)
  BY ReNormalStored, DefaultsStored, AllStoredHeld DEF FileInv, TypeInv
<1> HIDE DEF s
<1>2. /\ s \in SettingsType /\ s.ids \subseteq Ids /\ s.prof \in [Ids -> Profile]
      /\ \A q \in s.ids : Held(q, s.prof[q])
  BY <1>1 DEF AllHeld, SettingsType, Profile
<1>3. f \in [Ids -> Profile] /\ \A q \in s.ids \cup {p} : Held(q, f[q])
  BY <1>2, Blanks, NewHeld
<1>4. t = [ids |-> s.ids \cup {p}, active |-> p, prof |-> f]
  OBVIOUS
<1> HIDE DEF f, t
<1>5. AllHeld(t)
  <2>1. t.ids = s.ids \cup {p} /\ t.active = p /\ t.prof = f
    BY <1>4
  <2>2. t \in SettingsType
    BY <1>2, <1>3, <1>4 DEF SettingsType, Profile
  <2>3. QED
    BY <1>3, <2>1, <2>2 DEF AllHeld
<1>6. settings' = Normal(t) /\ form' = settings'
  BY <1>0 DEF Import, t, s, f
<1>7. AllStored(settings')
  BY <1>5, <1>6, NormalStored
<1>8. budget' \in Budgets
  BY <1>0, SpentOutside DEF FileInv, TypeInv
<1>9. TypeInv'
  BY <1>6, <1>7, <1>8 DEF Import, FileInv, TypeInv
<1>10. CommandInv' /\ WriteInv'
  BY DEF Import, FileInv, CommandInv, WriteInv, Live
<1>11. QED
  BY <1>9, <1>10 DEF FileInv

LEMMA LauncherFiles ==
    ASSUME FileInv, LauncherReads \/ \E s \in copy : LauncherWrites(s) PROVE FileInv'
<1>1. AllStored(settings') /\ \A s \in copy' : AllStored(s)
  BY DEF LauncherReads, LauncherWrites, files, history, FileInv, TypeInv
<1>2. budget' \in Budgets /\ clean' \in BOOLEAN
  BY Spent DEF LauncherReads, LauncherWrites, history, FileInv, TypeInv
<1>3. TypeInv'
  BY <1>1, <1>2 DEF LauncherReads, LauncherWrites, files, history, FileInv, TypeInv
<1>4. UNCHANGED <<config, auth, cmd, before>>
  BY DEF LauncherReads, LauncherWrites, files, history
<1>5. CommandInv' /\ WriteInv'
  BY <1>4 DEF FileInv, CommandInv, WriteInv, Live
<1>6. QED
  BY <1>3, <1>5 DEF FileInv

(* An edit changes nothing but the user's own part of config.toml.         *)
LEMMA EditedConfig ==
    ASSUME FileInv, Edit
    PROVE  /\ config' \in Conf /\ Provider(config') = Provider(config)
           /\ config'.edit \in Edits /\ budget' \in Budgets
           /\ budget'.edits = budget.edits - 1 /\ budget.edits > 0
<1>1. budget \in Budgets /\ config \in Conf
  BY DEF FileInv, TypeInv
<1>2. budget' \in Budgets /\ budget'.edits = budget.edits - 1 /\ budget.edits > 0
  BY <1>1, Spent DEF Edit
<1>3. MaxEdits - budget'.edits \in Edits
  BY <1>2, ConstantsAssumption DEF Budgets, Edits
<1>4. /\ config' \in Conf /\ Provider(config') = Provider(config)
      /\ config'.edit = MaxEdits - budget'.edits
  BY <1>1, <1>3, Shapes DEF Edit, Provider
<1>5. QED
  BY <1>2, <1>3, <1>4

LEMMA EditFiles == ASSUME FileInv, Edit PROVE FileInv'
<1>1. /\ config' \in Conf /\ Provider(config') = Provider(config)
      /\ config'.edit \in Edits /\ budget' \in Budgets
  BY EditedConfig
<1>2. latest' \in [Ids -> Edits] /\ overwritten' \in SUBSET Ids
  <2>1. cmd.prev \in Ids /\ cmd.set.active \in Ids
    BY DEF FileInv, CommandInv, Commands, SettingsType
  <2>2. QED
    BY <1>1, <2>1 DEF Edit, FileInv, TypeInv
<1>3. TypeInv'
  BY <1>1, <1>2 DEF Edit, FileInv, TypeInv
<1>4. CommandInv' /\ WriteInv'
  BY <1>1 DEF Edit, FileInv, CommandInv, WriteInv, Live
<1>5. QED
  BY <1>3, <1>4 DEF FileInv

LEMMA ReopenFiles == ASSUME FileInv, Reopen PROVE FileInv'
<1>1. PICK failed \in {0, 1} :
         /\ SpendOutside(failed)
         /\ form' = IF failed = 0 THEN Normal(settings) ELSE Defaults
         /\ clean' = (clean /\ ~Running /\ failed = 0)
  BY DEF Reopen
<1>2. AllStored(form') /\ budget' \in Budgets /\ clean' \in BOOLEAN
  BY <1>1, ReNormalStored, DefaultsStored, SpentOutside DEF FileInv, TypeInv
<1>3. TypeInv'
  BY <1>2 DEF Reopen, files, FileInv, TypeInv
<1>4. CommandInv' /\ WriteInv'
  BY IdleFiles DEF Reopen
<1>5. QED
  BY <1>3, <1>4 DEF FileInv

LEMMA FileInductive == ASSUME FileInv, [Next]_vars PROVE FileInv'
<1>1. CASE UNCHANGED vars
  BY <1>1 DEF vars, FileInv, TypeInv, CommandInv, WriteInv, Live
<1>2. CASE Next
  BY <1>2, ChooseFiles, ImportFiles, CaptureFiles, SaveFiles, LoadFiles, BeginRestartFiles,
     ApplyFiles, WriteAuthFiles, WriteConfigFiles, CheckFiles, ErrorFiles, UndoFiles,
     FinishFiles, LauncherFiles, EditFiles, ReopenFiles DEF Next
<1>3. QED
  BY <1>1, <1>2

(* What the first half of the invariant says holds in every state.         *)
THEOREM FilesStaySound == Spec => []FileInv
  BY InitFiles, FileInductive, PTL DEF Spec

(* No profile is ever given another one's key, whatever breaks in and in   *)
(* whatever state the live files are when a profile is backfilled.         *)
THEOREM KeysAreKept == Spec => [](TypeOK /\ KeysStayHome)
<1>1. ASSUME FileInv PROVE TypeOK /\ KeysStayHome
  <2>1. AllStored(settings) /\ AllStored(form) /\ \A s \in copy : AllStored(s)
    BY <1>1 DEF FileInv, TypeInv
  <2>2. TypeOK
    BY <1>1, <2>1 DEF TypeOK, FileInv, TypeInv, AllStored, Conf, Credential
  <2>3. KeysStayHome
    BY <2>1 DEF KeysStayHome, AllStored, Stored, Plain, Home
  <2>4. QED
    BY <2>2, <2>3
<1>2. QED
  BY <1>1, FilesStaySound, PTL

(* A restart that reports success leaves the live files of the active      *)
(* profile, whatever was broken before.                                    *)
THEOREM RestartsRepair == Spec => RestartRepairs
<1>1. ASSUME FileInv, [Next]_vars
      PROVE  [Finish /\ Step("done") /\ cmd.what = "restart" /\ settings = cmd.set
                => Live(settings, config, auth)]_vars
  <2>1. SUFFICES ASSUME Step("done"), settings = cmd.set PROVE Live(settings, config, auth)
    OBVIOUS
  <2>2. /\ Live(cmd.set, cmd.write.config, cmd.write.auth) /\ auth = cmd.write.auth
        /\ Provider(config) = Provider(cmd.write.config)
        /\ cmd.write.config \in Conf /\ config \in Conf /\ settings.active \in Ids
    BY <1>1, <2>1, ActiveType DEF FileInv, WriteInv, CommandInv, TypeInv, Step, Commands, Files
  <2>3. QED
    BY <2>1, <2>2, LiveDepends
<1>2. QED
  BY <1>1, FilesStaySound, PTL DEF Spec, RestartRepairs

(***************************************************************************)
(* Canonical profiles: normalising leaves them alone, backfilling and      *)
(* writing keep what is theirs.                                            *)
(***************************************************************************)
\* Every relay needs a key.
NeedsKeys == \A p \in Ids : Kind[p] # "noauth"

LEMMA KindCases ==
    ASSUME NeedsKeys, NEW p \in Ids
    PROVE  /\ Kind[p] \in {"api", "chat", "routes", "mix", "official"}
           /\ Kind[p] \in Pure <=> Kind[p] \in {"api", "chat", "routes"}
           /\ Kind[p] \in KeyKinds <=> Kind[p] \in {"api", "chat", "routes"}
           /\ Kind[p] \in ProxyKinds <=> Kind[p] \in {"chat", "routes"}
           /\ p # None /\ p # Proxy /\ p # NoAuthToken
  BY ConstantsAssumption DEF NeedsKeys, Kinds, Pure, KeyKinds, ProxyKinds

LEMMA SameProfile ==
    ASSUME NEW x \in Profile, NEW y \in Profile,
           x.config = y.config, x.auth = y.auth, x.up = y.up, x.key = y.key
    PROVE  x = y
  BY Shapes

LEMMA SameAuth ==
    ASSUME NEW a \in Credential, NEW b \in Credential, a.key = b.key, a.login = b.login
    PROVE  a = b
  BY Shapes

LEMMA SameConfig ==
    ASSUME NEW c \in Conf, NEW d \in Conf, Provider(c) = Provider(d), c.edit = d.edit
    PROVE  c = d
  BY Shapes DEF Provider

(* Settings with the same ids, choice and profiles are the same.           *)
LEMMA SameSettings ==
    ASSUME NEW s \in SettingsType, NEW t \in SettingsType, s.ids = t.ids, s.active = t.active,
           \A p \in Ids : s.prof[p] = t.prof[p]
    PROVE  s = t
<1>1. s.prof = t.prof
  BY DEF SettingsType
<1>2. QED
  BY <1>1 DEF SettingsType

LEMMA CanonicalUsable == ASSUME NEW p, NEW x, Canonical(p, x) PROVE Usable(p, x)
  BY DEF Canonical, Usable

(* The parts of a relay's profile.                                         *)
LEMMA RelayUsable ==
    ASSUME NeedsKeys, NEW p \in Ids, Kind[p] # "official", NEW x \in Profile, Usable(p, x)
    PROVE  LET k == Kind[p]
           IN  /\ x.up = p /\ x.key = p /\ x.auth.key = (IF k = "mix" THEN None ELSE p)
               /\ x.config.active
               /\ x.config.base = (IF k \in ProxyKinds THEN Proxy ELSE p) \/ k = "routes"
               /\ x.config.token = (IF k = "mix" THEN p ELSE None)
               /\ BaseUrl(k, x) = p /\ ApiKey(k, x) = p
<1> DEFINE k == Kind[p]
<1>1. /\ k \in {"api", "chat", "routes", "mix"} /\ (k \in Pure <=> k # "mix")
      /\ (k \in ProxyKinds <=> k \in {"chat", "routes"}) /\ p # None /\ p # Proxy
  BY KindCases
<1>2. x.up = p /\ x.key = p /\ x.auth.key = (IF k = "mix" THEN None ELSE p)
  BY <1>1 DEF Usable, Owned, Own
<1>3. /\ x.config.active
      /\ x.config.base = (IF k \in ProxyKinds THEN Proxy ELSE p) \/ k = "routes"
      /\ x.config.token = (IF k = "mix" THEN p ELSE None)
  BY <1>1 DEF Usable, Sends, Provider
<1>4. ApiKey(k, x) = p
  BY <1>1, <1>2, <1>3 DEF ApiKey, Or, Or3
<1>5. BaseUrl(k, x) = p
  BY <1>1, <1>2, <1>3 DEF BaseUrl, Or
<1>6. QED
  BY <1>2, <1>3, <1>4, <1>5

LEMMA CompletedUsable ==
    ASSUME NeedsKeys, NEW p \in Ids, Kind[p] # "official", NEW x \in Profile, Usable(p, x)
    PROVE  LET c == Completed(Kind[p], x)
           IN  /\ Sends(p, c) /\ c.edit = x.config.edit /\ c \in Conf
               /\ Sends(p, x.config) => c = x.config
<1> DEFINE k == Kind[p]
           c == Completed(k, x)
<1>1. /\ k \in {"api", "chat", "routes", "mix"} /\ p # None /\ p # Proxy
      /\ (k \in ProxyKinds <=> k \in {"chat", "routes"})
      /\ (k \in KeyKinds <=> k # "mix")
  BY KindCases
<1>2. /\ x.config.token = (IF k = "mix" THEN p ELSE None)
      /\ BaseUrl(k, x) = p /\ ApiKey(k, x) = p
  BY RelayUsable
<1>3. Proxy # None
  BY DEF Proxy, None
<1>4. Or(Endpoint(k, BaseUrl(k, x)), x.config.base) = IF k \in ProxyKinds THEN Proxy ELSE p
  BY <1>1, <1>2, <1>3 DEF Endpoint, Or
<1>5. /\ c.active = TRUE /\ c.edit = x.config.edit
      /\ c.base = (IF k \in ProxyKinds THEN Proxy ELSE p)
      /\ c.token = (IF k = "mix" THEN p ELSE None)
  BY <1>1, <1>2, <1>4 DEF Completed, Or
<1>6. c \in Conf /\ x.config \in Conf
  BY CompletedType, KindType, Parts
<1> HIDE DEF c
<1>7. Sends(p, c)
  BY <1>1, <1>5 DEF Sends, Provider
<1>8. ASSUME Sends(p, x.config) PROVE c = x.config
  <2>1. Provider(c) = Provider(x.config)
    <3>1. CASE k = "mix"
      BY <1>7, <1>8, <3>1 DEF Sends
    <3>2. CASE k # "mix"
      <4> DEFINE url == IF k \in ProxyKinds THEN Proxy ELSE p
      <4>1. Provider(c) = <<TRUE, url, None>> /\ Provider(x.config) = <<TRUE, url, None>>
        BY <1>1, <1>7, <1>8, <3>2 DEF Sends
      <4>2. QED
        BY <4>1
    <3>3. QED
      BY <3>1, <3>2
  <2>2. QED
    BY <1>5, <1>6, <2>1, SameConfig
<1>9. QED
  BY <1>5, <1>6, <1>7, <1>8 DEF c

(* Normalising makes a profile canonical, if it is not already.            *)
LEMMA NormalizedUsable ==
    ASSUME NeedsKeys, NEW p \in Ids, NEW x \in Profile, Usable(p, x)
    PROVE  LET y == Normalized(Kind[p], x)
           IN  /\ y \in Profile /\ Canonical(p, y)
               /\ y.config.edit = x.config.edit /\ y.auth = x.auth
               /\ Canonical(p, x) => y = x
<1> DEFINE k == Kind[p]
           y == Normalized(k, x)
<1>1. y \in Profile
  BY NormalizedType, KindType
<1>2. CASE k = "official"
  <2>1. /\ x.up = None /\ x.key = None /\ x.auth.key = None /\ ~x.config.active
        /\ Canonical(p, x)
    BY <1>2 DEF Usable, Canonical, Owned, Own, Sends, Pure, KeyKinds
  <2>2. y.config = x.config /\ y.up = x.up /\ y.key = x.key
    BY <1>2, <2>1 DEF Normalized, NormalizedOfficial
  <2>3. y.auth.key = x.auth.key /\ y.auth.login = x.auth.login
    BY <1>2, <2>1 DEF Normalized, NormalizedOfficial
  <2>4. y = x
    BY <1>1, <2>2, <2>3, SameAuth, SameProfile, Parts
  <2>5. QED
    BY <1>1, <2>1, <2>4
<1>3. CASE k # "official"
  <2> DEFINE r == Rough(k, x)
  <2>1. /\ k \in {"api", "chat", "routes", "mix"} /\ p # None
        /\ (k \in Pure <=> k # "mix") /\ (k \in KeyKinds <=> k # "mix")
    BY <1>3, KindCases
  <2>2. /\ x.up = p /\ x.key = p /\ x.auth.key = (IF k = "mix" THEN None ELSE p)
        /\ BaseUrl(k, x) = p /\ ApiKey(k, x) = p
    BY <1>3, RelayUsable
  <2>3. Keyed(k, x) = x
    BY <2>1 DEF Keyed
  <2>4. /\ Sends(p, Completed(k, x)) /\ Completed(k, x).edit = x.config.edit
        /\ Sends(p, x.config) => Completed(k, x) = x.config
    BY <1>3, CompletedUsable
  <2>5. /\ r \in Profile /\ r.config = Completed(k, x) /\ r.up = p /\ r.key = p
        /\ r.auth.key = AuthKey(k, x) /\ r.auth.login = x.auth.login
    BY <1>3, <2>2, <2>3, RelayParts, KindType
  <2>6. r.auth = x.auth
    <3>1. AuthKey(k, x) = x.auth.key
      BY <2>1, <2>2 DEF AuthKey, Or
    <3>2. QED
      BY <2>5, <3>1, SameAuth, Parts
  <2>7. Usable(p, r)
    BY <1>3, <2>1, <2>2, <2>4, <2>5, <2>6 DEF Usable, Owned, Own
  <2>8. y.config = r.config /\ y.auth = r.auth /\ y.up = r.up /\ y.key = ApiKey(k, r)
    BY <1>3, <2>1, RelayParts, KindType
  <2>9. y.key = p
    BY <1>3, <2>5, <2>7, <2>8, RelayUsable
  <2> HIDE DEF y, r
  <2>10. Canonical(p, y)
    BY <1>3, <2>1, <2>2, <2>4, <2>5, <2>6, <2>8, <2>9 DEF Canonical, Owned, Own
  <2>11. Canonical(p, x) => y = x
    BY <1>1, <2>2, <2>4, <2>5, <2>6, <2>8, <2>9, SameProfile DEF Canonical, y
  <2>12. QED
    BY <1>1, <2>4, <2>5, <2>6, <2>8, <2>10, <2>11 DEF y
<1>4. QED
  BY <1>2, <1>3

(* Settings that are read or saved become canonical; canonical ones are    *)
(* not changed.                                                            *)
LEMMA NormalUsable ==
    ASSUME NeedsKeys, NEW s \in SettingsType, AllUsable(s)
    PROVE  LET t == Normal(s)
           IN  /\ t \in SettingsType /\ AllCanonical(t) /\ t.ids = s.ids /\ t.active = s.active
               /\ \A p \in Ids :
                    /\ t.prof[p].config.edit = s.prof[p].config.edit
                    /\ t.prof[p].auth = s.prof[p].auth
                    /\ Canonical(p, s.prof[p]) => t.prof[p] = s.prof[p]
                    /\ p \notin s.ids => t.prof[p] = s.prof[p]
<1> DEFINE f == [p \in Ids |-> IF p \in s.ids THEN Normalized(Kind[p], s.prof[p]) ELSE s.prof[p]]
           t == Normal(s)
<1>1. s.prof \in [Ids -> Profile] /\ s.ids \subseteq Ids
  BY DEF SettingsType, Profile
<1>2. ASSUME NEW p \in Ids
      PROVE  /\ f[p] \in Profile
             /\ p \in s.ids => Canonical(p, f[p])
             /\ f[p].config.edit = s.prof[p].config.edit /\ f[p].auth = s.prof[p].auth
             /\ Canonical(p, s.prof[p]) => f[p] = s.prof[p]
             /\ p \notin s.ids => f[p] = s.prof[p]
  BY <1>1, <1>2, NormalizedUsable DEF AllUsable
<1>3. t = [s EXCEPT !.prof = f]
  BY DEF Normal
<1> HIDE DEF f, t
<1>4. f \in [Ids -> Profile]
  BY <1>2 DEF f
<1>5. t \in SettingsType /\ t.ids = s.ids /\ t.active = s.active /\ t.prof = f
  BY <1>3, <1>4 DEF SettingsType, Profile
<1>6. QED
  BY <1>1, <1>2, <1>5 DEF AllCanonical, t

LEMMA NormalCanonical ==
    ASSUME NeedsKeys, NEW s \in SettingsType, AllCanonical(s)
    PROVE  Normal(s) = s
<1> DEFINE t == Normal(s)
<1>1. s.ids \subseteq Ids /\ s.prof \in [Ids -> Profile] /\ AllUsable(s)
  BY CanonicalUsable DEF SettingsType, Profile, AllCanonical, AllUsable
<1>2. t \in SettingsType /\ t.ids = s.ids /\ t.active = s.active
  BY <1>1, NormalUsable
<1>3. \A p \in Ids : t.prof[p] = s.prof[p]
  BY <1>1, NormalUsable DEF AllCanonical
<1> HIDE DEF t
<1>4. QED
  BY <1>2, <1>3, SameSettings DEF t

LEMMA UsableStored ==
    ASSUME NeedsKeys, NEW p \in Ids, NEW x \in Profile, Usable(p, x)
    PROVE  Stored(p, x)
<1>1. CASE Kind[p] = "official"
  BY <1>1 DEF Usable, Owned, Stored, Plain, Own, Sends, Pure, KeyKinds
<1>2. CASE Kind[p] # "official"
  BY <1>2, RelayUsable DEF Stored, Home
<1>3. QED
  BY <1>1, <1>2

(* What a user typed becomes canonical.                                    *)
LEMMA NewCanonical ==
    ASSUME NeedsKeys, NEW p \in Ids
    PROVE  Canonical(p, Normalized(Kind[p], NewProfile(p)))
<1> DEFINE k == Kind[p]
           x == NewProfile(p)
           y == Normalized(k, x)
<1>1. /\ x \in Profile /\ x.up = p /\ x.key = p /\ x.auth = NoAuth /\ x.config = NoConfig
      /\ x.auth.key = None /\ x.config.token = None /\ x.config.base = None
  BY Blanks DEF NewProfile, NoAuth, NoConfig
<1>2. /\ k \in {"api", "chat", "routes", "mix", "official"} /\ p # None
      /\ (k \in Pure <=> k \in {"api", "chat", "routes"})
      /\ (k \in KeyKinds <=> k \in {"api", "chat", "routes"})
      /\ (k \in ProxyKinds <=> k \in {"chat", "routes"})
  BY KindCases
<1> HIDE DEF x
<1>3. CASE k = "official"
  <2>1. /\ y.config = NoConfig /\ y.up = None /\ y.key = None /\ y.auth.key = None
    BY <1>1, <1>2, <1>3 DEF Normalized, NormalizedOfficial
  <2>2. ~NoConfig.active /\ NoConfig.token = None
    BY DEF NoConfig
  <2> HIDE DEF y
  <2>3. Canonical(p, y)
    BY <1>2, <1>3, <2>1, <2>2 DEF Canonical, Owned, Own, Sends
  <2>4. QED
    BY <2>3 DEF x, y
<1>4. CASE k # "official"
  <2> DEFINE r == Rough(k, x)
  <2>1. BaseUrl(k, x) = p /\ ApiKey(k, x) = p /\ Keyed(k, x) = x
    BY <1>1, <1>2, <1>4 DEF BaseUrl, ApiKey, Keyed, Or, Or3
  <2>2. Or(Endpoint(k, BaseUrl(k, x)), x.config.base) = (IF k \in ProxyKinds THEN Proxy ELSE p)
    BY <1>1, <1>2, <2>1 DEF Endpoint, Or, Proxy, None
  <2>3. /\ Completed(k, x).active = TRUE
        /\ Completed(k, x).base = (IF k \in ProxyKinds THEN Proxy ELSE p)
        /\ Completed(k, x).token = (IF k = "mix" THEN p ELSE None)
    BY <1>1, <1>2, <1>4, <2>1, <2>2 DEF Completed, Or
  <2>4. /\ r.config = Completed(k, x) /\ r.up = p /\ r.key = p
        /\ r.auth.key = IF k = "mix" THEN None ELSE p
    BY <1>1, <1>2, <1>4, <2>1, RelayParts, KindType DEF AuthKey, Or
  <2>5. ApiKey(k, r) = p
    BY <1>2, <1>4, <2>3, <2>4 DEF ApiKey, Or, Or3
  <2>6. y.config = r.config /\ y.auth = r.auth /\ y.up = r.up /\ y.key = ApiKey(k, r)
    BY <1>1, <1>2, <1>4, RelayParts, KindType
  <2> HIDE DEF y, r
  <2>7. Sends(p, y.config)
    BY <1>2, <1>4, <2>3, <2>4, <2>6 DEF Sends, Provider
  <2>8. Canonical(p, y)
    BY <1>2, <1>4, <2>4, <2>5, <2>6, <2>7 DEF Canonical, Owned, Own
  <2>9. QED
    BY <2>8 DEF x, y
<1>5. QED
  BY <1>3, <1>4

(* Backfilling: the live files belong to the profile. One with routes gets *)
(* its own endpoint back in place of the proxy's.                          *)
LEMMA BackfilledUsable ==
    ASSUME NeedsKeys, NEW p \in Ids, NEW x \in Profile, Usable(p, x),
           NEW c \in Conf, Sends(p, c),
           NEW a \in Credential, Kind[p] \notin Pure => a.key = None
    PROVE  LET y == Backfilled(Kind[p], x, c, a)
           IN  /\ Usable(p, y) /\ y.config.edit = c.edit
               /\ y.auth.login = IF Kind[p] \in Pure THEN x.auth.login ELSE a.login
<1> DEFINE k == Kind[p]
           y == Backfilled(k, x, c, a)
           d == OwnEndpoint(k, x, c)
           key == ApiKey(k, x)
<1>1. /\ k \in {"api", "chat", "routes", "mix", "official"}
      /\ (k \in Pure <=> k \in {"api", "chat", "routes"})
      /\ (k \in ProxyKinds <=> k \in {"chat", "routes"})
      /\ p # None /\ p # Proxy
  BY KindCases
<1>2. /\ y.up = x.up
      /\ y.config.active = c.active /\ y.config.base = d.base /\ y.config.edit = c.edit
      /\ k \in Pure => /\ y.config.token = None /\ y.key = key
                       /\ y.auth.key = key /\ y.auth.login = x.auth.login
      /\ k = "mix" => /\ y.config.token = key /\ y.key = key
                      /\ y.auth.key = None /\ y.auth.login = a.login
      /\ k \notin Pure /\ k # "mix" =>
            /\ y.config.token \in {None, c.token} /\ y.key = Or(c.token, x.key)
            /\ c.token = None => y.auth = a
  BY BackfilledParts, KindType
<1> HIDE DEF y
<1>3. CASE k = "official"
  <2>1. x.up = None /\ x.key = None /\ ~c.active /\ c.token = None /\ a.key = None
    BY <1>1, <1>3 DEF Usable, Owned, Own, Sends
  <2>2. Sends(p, y.config)
    BY <1>2, <1>3, <2>1, <1>1 DEF Sends
  <2>3. QED
    BY <1>1, <1>2, <1>3, <2>1, <2>2 DEF Usable, Owned, Own, Or, y
<1>4. CASE k # "official"
  <2>1. x.up = p /\ key = p /\ BaseUrl(k, x) = p
    BY <1>4, RelayUsable
  <2>2. c.active = TRUE /\ c.base = IF k \in ProxyKinds THEN Proxy ELSE p
    BY <1>1, <1>4 DEF Sends, Provider
  <2>3. d.base = IF k = "chat" THEN Proxy ELSE p
    BY <1>1, <1>4, <2>1, <2>2, Shapes DEF OwnEndpoint
  <2> HIDE DEF d, key
  <2>4. /\ y.up = p /\ y.key = p /\ y.auth.key = IF k = "mix" THEN None ELSE p
    BY <1>1, <1>2, <1>4, <2>1
  <2>5. Provider(y.config) = <<TRUE, IF k = "chat" THEN Proxy ELSE p,
                               IF k = "mix" THEN p ELSE None>>
    BY <1>1, <1>2, <1>4, <2>1, <2>2, <2>3 DEF Provider
  <2>6. Owned(p, y)
    BY <1>1, <1>4, <2>4 DEF Owned, Own
  <2>7. Usable(p, y)
    <3>1. CASE k = "routes"
      BY <2>5, <2>6, <3>1 DEF Usable
    <3>2. CASE k # "routes"
      <4>1. Sends(p, y.config)
        BY <1>1, <1>4, <2>5, <3>2 DEF Sends
      <4>2. QED
        BY <2>6, <4>1 DEF Usable
    <3>3. QED
      BY <3>1, <3>2
  <2>8. QED
    BY <1>1, <1>2, <1>4, <2>7 DEF y
<1>5. QED
  BY <1>3, <1>4

(* Writing: the live files become those of the profile, a ChatGPT login    *)
(* that is in auth.json or in the profile is not lost.                     *)
LEMMA SendsWritten ==
    ASSUME NeedsKeys, NEW p \in Ids, NEW x \in Profile, Canonical(p, x), NEW c \in Conf
    PROVE  /\ Sends(p, ConfigFor(Kind[p], x, c))
           /\ ConfigFor(Kind[p], x, c).edit = IF Kind[p] = "official" THEN c.edit ELSE x.config.edit
<1>1. CASE Kind[p] = "official"
  BY <1>1, Shapes DEF ConfigFor, Cleared, Sends, Keys
<1>2. CASE Kind[p] # "official"
  BY <1>2, CanonicalUsable, CompletedUsable DEF ConfigFor, Canonical
<1>3. QED
  BY <1>1, <1>2

LEMMA OpensWritten ==
    ASSUME NeedsKeys, NEW p \in Ids, NEW x \in Profile, Canonical(p, x), NEW a \in Credential
    PROVE  LET b == AuthFor(Kind[p], x, a)
           IN  /\ Opens(p, x, b)
               /\ Kind[p] \notin Pure /\ a.login => b.login
               /\ Kind[p] \in Pure => b = x.auth
<1> DEFINE k == Kind[p]
           b == AuthFor(k, x, a)
<1>1. /\ k \in {"api", "chat", "routes", "mix", "official"}
      /\ (k \in Pure <=> k \in {"api", "chat", "routes"})
  BY KindCases
<1>2. x.auth \in Credential /\ x.auth.login \in BOOLEAN /\ a.login \in BOOLEAN
  BY Parts, Shapes
<1>3. CASE k \in Pure
  BY <1>1, <1>3 DEF AuthFor, Opens
<1>4. CASE k \notin Pure
  <2>1. x.auth.key = None
    BY <1>4 DEF Canonical, Owned
  <2>2. x.auth = NoAuth <=> ~x.auth.login
    <3>1. NoAuth.key = None /\ NoAuth.login = FALSE /\ NoAuth \in Credential
      BY Blanks DEF NoAuth
    <3>2. ASSUME ~x.auth.login PROVE x.auth = NoAuth
      <4>1. x.auth.login = NoAuth.login
        BY <1>2, <3>1, <3>2
      <4>2. QED
        BY <1>2, <2>1, <3>1, <4>1, SameAuth
    <3>3. QED
      BY <3>1, <3>2
  <2>3. b.key = None /\ ((b.login <=> a.login \/ x.auth.login) \/ (x.auth.login /\ b = x.auth))
    BY <1>1, <1>2, <1>4, <2>1, <2>2, Shapes DEF AuthFor
  <2>4. QED
    BY <1>4, <2>1, <2>3 DEF Opens
<1>5. QED
  BY <1>3, <1>4

(***************************************************************************)
(* The second half of the invariant.                                       *)
(***************************************************************************)
LEMMA SendsDepends ==
    ASSUME NEW p, NEW c \in Conf, NEW d \in Conf, Provider(c) = Provider(d), Sends(p, c)
    PROVE  Sends(p, d)
<1>1. c.active = d.active /\ c.token = d.token
  BY DEF Provider
<1>2. QED
  BY <1>1 DEF Sends

LEMMA SettledLive ==
    ASSUME NeedsKeys, NEW s, AllStored(s), NEW c \in Conf, NEW a \in Credential, Settled(s, c, a)
    PROVE  Live(s, c, a)
<1> DEFINE p == s.active
           k == Kind[p]
           x == Active(s)
<1>1. p \in Ids /\ x \in Profile /\ Canonical(p, x) /\ Sends(p, c) /\ Opens(p, x, a)
  BY ActiveType DEF Settled, AllCanonical, AllStored, Active
<1>2. /\ k \in {"api", "chat", "routes", "mix", "official"}
      /\ (k \in Pure <=> k \in {"api", "chat", "routes"})
  BY <1>1, KindCases
<1> HIDE DEF x, p
<1>3. CASE k = "official"
  <2>1. c.active = FALSE /\ c.token = None /\ a.key = None
    BY <1>1, <1>2, <1>3, Shapes DEF Sends, Opens
  <2>2. Provider(Cleared(c)) = Provider(c)
    BY <2>1, Shapes DEF Provider, Cleared, Keys
  <2>3. QED
    BY <1>3, <2>1, <2>2 DEF Live, ConfigFor, Provider, p
<1>4. CASE k # "official"
  <2>1. Completed(k, x) = x.config
    BY <1>1, <1>4, CanonicalUsable, CompletedUsable DEF Canonical
  <2>2. Provider(x.config) = Provider(c)
    <3>1. Sends(p, x.config)
      BY <1>1 DEF Canonical
    <3>2. CASE k = "mix"
      BY <1>1, <3>1, <3>2 DEF Sends
    <3>3. CASE k # "mix"
      <4> DEFINE url == IF k \in ProxyKinds THEN Proxy ELSE p
      <4>1. Provider(x.config) = <<TRUE, url, None>>
        BY <1>4, <3>1, <3>3 DEF Sends
      <4>2. Provider(c) = <<TRUE, url, None>>
        BY <1>1, <1>4, <3>3 DEF Sends
      <4>3. QED
        BY <4>1, <4>2
    <3>4. QED
      BY <3>2, <3>3
  <2>3. a.key = AuthFor(k, x, a).key
    BY <1>1, <1>2, <1>4 DEF Opens, AuthFor
  <2>4. QED
    BY <1>4, <2>1, <2>2, <2>3 DEF Live, ConfigFor, Provider, p, x
<1>5. QED
  BY <1>3, <1>4

(* The settings of a command once the profile it leaves is backfilled.     *)
LEMMA LeftUsable ==
    ASSUME NeedsKeys, NEW s, AllStored(s), AllUsable(s), NEW q \in s.ids, q \in Ids,
           config \in Conf, auth \in Credential,
           Sends(q, config), Kind[q] \notin Pure => auth.key = None
    PROVE  LET t == BackfilledBefore(s, q)
           IN  /\ AllStored(t) /\ AllUsable(t) /\ t.ids = s.ids /\ t.active = s.active
               /\ \A p \in Ids : p # q => t.prof[p] = s.prof[p]
               /\ q = s.active => t = s
               /\ q # s.active =>
                    /\ t.prof[q].config.edit = config.edit
                    /\ t.prof[q].auth.login = IF Kind[q] \in Pure THEN s.prof[q].auth.login
                                                                  ELSE auth.login
<1> DEFINE y == Backfilled(Kind[q], s.prof[q], config, auth)
           u == [s EXCEPT !.prof[q] = Backfilled(Kind[q], @, config, auth)]
           t == BackfilledBefore(s, q)
<1>1. /\ AllHeld(s) /\ s \in SettingsType /\ s.ids \subseteq Ids /\ s.active \in s.ids
      /\ s.prof \in [Ids -> Profile] /\ s.prof[q] \in Profile
  BY AllStoredHeld DEF AllStored, SettingsType, Profile
<1>2. /\ u \in SettingsType /\ u.ids = s.ids /\ u.active = s.active
      /\ u.prof = [s.prof EXCEPT ![q] = y]
  BY <1>1, BackfilledSettings
<1>3. /\ Usable(q, y) /\ y.config.edit = config.edit /\ y \in Profile
      /\ y.auth.login = IF Kind[q] \in Pure THEN s.prof[q].auth.login ELSE auth.login
  BY <1>1, BackfilledUsable, BackfilledParts, KindType DEF AllUsable
<1>4. t = IF q = s.active THEN s ELSE u
  BY DEF BackfilledBefore
<1> HIDE DEF y, u, t
<1>5. u.prof[q] = y /\ \A p \in Ids : p # q => u.prof[p] = s.prof[p]
  BY <1>1, <1>2
<1>6. AllUsable(u)
  BY <1>1, <1>2, <1>3, <1>5 DEF AllUsable
<1>7. AllStored(u)
  <2>1. \A p \in u.ids : p \in Ids /\ u.prof[p] \in Profile
    BY <1>1, <1>2, <1>3, <1>5
  <2>2. QED
    BY <1>1, <1>2, <1>6, <2>1, UsableStored DEF AllUsable, AllStored
<1>8. /\ AllStored(t) /\ AllUsable(t) /\ t.ids = s.ids /\ t.active = s.active
      /\ \A p \in Ids : p # q => t.prof[p] = s.prof[p]
  BY <1>1, <1>2, <1>4, <1>5, <1>6, <1>7
<1>9. q = s.active => t = s
  BY <1>4
<1>10. q # s.active => t.prof[q] = y
  BY <1>4, <1>5
<1>11. QED
  BY <1>3, <1>8, <1>9, <1>10 DEF t

LEMMA RestartSame ==
    ASSUME SetInv, BeforeInv, cmd.pc # "idle", cmd.set.active = cmd.prev
    PROVE  cmd.set = before[1]
<1>1. cmd.set \in SettingsType /\ before[1] \in SettingsType
  BY DEF SetInv, BeforeInv, AllStored
<1>2. \A p \in Ids : cmd.set.prof[p] = before[1].prof[p]
  BY DEF SetInv
<1>3. QED
  BY <1>1, <1>2, SameSettings DEF SetInv

(* A ChatGPT login is in the settings a command saves, or stays in         *)
(* auth.json.                                                              *)
LEMMA LoginKept ==
    ASSUME SetInv, BeforeInv, cmd.pc # "idle"
    PROVE  \/ LoginIn(cmd.set)
           \/ cmd.set.active = cmd.prev /\ Kind[cmd.prev] \notin Pure /\ before[3].login
<1> DEFINE q == cmd.prev
           s == before[1]
           t == cmd.set
           a == before[3]
           x == s.prof[q]
<1>1. /\ q = s.active /\ t.ids = s.ids /\ q \in t.ids /\ s.ids \subseteq Ids
      /\ \A p \in s.ids : p # q => t.prof[p] = s.prof[p]
      /\ t.active = q => t.prof[q] = x
      /\ t.active # q => t.prof[q].auth.login = IF Kind[q] \in Pure THEN x.auth.login ELSE a.login
  BY DEF SetInv, BeforeInv, AllStored, SettingsType
<1>2. /\ a.login \/ LoginIn(s)
      /\ IF Kind[q] \in Pure THEN a = x.auth ELSE x.auth.login => a.login
  BY <1>1 DEF BeforeInv, Settled, Opens, Active
<1> HIDE DEF q, s, t, a, x
<1>3. CASE a.login
  <2>1. x.auth.login \/ Kind[q] \notin Pure
    BY <1>2, <1>3
  <2>2. CASE t.prof[q].auth.login
    BY <1>1, <2>2 DEF LoginIn, t
  <2>3. CASE ~t.prof[q].auth.login
    BY <1>1, <1>3, <2>1, <2>3 DEF q, s, t, a, x
  <2>4. QED
    BY <2>2, <2>3
<1>4. CASE ~a.login
  <2>1. PICK p \in s.ids : s.prof[p].auth.login
    BY <1>2, <1>4 DEF LoginIn
  <2>2. CASE p # q
    BY <1>1, <2>1, <2>2 DEF LoginIn, t
  <2>3. CASE p = q
    <3>1. x.auth.login /\ Kind[q] \in Pure
      BY <1>2, <1>4, <2>1, <2>3 DEF x
    <3>2. t.prof[q].auth.login
      BY <1>1, <3>1
    <3>3. QED
      BY <1>1, <3>2 DEF LoginIn, t
  <2>4. QED
    BY <2>2, <2>3
<1>5. QED
  BY <1>3, <1>4

LEMMA ChooseClean ==
    ASSUME NeedsKeys, FileInv, Undisturbed, NEW p \in Ids, Choose(p) PROVE Undisturbed'
<1> DEFINE prev == settings.active
           sent == [settings EXCEPT !.active = p]
           set == BackfilledBefore(sent, prev)
<1>1. /\ cmd.pc = "idle" /\ form = settings /\ AllStored(settings) /\ AllCanonical(settings)
      /\ Settled(settings, config, auth) /\ EditsKept(settings, config, latest, overwritten)
      /\ config \in Conf /\ auth \in Credential /\ budget \in Budgets /\ p \in settings.ids
  BY DEF Undisturbed, FormInv, RestInv, FileInv, TypeInv, Choose, Running
<1>2. prev \in settings.ids /\ prev \in Ids
  BY <1>1, ActiveType DEF AllStored
<1>3. Sends(prev, config) /\ (Kind[prev] \notin Pure => auth.key = None)
  BY <1>1 DEF Settled, Opens
<1>4. /\ sent.ids = settings.ids /\ sent.active = p /\ sent.prof = settings.prof
      /\ AllStored(sent) /\ AllUsable(sent)
  BY <1>1, <1>2, CanonicalUsable DEF AllStored, SettingsType, AllCanonical, AllUsable
<1> HIDE DEF sent
<1>5. /\ AllStored(set) /\ AllUsable(set) /\ set.ids = settings.ids /\ set.active = p
      /\ \A q \in Ids : q # prev => set.prof[q] = settings.prof[q]
      /\ p = prev => set.prof[prev] = settings.prof[prev]
      /\ p # prev =>
           /\ set.prof[prev].config.edit = config.edit
           /\ set.prof[prev].auth.login = IF Kind[prev] \in Pure THEN settings.prof[prev].auth.login
                                                                 ELSE auth.login
  BY <1>1, <1>2, <1>3, <1>4, LeftUsable
<1>6. /\ UNCHANGED <<settings, config, auth, form, copy, latest, overwritten>>
      /\ before' = <<settings, config, auth>>
  BY <1>1 DEF Choose, files
<1>7. cmd'.pc = "capture" /\ cmd'.what = "switch" /\ cmd'.prev = prev /\ cmd'.set = set
  BY <1>1, IdleType DEF Choose, Commands, sent
<1> HIDE DEF set, prev
<1>8. /\ before'[1] = settings /\ before'[2] = config /\ before'[3] = auth
  BY <1>6
<1>9. CopyInv' /\ RestInv' /\ FormInv' /\ AllCanonical(settings')
  BY <1>1, <1>6, <1>7 DEF Undisturbed, CopyInv, RestInv, FormInv
<1>10. BeforeInv'
  BY <1>1, <1>6, <1>8 DEF BeforeInv
<1>11. SetInv'
  BY <1>5, <1>7, <1>8 DEF SetInv, prev, Later
<1>12. StoreInv'
  BY <1>1, <1>6, <1>7, <1>8 DEF StoreInv
<1>13. LiveInv'
  BY <1>6, <1>7, <1>8 DEF LiveInv, Same
<1>14. QED
  BY <1>9, <1>10, <1>11, <1>12, <1>13 DEF Undisturbed

LEMMA BeginRestartClean ==
    ASSUME NeedsKeys, FileInv, Undisturbed, BeginRestart PROVE Undisturbed'
<1>1. /\ cmd.pc = "idle" /\ form = settings /\ AllStored(settings) /\ AllCanonical(settings)
      /\ Settled(settings, config, auth) /\ EditsKept(settings, config, latest, overwritten)
      /\ config \in Conf /\ auth \in Credential /\ budget \in Budgets
  BY DEF Undisturbed, FormInv, RestInv, FileInv, TypeInv, BeginRestart, Running
<1>2. Normal(settings) = settings /\ settings \in SettingsType /\ settings.active \in Ids
  BY <1>1, NormalCanonical, ActiveType
<1>3. /\ UNCHANGED <<settings, config, auth, form, copy, latest, overwritten>>
      /\ before' = <<settings, config, auth>>
  BY <1>1 DEF BeginRestart, files
<1>4. /\ cmd'.pc = "apply" /\ cmd'.what = "restart" /\ cmd'.prev = settings.active
      /\ cmd'.set = settings /\ cmd'.snap = LiveFiles
  BY <1>2, IdleType DEF BeginRestart, Commands
<1>5. /\ before'[1] = settings /\ before'[2] = config /\ before'[3] = auth
  BY <1>3
<1>6. CopyInv' /\ RestInv' /\ FormInv' /\ AllCanonical(settings')
  BY <1>1, <1>3, <1>4 DEF Undisturbed, CopyInv, RestInv, FormInv
<1>7. BeforeInv'
  BY <1>1, <1>3, <1>5 DEF BeforeInv
<1>8. SetInv'
  <2>1. AllUsable(settings)
    BY <1>1, CanonicalUsable DEF AllCanonical, AllUsable
  <2>2. QED
    BY <1>1, <1>4, <1>5, <2>1 DEF SetInv
<1>9. StoreInv'
  BY <1>1, <1>3, <1>4, <1>5 DEF StoreInv
<1>10. LiveInv'
  BY <1>3, <1>4, <1>5 DEF LiveInv, Same, LiveFiles
<1>11. QED
  BY <1>6, <1>7, <1>8, <1>9, <1>10 DEF Undisturbed

(* What holds of every command under way.                                  *)
LEMMA UnderWay ==
    ASSUME FileInv, Undisturbed, cmd.pc # "idle"
    PROVE  /\ cmd \in Commands /\ before \in Befores /\ budget \in Budgets
           /\ config \in Conf /\ auth \in Credential
           /\ AllStored(cmd.set) /\ AllUsable(cmd.set) /\ cmd.set \in SettingsType
           /\ cmd.set.active \in cmd.set.ids /\ cmd.set.active \in Ids
           /\ AllStored(settings) /\ AllCanonical(settings) /\ settings \in SettingsType
           /\ AllStored(before[1]) /\ AllCanonical(before[1]) /\ before[1] \in SettingsType
           /\ Settled(before[1], before[2], before[3])
           /\ before[2] \in Conf /\ before[3] \in Credential
           /\ cmd.prev = before[1].active /\ cmd.prev \in cmd.set.ids /\ cmd.prev \in Ids
           /\ BeforeInv /\ SetInv /\ StoreInv /\ LiveInv /\ CopyInv
<1>1. /\ cmd \in Commands /\ before \in Befores /\ budget \in Budgets
      /\ config \in Conf /\ auth \in Credential /\ AllStored(settings)
      /\ BeforeInv /\ SetInv /\ StoreInv /\ LiveInv /\ CopyInv /\ AllCanonical(settings)
  BY DEF FileInv, TypeInv, CommandInv, Undisturbed
<1>2. /\ AllStored(cmd.set) /\ AllUsable(cmd.set)
      /\ AllStored(before[1]) /\ Settled(before[1], before[2], before[3])
      /\ cmd.prev = before[1].active /\ cmd.set.ids = before[1].ids
  BY <1>1 DEF BeforeInv, SetInv
<1>3. before[2] \in Conf /\ before[3] \in Credential
  BY <1>1 DEF Befores
<1>4. AllCanonical(before[1])
  BY <1>2 DEF Settled
<1>5. QED
  BY <1>1, <1>2, <1>3, <1>4 DEF AllStored, SettingsType

LEMMA CaptureClean ==
    ASSUME NeedsKeys, FileInv, Undisturbed, Capture \/ CaptureUnread PROVE Undisturbed'
<1> DEFINE set == BackfilledBefore(cmd.set, cmd.prev)
<1>1. PICK orig, read : Captured(orig, read) /\ (read => orig = Normal(settings))
  BY DEF Capture, CaptureUnread
<1>2. cmd.pc = "capture"
  BY <1>1 DEF Captured, Step
<1>3. /\ cmd \in Commands /\ AllStored(cmd.set) /\ AllUsable(cmd.set)
      /\ AllCanonical(settings) /\ settings \in SettingsType
      /\ Settled(before[1], before[2], before[3]) /\ before[2] \in Conf
      /\ config \in Conf /\ auth \in Credential
      /\ cmd.prev = before[1].active /\ cmd.prev \in cmd.set.ids /\ cmd.prev \in Ids
      /\ BeforeInv /\ SetInv /\ StoreInv /\ LiveInv /\ CopyInv
  BY <1>2, UnderWay
<1>4. Same(config, before[2], Quiet) /\ auth = before[3] /\ settings = before[1] /\ form = before[1]
  BY <1>2, <1>3 DEF LiveInv, StoreInv
<1>5. Sends(cmd.prev, config) /\ (Kind[cmd.prev] \notin Pure => auth.key = None)
  BY <1>3, <1>4, SendsDepends DEF Settled, Opens, Same
<1>6. /\ AllStored(set) /\ AllUsable(set) /\ set.ids = cmd.set.ids
      /\ set.active = cmd.set.active
      /\ \A q \in Ids : q # cmd.prev => set.prof[q] = cmd.set.prof[q]
      /\ cmd.prev = cmd.set.active => set = cmd.set
      /\ cmd.prev # cmd.set.active =>
           /\ set.prof[cmd.prev].config.edit = config.edit
           /\ set.prof[cmd.prev].auth.login
                = IF Kind[cmd.prev] \in Pure THEN cmd.set.prof[cmd.prev].auth.login ELSE auth.login
  BY <1>3, <1>5, LeftUsable
<1>7. /\ cmd'.pc = "save" /\ cmd'.what = cmd.what /\ cmd'.prev = cmd.prev /\ cmd'.set = set
      /\ cmd'.orig = orig /\ cmd'.read = read /\ cmd'.snap = LiveFiles
  BY <1>1, <1>3 DEF Captured, Commands
<1>8. read => orig = settings
  BY <1>1, <1>3, NormalCanonical
<1>9. UNCHANGED <<settings, config, auth, form, copy, before, latest, overwritten>>
  BY <1>1 DEF Captured, files, history
<1> HIDE DEF set
<1>10. CopyInv' /\ RestInv' /\ FormInv' /\ AllCanonical(settings') /\ BeforeInv'
  BY <1>2, <1>3, <1>7, <1>9 DEF CopyInv, RestInv, FormInv, BeforeInv
<1>11. Quiet' = Quiet
  BY <1>6, <1>7, <1>9 DEF Quiet
<1>12. SetInv'
  <2>1. SetInv
    BY <1>3
  <2>2. QED
    BY <1>2, <1>4, <1>6, <1>7, <1>9, <1>11, <2>1 DEF SetInv, Same, Later
<1>13. StoreInv'
  BY <1>4, <1>7, <1>8, <1>9 DEF StoreInv
<1>14. LiveInv'
  BY <1>4, <1>7, <1>9, <1>11 DEF LiveInv, LiveFiles, Same
<1>15. QED
  BY <1>10, <1>12, <1>13, <1>14 DEF Undisturbed

LEMMA SaveClean ==
    ASSUME NeedsKeys, FileInv, Undisturbed, Save PROVE Undisturbed'
<1>1. cmd.pc = "save"
  BY DEF Save, Step
<1>2. /\ cmd \in Commands /\ AllUsable(cmd.set) /\ cmd.set \in SettingsType
      /\ BeforeInv /\ SetInv /\ StoreInv /\ LiveInv /\ CopyInv
  BY <1>1, UnderWay
<1>3. /\ cmd'.pc = "load" /\ cmd'.what = cmd.what /\ cmd'.prev = cmd.prev /\ cmd'.set = cmd.set
      /\ cmd'.orig = cmd.orig /\ cmd'.read = cmd.read /\ cmd'.snap = cmd.snap
      /\ cmd'.write = cmd.write
  BY <1>2, StageChanged DEF Save, Stages
<1>4. /\ settings' = Normal(cmd.set) /\ AllCanonical(settings')
      /\ UNCHANGED <<config, auth, form, copy, before, latest, overwritten>>
  BY <1>2, NormalUsable DEF Save, history
<1>5. CopyInv' /\ RestInv' /\ FormInv' /\ BeforeInv'
  BY <1>1, <1>2, <1>3, <1>4 DEF CopyInv, RestInv, FormInv, BeforeInv
<1>6. Quiet' = Quiet
  BY <1>3, <1>4 DEF Quiet
<1>7. SetInv'
  BY <1>1, <1>2, <1>3, <1>4, <1>6 DEF SetInv, Later
<1>8. StoreInv'
  BY <1>1, <1>2, <1>3, <1>4 DEF StoreInv
<1>9. LiveInv'
  BY <1>1, <1>2, <1>3, <1>4, <1>6 DEF LiveInv, Same
<1>10. QED
  BY <1>4, <1>5, <1>7, <1>8, <1>9 DEF Undisturbed

(* What was saved differs from what is loaded by what normalising does.    *)
LEMMA LoadClean ==
    ASSUME NeedsKeys, FileInv, Undisturbed, Load PROVE Undisturbed'
<1> DEFINE set == cmd.set
           t == Normal(set)
<1>1. cmd.pc = "load"
  BY DEF Load, Step
<1>2. /\ cmd \in Commands /\ settings = t /\ AllCanonical(settings)
      /\ settings \in SettingsType /\ AllUsable(set) /\ set \in SettingsType
      /\ AllStored(settings) /\ AllCanonical(before[1]) /\ set.ids = before[1].ids
      /\ cmd.prev = before[1].active /\ cmd.prev \in set.ids /\ set.ids \subseteq Ids
      /\ BeforeInv /\ SetInv /\ StoreInv /\ LiveInv /\ CopyInv
  BY <1>1, UnderWay DEF StoreInv, SetInv, SettingsType
<1>3. /\ t.ids = set.ids /\ t.active = set.active
      /\ \A p \in Ids :
           /\ t.prof[p].config.edit = set.prof[p].config.edit
           /\ t.prof[p].auth = set.prof[p].auth
           /\ Canonical(p, set.prof[p]) => t.prof[p] = set.prof[p]
           /\ p \notin set.ids => t.prof[p] = set.prof[p]
  BY <1>2, NormalUsable
<1>4. Normal(settings) = t
  BY <1>2, NormalCanonical
<1> HIDE DEF t
<1>5. /\ cmd'.pc = "apply" /\ cmd'.what = cmd.what /\ cmd'.prev = cmd.prev /\ cmd'.set = t
      /\ cmd'.orig = cmd.orig /\ cmd'.read = cmd.read /\ cmd'.snap = cmd.snap
      /\ cmd'.write = cmd.write
  BY <1>2, <1>4 DEF Load, Commands
<1>6. UNCHANGED <<settings, config, auth, form, copy, before, latest, overwritten>>
  BY DEF Load, files, history
<1>7. CopyInv' /\ RestInv' /\ FormInv' /\ AllCanonical(settings') /\ BeforeInv'
  BY <1>1, <1>2, <1>5, <1>6 DEF CopyInv, RestInv, FormInv, BeforeInv
<1>8. Quiet' = Quiet
  BY <1>3, <1>5, <1>6 DEF Quiet
<1>9. \A p \in Ids : set.prof[p] = before[1].prof[p] => t.prof[p] = before[1].prof[p]
  BY <1>2, <1>3 DEF AllCanonical
<1>10. AllUsable(t)
  BY <1>2, CanonicalUsable DEF AllCanonical, AllUsable
<1>11. SetInv'
  <2>1. cmd.prev \in Ids
    BY <1>2
  <2>2. /\ \A p \in Ids : p # cmd.prev => t.prof[p] = before[1].prof[p]
        /\ cmd.what = "restart" => t.active = cmd.prev
        /\ t.active = cmd.prev => t.prof[cmd.prev] = before[1].prof[cmd.prev]
        /\ t.active # cmd.prev =>
             /\ t.prof[cmd.prev].auth.login
                  = IF Kind[cmd.prev] \in Pure THEN before[1].prof[cmd.prev].auth.login
                                               ELSE before[3].login
             /\ Quiet => t.prof[cmd.prev].config.edit = before[2].edit
    BY <1>1, <1>2, <1>3, <1>9, <2>1 DEF SetInv
  <2>3. QED
    BY <1>2, <1>3, <1>5, <1>6, <1>8, <1>10, <2>2 DEF SetInv
<1>12. StoreInv'
  BY <1>1, <1>2, <1>5, <1>6 DEF StoreInv
<1>13. LiveInv'
  BY <1>1, <1>2, <1>5, <1>6, <1>8 DEF LiveInv, Same
<1>14. QED
  BY <1>7, <1>11, <1>12, <1>13 DEF Undisturbed

LEMMA ApplyClean ==
    ASSUME NeedsKeys, FileInv, Undisturbed, Apply \/ ApplyUnread PROVE Undisturbed'
<1>0. PICK c \in {config, NoConfig} : Applied(c)
  BY DEF Apply, ApplyUnread
<1> DEFINE p == cmd.set.active
           k == Kind[p]
           x == Active(cmd.set)
           w == [config |-> ConfigFor(k, x, c), auth |-> AuthFor(k, x, auth)]
<1>1. cmd.pc = "apply" /\ cmd.pc \in Later
  BY <1>0 DEF Applied, Step, Later
<1>2. /\ cmd \in Commands /\ AllStored(cmd.set) /\ AllCanonical(cmd.set) /\ p \in cmd.set.ids
      /\ p \in Ids /\ AllCanonical(settings) /\ config \in Conf /\ auth \in Credential
      /\ BeforeInv /\ SetInv /\ StoreInv /\ LiveInv /\ CopyInv
  BY <1>1, UnderWay DEF SetInv
<1>3. x \in Profile /\ Canonical(p, x) /\ c \in Conf
  BY <1>2, ActiveType, Blanks DEF Active, AllCanonical
<1>4. Same(config, before[2], Quiet) /\ auth = before[3] /\ settings = cmd.set
  BY <1>1, <1>2 DEF LiveInv, StoreInv
<1>5. /\ Sends(p, w.config) /\ w.auth = AuthFor(k, x, before[3])
      /\ k # "official" => w.config.edit = x.config.edit
  BY <1>2, <1>3, <1>4, SendsWritten
<1>6. LiveFiles \in Files /\ w \in Files
  BY <1>2, <1>3, WrittenType, KindType DEF Files, LiveFiles
<1> HIDE DEF w, x, p
<1>7. /\ cmd'.what = cmd.what /\ cmd'.prev = cmd.prev /\ cmd'.set = cmd.set
      /\ cmd'.orig = cmd.orig /\ cmd'.read = cmd.read /\ cmd'.snap = cmd.snap
      /\ cmd'.pc \in {"auth", "undo"} /\ (cmd'.pc = "auth" => cmd'.write = w)
  <2>1. CASE Valid(k, x)
    <3>1. cmd' = [cmd EXCEPT !.pc = "auth", !.old = LiveFiles, !.write = w]
      BY <1>0, <2>1 DEF Applied, w, x, p
    <3>2. QED
      BY <1>2, <3>1 DEF Commands
  <2>2. CASE ~Valid(k, x)
    BY <1>0, <1>2, <2>2, StageChanged DEF Applied, Stages, x, p
  <2>3. QED
    BY <2>1, <2>2
<1>8. UNCHANGED <<settings, config, auth, form, copy, before, latest, overwritten>>
  BY <1>0 DEF Applied, files, history
<1>9. CopyInv' /\ RestInv' /\ FormInv' /\ AllCanonical(settings') /\ BeforeInv'
  BY <1>1, <1>2, <1>7, <1>8 DEF CopyInv, RestInv, FormInv, BeforeInv
<1>10. Quiet' = Quiet
  BY <1>7, <1>8 DEF Quiet
<1>11. SetInv'
  BY <1>1, <1>2, <1>7, <1>8, <1>10 DEF SetInv
<1>12. StoreInv'
  BY <1>1, <1>2, <1>7, <1>8 DEF StoreInv
<1>13. LiveInv'
  BY <1>1, <1>2, <1>4, <1>5, <1>7, <1>8, <1>10 DEF LiveInv, Same, x, p
<1>14. QED
  BY <1>9, <1>11, <1>12, <1>13 DEF Undisturbed

(* Steps that leave settings, form and copies alone and move a command on. *)
LEMMA CommandFrame ==
    ASSUME FileInv, Undisturbed, cmd.pc # "idle", NEW e \in Stages \ {"idle"},
           cmd' = [cmd EXCEPT !.pc = e],
           UNCHANGED <<copy, form, before, latest, overwritten>>, e \in Later => cmd.pc \in Later
    PROVE  /\ cmd'.pc = e /\ cmd'.what = cmd.what /\ cmd'.prev = cmd.prev /\ cmd'.set = cmd.set
           /\ cmd'.orig = cmd.orig /\ cmd'.read = cmd.read /\ cmd'.snap = cmd.snap /\ cmd'.write = cmd.write
           /\ Quiet' = Quiet
           /\ CopyInv' /\ RestInv' /\ FormInv' /\ BeforeInv' /\ SetInv'
<1>1. /\ cmd \in Commands /\ BeforeInv /\ SetInv /\ CopyInv
  BY UnderWay
<1>2. /\ cmd'.pc = e /\ cmd'.what = cmd.what /\ cmd'.prev = cmd.prev /\ cmd'.set = cmd.set
      /\ cmd'.orig = cmd.orig /\ cmd'.read = cmd.read /\ cmd'.snap = cmd.snap /\ cmd'.write = cmd.write
  BY <1>1, StageChanged
<1>3. Quiet' = Quiet
  BY <1>2 DEF Quiet
<1>4. CopyInv' /\ RestInv' /\ FormInv' /\ BeforeInv'
  BY <1>1, <1>2 DEF CopyInv, RestInv, FormInv, BeforeInv
<1>5. SetInv'
  BY <1>1, <1>2, <1>3 DEF SetInv
<1>6. QED
  BY <1>2, <1>3, <1>4, <1>5

LEMMA WriteClean ==
    ASSUME NeedsKeys, FileInv, Undisturbed, WriteAuth \/ WriteConfig \/ Check PROVE Undisturbed'
<1>1. /\ cmd.pc \in {"auth", "config", "check"}
      /\ UNCHANGED <<settings, form, copy, before, latest, overwritten>>
  BY DEF WriteAuth, WriteConfig, Check, Step, files, history
<1>2. /\ StoreInv /\ LiveInv /\ AllCanonical(settings)
  BY <1>1, UnderWay
<1>3. PICK e \in {"config", "check", "undo", "done"} :
         /\ cmd' = [cmd EXCEPT !.pc = e]
         /\ e = "config" => WriteAuth
         /\ e = "check" => WriteConfig
         /\ e \in {"undo", "done"} => Check
  BY DEF WriteAuth, WriteConfig, Check
<1>4. /\ cmd'.pc = e /\ cmd'.what = cmd.what /\ cmd'.prev = cmd.prev /\ cmd'.set = cmd.set
      /\ cmd'.orig = cmd.orig /\ cmd'.read = cmd.read /\ cmd'.snap = cmd.snap /\ cmd'.write = cmd.write
      /\ Quiet' = Quiet /\ CopyInv' /\ RestInv' /\ FormInv' /\ BeforeInv' /\ SetInv'
  BY <1>1, <1>3, CommandFrame DEF Stages, Later
<1>5. StoreInv'
  BY <1>1, <1>2, <1>4 DEF StoreInv
<1>6. LiveInv'
  <2>1. CASE e = "config"
    BY <1>1, <1>2, <1>3, <1>4, <2>1 DEF LiveInv, WriteAuth, Step, Same
  <2>2. CASE e = "check"
    BY <1>1, <1>2, <1>3, <1>4, <2>2 DEF LiveInv, WriteConfig, Step, Same
  <2>3. CASE e \in {"undo", "done"}
    BY <1>1, <1>2, <1>3, <1>4, <2>3 DEF LiveInv, Check, Step, files, Same
  <2>4. QED
    BY <2>1, <2>2, <2>3
<1>7. QED
  BY <1>1, <1>2, <1>4, <1>5, <1>6 DEF Undisturbed

LEMMA ErrorClean ==
    ASSUME NeedsKeys, FileInv, Undisturbed, Error, clean' PROVE Undisturbed'
<1>1. /\ cmd.pc \in {"capture", "save", "apply", "auth", "config", "check"}
      /\ UNCHANGED <<settings, form, copy, before, latest, overwritten>>
  BY DEF Error, StartFails, StatusUnread, Step
<1>2. /\ StoreInv /\ LiveInv /\ AllCanonical(settings) /\ budget \in Budgets
  BY <1>1, UnderWay
<1>4. PICK e \in {"failed", "undo"} :
         /\ cmd' = [cmd EXCEPT !.pc = e]
         /\ e = "failed" => cmd.pc \in {"capture", "save"} /\ UNCHANGED <<config, auth>>
         /\ e = "undo" => cmd.pc \in {"apply", "auth", "config", "check"}
  BY <1>1 DEF Error, Step
<1>5. /\ cmd'.pc = e /\ cmd'.what = cmd.what /\ cmd'.prev = cmd.prev /\ cmd'.set = cmd.set
      /\ cmd'.orig = cmd.orig /\ cmd'.read = cmd.read /\ cmd'.snap = cmd.snap /\ cmd'.write = cmd.write
      /\ Quiet' = Quiet /\ CopyInv' /\ RestInv' /\ FormInv' /\ BeforeInv' /\ SetInv'
  BY <1>1, <1>4, CommandFrame DEF Stages, Later
<1>6. StoreInv'
  BY <1>1, <1>2, <1>4, <1>5 DEF StoreInv
<1>7. LiveInv'
  BY <1>1, <1>2, <1>4, <1>5 DEF LiveInv, Same
<1>8. QED
  BY <1>1, <1>2, <1>5, <1>6, <1>7 DEF Undisturbed

LEMMA UndoClean ==
    ASSUME NeedsKeys, FileInv, Undisturbed, UndoSettings \/ UndoConfig \/ UndoAuth, clean'
    PROVE  Undisturbed'
<1>1. /\ cmd.pc \in {"undo", "undoconfig", "undoauth"}
      /\ UNCHANGED <<form, copy, before, latest, overwritten>>
  BY DEF UndoSettings, UndoConfig, UndoAuth, Step, history
<1>2. /\ StoreInv /\ LiveInv /\ AllCanonical(settings) /\ cmd \in Commands
      /\ AllCanonical(before[1]) /\ before[1] \in SettingsType
      /\ SetInv /\ BeforeInv
  BY <1>1, UnderWay
<1>3. PICK e \in {"undoconfig", "undoauth", "failed"} :
         /\ cmd' = [cmd EXCEPT !.pc = e]
         /\ e = "undoconfig" => UndoSettings
         /\ e = "undoauth" => UndoConfig
         /\ e = "failed" => UndoAuth
  BY DEF UndoSettings, UndoConfig, UndoAuth
<1>4. /\ cmd'.pc = e /\ cmd'.what = cmd.what /\ cmd'.prev = cmd.prev /\ cmd'.set = cmd.set
      /\ cmd'.orig = cmd.orig /\ cmd'.read = cmd.read /\ cmd'.snap = cmd.snap /\ cmd'.write = cmd.write
      /\ Quiet' = Quiet /\ CopyInv' /\ RestInv' /\ FormInv' /\ BeforeInv' /\ SetInv'
  BY <1>1, <1>3, CommandFrame DEF Stages, Later
<1>5. settings' = before[1]
  <2>1. CASE e = "undoconfig"
    <3>1. UndoSettings /\ cmd.pc = "undo" /\ cmd.what \in {"switch", "restart"} /\ cmd.read
      BY <1>2, <1>3, <2>1 DEF UndoSettings, Step, Commands
    <3>2. CASE cmd.what = "switch"
      <4>1. cmd.orig = before[1]
        BY <1>2, <3>1, <3>2 DEF StoreInv
      <4>2. QED
        BY <1>2, <3>1, <3>2, <4>1, NormalCanonical DEF UndoSettings
    <3>3. CASE cmd.what = "restart"
      <4>1. settings = cmd.set /\ cmd.set = before[1]
        BY <1>2, <3>1, <3>3, RestartSame DEF StoreInv, SetInv
      <4>2. QED
        BY <3>1, <3>3, <4>1 DEF UndoSettings
    <3>4. QED
      BY <3>1, <3>2, <3>3
  <2>2. CASE e \in {"undoauth", "failed"}
    BY <1>2, <1>3, <2>2 DEF StoreInv, UndoConfig, UndoAuth, Step
  <2>3. QED
    BY <2>1, <2>2
<1>6. StoreInv'
  BY <1>1, <1>2, <1>3, <1>4, <1>5 DEF StoreInv
<1>7. LiveInv'
  <2>1. CASE e = "undoconfig"
    BY <1>1, <1>2, <1>3, <1>4, <2>1 DEF LiveInv, UndoSettings, Step, Same
  <2>2. CASE e = "undoauth"
    BY <1>1, <1>2, <1>3, <1>4, <2>2 DEF LiveInv, UndoConfig, Step, Same
  <2>3. CASE e = "failed"
    BY <1>1, <1>2, <1>3, <1>4, <2>3 DEF LiveInv, UndoAuth, Step, Same
  <2>4. QED
    BY <2>1, <2>2, <2>3
<1>8. QED
  BY <1>2, <1>4, <1>5, <1>6, <1>7 DEF Undisturbed

LEMMA FinishClean ==
    ASSUME NeedsKeys, FileInv, Undisturbed, Finish PROVE Undisturbed'
<1> DEFINE s == cmd.set
           prev == cmd.prev
           p == s.active
           x == Active(s)
<1>1. cmd.pc \in {"done", "failed"} /\ UNCHANGED <<settings, config, auth, copy>>
  BY DEF Finish, Answered, files
<1>2. /\ cmd \in Commands /\ AllStored(s) /\ s \in SettingsType
      /\ p \in s.ids /\ p \in Ids
      /\ AllCanonical(settings) /\ settings \in SettingsType
      /\ AllStored(before[1]) /\ before[1] \in SettingsType
      /\ Settled(before[1], before[2], before[3])
      /\ before[2] \in Conf /\ before[3] \in Credential /\ config \in Conf
      /\ prev = before[1].active /\ prev \in s.ids /\ prev \in Ids
      /\ BeforeInv /\ SetInv /\ StoreInv /\ LiveInv /\ CopyInv
  BY <1>1, UnderWay
<1>3. cmd'.pc = "idle" /\ Normal(settings) = settings
  BY <1>2, IdleType, NormalCanonical DEF Finish, Answered
<1>4. settings = IF cmd.pc = "done" THEN s ELSE before[1]
  BY <1>1, <1>2 DEF StoreInv
<1>5. form' = settings
  <2>1. cmd.what = "restart" => form = settings
    BY <1>1, <1>2, <1>4, RestartSame DEF SetInv, StoreInv
  <2>2. QED
    BY <1>1, <1>3, <1>4, <2>1 DEF Finish, Answered, Step
<1>6. Settled(settings, config, auth)
  <2>1. CASE cmd.pc = "failed"
    <3>1. Same(config, before[2], Quiet) /\ auth = before[3]
      BY <1>2, <2>1 DEF LiveInv
    <3>2. Sends(before[1].active, config)
      BY <1>2, <3>1, SendsDepends DEF Settled, Same
    <3>3. QED
      BY <1>2, <1>4, <2>1, <3>1, <3>2 DEF Settled
  <2>2. CASE cmd.pc = "done"
    <3>1. /\ auth = AuthFor(Kind[p], x, before[3]) /\ Sends(p, cmd.write.config)
          /\ Provider(config) = Provider(cmd.write.config)
          /\ cmd.write.config \in Conf
      BY <1>2, <2>2 DEF LiveInv, FileInv, WriteInv, Commands, Files
    <3>2. Sends(p, config)
      BY <1>2, <3>1, SendsDepends
    <3>3. x \in Profile /\ Canonical(p, x)
      BY <1>2, <1>4, <2>2, ActiveType DEF Active, AllCanonical
    <3>4. Opens(p, x, auth) /\ (Kind[p] \notin Pure /\ before[3].login => auth.login)
      BY <1>2, <3>1, <3>3, OpensWritten
    <3>5. auth.login \/ LoginIn(s)
      BY <1>2, <2>2, <3>4, LoginKept
    <3>6. QED
      BY <1>2, <1>4, <2>2, <3>2, <3>4, <3>5 DEF Settled
  <2>3. QED
    BY <1>1, <2>1, <2>2
<1>7. /\ latest' = latest
      /\ overwritten' = IF cmd.pc = "done" /\ prev = p THEN overwritten \cup {prev} ELSE overwritten
  BY DEF Finish, Answered, Step
<1>8. EditsKept(settings, config, latest', overwritten')
  <2>1. SUFFICES ASSUME NEW q \in settings.ids \ overwritten', Kind[q] # "official"
                 PROVE  latest[q] = IF q = settings.active THEN config.edit
                                                           ELSE settings.prof[q].config.edit
    BY <1>7 DEF EditsKept
  <2>2. q \in Ids /\ q \in before[1].ids /\ q \notin overwritten
    BY <1>2, <1>4, <1>7 DEF SettingsType, SetInv
  <2>3. latest[q] = IF q = prev THEN before[2].edit ELSE before[1].prof[q].config.edit
    BY <1>1, <1>2, <2>1, <2>2 DEF BeforeInv, EditsKept
  <2>4. q # prev => settings.prof[q] = before[1].prof[q]
    BY <1>2, <1>4, <2>2 DEF SetInv
  <2>5. q = prev \/ q = p => Quiet
    BY <2>2 DEF Quiet
  <2>6. CASE cmd.pc = "failed"
    <3>1. q = prev => config.edit = before[2].edit
      BY <1>2, <2>5, <2>6 DEF LiveInv, Same
    <3>2. QED
      BY <1>2, <1>4, <2>3, <2>4, <2>6, <3>1
  <2>7. CASE cmd.pc = "done" /\ prev = p
    <3>1. q # prev
      BY <1>7, <2>1, <2>7
    <3>2. QED
      BY <1>4, <2>3, <2>4, <2>7, <3>1
  <2>8. CASE cmd.pc = "done" /\ prev # p
    <3>1. settings = s
      BY <1>4, <2>8
    <3>2. q = prev => s.prof[prev].config.edit = before[2].edit
      BY <1>1, <1>2, <2>5, <2>8 DEF SetInv
    <3>3. q = p => config.edit = s.prof[p].config.edit
      BY <1>2, <2>1, <2>5, <2>8 DEF LiveInv, Active
    <3>4. QED
      BY <2>3, <2>4, <2>8, <3>1, <3>2, <3>3
  <2>9. QED
    BY <1>1, <2>6, <2>7, <2>8
<1>9. QED
  BY <1>1, <1>2, <1>3, <1>5, <1>6, <1>8
     DEF Undisturbed, CopyInv, RestInv, FormInv, BeforeInv, SetInv, StoreInv, LiveInv

(* Launchers, edits of config.toml and a manager that is opened again.     *)
LEMMA LauncherClean ==
    ASSUME NeedsKeys, FileInv, Undisturbed, clean',
           LauncherReads \/ \E s \in copy : LauncherWrites(s)
    PROVE  Undisturbed'
<1>1. /\ AllStored(settings) /\ AllCanonical(settings)
      /\ \A s \in copy : AllStored(s) /\ AllCanonical(s)
  BY DEF FileInv, TypeInv, Undisturbed, CopyInv
<1>2. settings' = settings /\ \A s \in copy' : AllCanonical(s)
  <2>1. CASE LauncherReads
    BY <1>1, <2>1 DEF LauncherReads, files, history
  <2>2. ASSUME NEW s \in copy, LauncherWrites(s)
        PROVE  settings' = settings /\ copy' = {}
    <3>1. Normal(s) = s /\ Normal(settings) = settings
      BY <1>1, NormalCanonical DEF AllStored
    <3>2. QED
      BY <2>2, <3>1 DEF LauncherWrites
  <2>3. QED
    BY <2>1, <2>2
<1>3. UNCHANGED <<config, auth, form, cmd, before, latest, overwritten>>
  BY DEF LauncherReads, LauncherWrites, files, history
<1>4. CopyInv' /\ RestInv' /\ FormInv' /\ AllCanonical(settings') /\ BeforeInv'
  BY <1>1, <1>2, <1>3 DEF Undisturbed, CopyInv, RestInv, FormInv, BeforeInv
<1>5. SetInv' /\ StoreInv' /\ LiveInv'
  BY <1>2, <1>3 DEF Undisturbed, SetInv, StoreInv, LiveInv, Quiet, Same
<1>6. QED
  BY <1>4, <1>5 DEF Undisturbed

LEMMA EditClean == ASSUME NeedsKeys, FileInv, Undisturbed, Edit PROVE Undisturbed'
<1>1. /\ config' \in Conf /\ Provider(config') = Provider(config) /\ config \in Conf
      /\ UNCHANGED <<settings, auth, form, cmd, copy, before>>
  BY EditedConfig DEF FileInv, TypeInv, Edit
<1>2. CASE cmd.pc = "idle"
  <2>1. /\ Settled(settings, config, auth) /\ EditsKept(settings, config, latest, overwritten)
        /\ settings \in SettingsType /\ settings.active \in Ids /\ latest \in [Ids -> Edits]
    BY <1>2, ActiveType DEF Undisturbed, RestInv, FileInv, TypeInv
  <2>2. Sends(settings.active, config')
    BY <1>1, <2>1, SendsDepends DEF Settled
  <2>3. Settled(settings, config', auth)
    BY <2>1, <2>2 DEF Settled
  <2>4. /\ latest' = [latest EXCEPT ![settings.active] = config'.edit]
        /\ overwritten' = overwritten \ {settings.active}
    BY <1>2 DEF Edit, Running
  <2>5. EditsKept(settings, config', latest', overwritten')
    <3>1. \A p \in settings.ids : p \in Ids
      BY <2>1 DEF SettingsType
    <3>2. QED
      BY <2>1, <2>4, <3>1 DEF EditsKept
  <2>6. QED
    BY <1>1, <1>2, <2>3, <2>5
       DEF Undisturbed, CopyInv, RestInv, FormInv, BeforeInv, SetInv, StoreInv, LiveInv
<1>3. CASE cmd.pc # "idle"
  <2>1. latest' = latest /\ overwritten' = overwritten \cup {cmd.prev, cmd.set.active}
    BY <1>3 DEF Edit, Running
  <2>2. BeforeInv /\ SetInv /\ StoreInv /\ LiveInv
    BY <1>3, UnderWay
  <2>3. ~Quiet'
    BY <1>1, <2>1 DEF Quiet
  <2>4. RestInv' /\ FormInv' /\ CopyInv' /\ AllCanonical(settings') /\ StoreInv'
    BY <1>1, <1>3, <2>2 DEF Undisturbed, RestInv, FormInv, CopyInv, StoreInv
  <2>5. BeforeInv'
    BY <1>1, <2>1, <2>2 DEF BeforeInv, EditsKept
  <2>6. SetInv'
    BY <1>1, <2>2, <2>3 DEF SetInv
  <2>7. LiveInv'
    BY <1>1, <2>2, <2>3 DEF LiveInv, Same
  <2>8. QED
    BY <2>4, <2>5, <2>6, <2>7 DEF Undisturbed
<1>4. QED
  BY <1>2, <1>3

LEMMA ReopenClean ==
    ASSUME NeedsKeys, FileInv, Undisturbed, Reopen, clean' PROVE Undisturbed'
<1>1. /\ cmd.pc = "idle" /\ AllCanonical(settings) /\ settings \in SettingsType
      /\ Settled(settings, config, auth) /\ EditsKept(settings, config, latest, overwritten)
  BY DEF Reopen, Running, Undisturbed, RestInv, FileInv, TypeInv, AllStored
<1>2. /\ UNCHANGED <<settings, config, auth, copy, latest, overwritten>> /\ form' = settings
      /\ cmd'.pc = "idle"
  BY <1>1, NormalCanonical, IdleType DEF Reopen, files
<1>3. QED
  BY <1>1, <1>2
     DEF Undisturbed, CopyInv, RestInv, FormInv, BeforeInv, SetInv, StoreInv, LiveInv

LEMMA InitClean == ASSUME NeedsKeys, Init PROVE Undisturbed
<1> DEFINE t == [ids |-> Ids \ Imports, active |-> Default,
                 prof |-> [p \in Ids |-> NewProfile(p)]]
           s == Normal(t)
<1>1. FileInv
  BY InitFiles
<1>2. AllStored(settings) /\ auth \in Credential /\ config \in Conf
  BY <1>1 DEF FileInv, TypeInv
<1>3. \A p \in t.ids : s.prof[p] = Normalized(Kind[p], NewProfile(p))
  BY DEF Normal
<1>4. s.ids = Ids \ Imports
  BY DEF Normal
<1>5. AllCanonical(s)
  BY <1>3, <1>4, NewCanonical DEF AllCanonical
<1>6. PICK p \in s.ids : Kind[p] \notin Pure /\ settings = [s EXCEPT !.active = p]
  BY DEF Init
<1>7. s.ids = settings.ids /\ s.prof = settings.prof /\ settings.active = p
  BY <1>6 DEF Normal
<1> HIDE DEF s, t
<1>8. AllCanonical(settings) /\ p \in Ids /\ p \in settings.ids
  BY <1>4, <1>5, <1>7 DEF AllCanonical
<1> DEFINE x == Active(settings)
<1>9. x \in Profile /\ Canonical(p, x)
  BY <1>2, <1>7, <1>8, ActiveType DEF AllCanonical, Active
<1>10. /\ config = ConfigFor(Kind[p], x, NoConfig) /\ auth = [key |-> None, login |-> TRUE]
       /\ cmd = Idle /\ form = settings /\ copy = {} /\ latest = [q \in Ids |-> 0]
  BY <1>7 DEF Init
<1> HIDE DEF x
<1>11. Sends(p, config)
  BY <1>8, <1>9, <1>10, SendsWritten, Blanks
<1>12. Settled(settings, config, auth)
  BY <1>6, <1>7, <1>8, <1>10, <1>11 DEF Settled, Opens
<1>13. EditsKept(settings, config, latest, overwritten)
  <2>1. \A q \in settings.ids : q \in Ids /\ settings.prof[q].config.edit = 0
    <3>1. SUFFICES ASSUME NEW q \in Ids PROVE Normalized(Kind[q], NewProfile(q)).config.edit = 0
      BY <1>3, <1>4, <1>7 DEF t
    <3>2. NewProfile(q) \in Profile /\ NewProfile(q).config.edit = 0
      BY Blanks DEF NewProfile, NoConfig
    <3>3. CASE Kind[q] = "official"
      BY <3>2, <3>3 DEF Normalized, NormalizedOfficial, NoConfig
    <3>4. CASE Kind[q] # "official"
      <4>1. /\ Normalized(Kind[q], NewProfile(q)).config
                  = Completed(Kind[q], Keyed(Kind[q], NewProfile(q)))
            /\ Keyed(Kind[q], NewProfile(q)).config = NewProfile(q).config
        BY <3>2, <3>4, RelayParts, KeyedParts, KindType
      <4>2. QED
        BY <3>2, <4>1 DEF Completed
    <3>5. QED
      BY <3>3, <3>4
  <2>2. config.edit = 0
    <3>1. x.config.edit = 0
      BY <1>2, <1>7, <1>8, <2>1 DEF x, Active
    <3>2. QED
      BY <1>8, <1>9, <1>10, <3>1, SendsWritten, Blanks DEF NoConfig
  <2>3. QED
    BY <1>10, <2>1, <2>2 DEF EditsKept
<1>14. QED
  BY <1>8, <1>10, <1>12, <1>13, IdleType
     DEF Undisturbed, CopyInv, RestInv, FormInv, BeforeInv, SetInv, StoreInv, LiveInv

(* Nothing makes undone what broke in.                                     *)
LEMMA StaysUnclean == ASSUME FileInv, [Next]_vars, clean' PROVE clean
<1>1. clean \in BOOLEAN
  BY DEF FileInv, TypeInv
<1>2. ASSUME UNCHANGED clean PROVE clean
  BY <1>1, <1>2
<1>3. CASE Error \/ UndoSettings \/ Reopen \/ \E s \in copy : LauncherWrites(s)
  BY <1>1, <1>3 DEF Error, UndoSettings, Reopen, LauncherWrites
<1>4. CASE (\E p \in Ids : Import(p)) \/ UndoError \/ FinishUnread
  BY <1>4 DEF Import, UndoError, FinishUnread
<1>5. QED
  BY <1>2, <1>3, <1>4
     DEF Next, vars, history, Choose, Capture, CaptureUnread, Captured, Save, Load, BeginRestart,
         Apply, ApplyUnread, Applied, WriteAuth, WriteConfig, Check, UndoConfig, UndoAuth, Finish,
         LauncherReads, Edit

LEMMA CleanInductive ==
    ASSUME NeedsKeys, FileInv, CleanInv, [Next]_vars PROVE CleanInv'
<1> SUFFICES ASSUME clean' PROVE Undisturbed'
  BY DEF CleanInv
<1>1. clean /\ Undisturbed
  BY StaysUnclean DEF CleanInv
<1>2. CASE UNCHANGED vars
  BY <1>1, <1>2 DEF vars, Undisturbed, CopyInv, RestInv, FormInv, BeforeInv, SetInv, StoreInv,
     LiveInv, Quiet
<1>3. CASE Next
  <2>1. ~ \E p \in Ids : Import(p)
    BY DEF Import
  <2>2. ~UndoError /\ ~FinishUnread
    BY DEF UndoError, FinishUnread
  <2>3. QED
    BY <1>1, <1>3, <2>1, <2>2, ChooseClean, CaptureClean, SaveClean, LoadClean,
       BeginRestartClean, ApplyClean, WriteClean, ErrorClean, UndoClean, FinishClean,
       LauncherClean, EditClean, ReopenClean DEF Next
<1>4. QED
  BY <1>2, <1>3

(* What holds of files, profiles and commands as long as nothing breaks in *)
(* and every relay has a key.                                              *)
THEOREM UndisturbedStaysSo == ASSUME NeedsKeys PROVE Spec => [](FileInv /\ CleanInv)
<1>1. Init => FileInv /\ CleanInv
  BY InitFiles, InitClean DEF CleanInv
<1>2. FileInv /\ CleanInv /\ [Next]_vars => (FileInv /\ CleanInv)'
  BY FileInductive, CleanInductive
<1>3. QED
  BY <1>1, <1>2, PTL DEF Spec

(* Profiles that share two live files do not mix: each keeps its endpoint, *)
(* its key and the ChatGPT login it had.                                   *)
THEOREM ProfilesAreKeptApart == ASSUME NeedsKeys PROVE Spec => []ProfilesStayApart
<1>1. ASSUME FileInv, CleanInv, clean PROVE EndpointsStayApart /\ LoginSurvives
  <2>1. Undisturbed /\ AllCanonical(settings)
    BY <1>1 DEF CleanInv, Undisturbed
  <2>2. EndpointsStayApart
    BY <2>1 DEF EndpointsStayApart, AllCanonical, Canonical, Owned, Own
  <2>3. auth.login \/ LoginIn(settings) \/ (Running /\ before[3].login)
    <3>1. CASE cmd.pc = "idle"
      BY <2>1, <3>1 DEF Undisturbed, RestInv, Settled
    <3>2. CASE cmd.pc # "idle"
      <4>1. /\ SetInv /\ BeforeInv /\ StoreInv /\ Settled(before[1], before[2], before[3])
            /\ cmd.pc \in Stages
        BY <1>1, <2>1, <3>2, UnderWay DEF Commands
      <4>2. \/ settings = cmd.set \/ settings = before[1]
            \/ settings = Normal(cmd.set) /\ cmd.set \in SettingsType /\ AllUsable(cmd.set)
        BY <3>2, <4>1 DEF StoreInv, Stages, SetInv, AllStored
      <4>3. LoginIn(cmd.set) => LoginIn(Normal(cmd.set))
        BY <3>2, <4>1, NormalUsable DEF SetInv, AllStored, SettingsType, LoginIn
      <4>4. LoginIn(settings) \/ before[3].login
        BY <3>2, <4>1, <4>2, <4>3, LoginKept DEF Settled
      <4>5. QED
        BY <3>2, <4>4 DEF Running
    <3>3. QED
      BY <3>1, <3>2
  <2>4. settings.active \in settings.ids
    BY <1>1 DEF FileInv, TypeInv, AllStored
  <2>5. QED
    BY <2>2, <2>3, <2>4 DEF LoginSurvives, LoginIn
<1>2. FileInv /\ CleanInv => EndpointsStayApart /\ LoginSurvives
  BY <1>1 DEF EndpointsStayApart, LoginSurvives
<1>3. QED
  BY <1>2, KeysAreKept, UndisturbedStaysSo, PTL DEF ProfilesStayApart

(* What the user changed last in a relay's config.toml is in the file or   *)
(* in the profile, but for the edits the code discards (overwritten).      *)
THEOREM EditsAreKept == ASSUME NeedsKeys PROVE Spec => []EditsSurvive
<1>1. FileInv /\ CleanInv => EditsSurvive
  BY DEF CleanInv, Undisturbed, RestInv, EditsSurvive, EditsKept, Running
<1>2. QED
  BY <1>1, UndisturbedStaysSo, PTL

(* A command that reports a failure left the settings, the provider and    *)
(* the login as they were, as long as nothing broke in and it could read   *)
(* what its undo wrote; a restart that reports success left the live files *)
(* of the active profile.                                                  *)
THEOREM ReportsHold == ASSUME NeedsKeys PROVE Spec => ReportsAreTrue
<1>1. ASSUME FileInv, CleanInv, [Next]_vars
      PROVE  [(Finish \/ FinishUnread) /\ Step("failed") /\ clean =>
                /\ settings = before[1]
                /\ Provider(config) = Provider(before[2])
                /\ auth = before[3]]_vars
  <2>1. SUFFICES ASSUME Step("failed"), clean
                 PROVE  /\ settings = before[1]
                        /\ Provider(config) = Provider(before[2])
                        /\ auth = before[3]
    OBVIOUS
  <2>2. QED
    BY <1>1, <2>1 DEF Step, CleanInv, Undisturbed, StoreInv, LiveInv, Same
<1>2. Spec => FailureRestores
  BY <1>1, UndisturbedStaysSo, PTL DEF Spec, FailureRestores
<1>3. QED
  BY <1>2, RestartsRepair DEF ReportsAreTrue

(* Seen between commands a switch is one step, as long as nothing breaks   *)
(* in and no undo writes default settings for some it could not read.      *)
THEOREM SwitchesAreTransactions == ASSUME NeedsKeys PROVE Spec => ImplementsTransaction
<1> DEFINE active == IF cmd = Idle THEN settings.active ELSE before[1].active
           matched == IF cmd = Idle THEN Live(settings, config, auth)
                                    ELSE Live(before[1], before[2], before[3])
           Mapped == active \in Ids /\ matched \in BOOLEAN /\ (clean => matched)
<1>1. ASSUME FileInv, CleanInv PROVE Mapped
  <2>1. CASE cmd = Idle
    <3>1. cmd.pc = "idle" /\ AllStored(settings) /\ config \in Conf /\ auth \in Credential
      BY <1>1, <2>1, IdleType DEF FileInv, TypeInv
    <3>2. clean => Settled(settings, config, auth)
      BY <1>1, <3>1 DEF CleanInv, Undisturbed, RestInv
    <3>3. QED
      BY <2>1, <3>1, <3>2, SettledLive, ActiveType DEF Live
  <2>2. CASE cmd # Idle
    <3>1. cmd.pc # "idle" /\ before \in Befores
      BY <1>1, <2>2 DEF FileInv, CommandInv
    <3>2. before[1].active \in Ids /\ before[2] \in Conf /\ before[3] \in Credential
      BY <3>1 DEF Befores, SettingsType
    <3>3. clean => AllStored(before[1]) /\ Settled(before[1], before[2], before[3])
      BY <1>1, <3>1 DEF CleanInv, Undisturbed, BeforeInv
    <3>4. QED
      BY <2>2, <3>2, <3>3, SettledLive DEF Live
  <2>3. QED
    BY <2>1, <2>2
<1> HIDE DEF active, matched
<1>2. ASSUME Init PROVE Transaction!Init
  <2>1. FileInv /\ CleanInv /\ clean /\ clean = TRUE
    BY <1>2, InitFiles, InitClean DEF CleanInv, Init
  <2>2. active \in Ids /\ matched = TRUE
    BY <1>1, <2>1
  <2>3. QED
    BY <2>1, <2>2 DEF Transaction!Init, active, matched
<1>3. ASSUME FileInv, FileInv', Mapped', [Next]_vars
      PROVE  [Transaction!Next]_(Transaction!tvars)
  <2>1. active' \in Ids /\ matched' \in BOOLEAN /\ (clean' => matched')
    BY <1>3
  <2>2. clean \in BOOLEAN /\ clean' \in BOOLEAN
    BY <1>3 DEF FileInv, TypeInv
  <2>3. CASE clean'
    <3>1. clean
      BY <1>3, <2>3, StaysUnclean
    <3>2. Transaction!Switch(active')
      BY <2>1, <2>2, <2>3, <3>1 DEF Transaction!Switch, active, matched
    <3>3. QED
      BY <2>1, <3>2 DEF Transaction!Next
  <2>4. CASE ~clean'
    BY <2>1, <2>2, <2>4 DEF Transaction!Next, Transaction!Trouble, active, matched
  <2>5. QED
    BY <2>3, <2>4
<1>4. QED
  BY <1>1, <1>2, <1>3, UndisturbedStaysSo, PTL DEF Spec, ImplementsTransaction, Transaction!Spec
=============================================================================
