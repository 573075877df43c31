------------------------- MODULE RelayProfileConfig -------------------------
(***************************************************************************)
(* What relay_config.rs makes of a stored profile and of the files Codex   *)
(* reads: config.toml is reduced to the endpoint, the bearer token and the *)
(* user's own edits, auth.json to the API key and the ChatGPT login.       *)
(* Owners name the endpoint and the key of one profile each. The session   *)
(* identity "openai" is not told apart: endpoint and token are kept in     *)
(* model_providers.custom as for any other, only the name at the root      *)
(* differs. Aggregates are not modelled.                                   *)
(***************************************************************************)
EXTENDS Naturals

\* No value, an empty string in the code.
None == "none"
\* http://127.0.0.1:57321/v1, the address of the local protocol proxy.
Proxy == "proxy"
\* The placeholder token written for a relay that needs no key.
NoAuthToken == "noauth"

\* The kinds of profile the code tells apart: three with a key of their own, by
\* protocol and with routes to other relays for some models, one that needs no
\* key, the official login with a relay's key mixed in, and the official login
\* alone.
KeyKinds == {"api", "chat", "routes"}
Pure == KeyKinds \cup {"noauth"}
ProxyKinds == {"chat", "routes", "noauth"}
Kinds == Pure \cup {"mix", "official"}

Configs(Owners, Edits) ==
  [active: BOOLEAN, base: Owners \cup {None, Proxy},
   token: Owners \cup {None, NoAuthToken}, edit: Edits]
NoConfig == [active |-> FALSE, base |-> None, token |-> None, edit |-> 0]

Auths(Owners) == [key: Owners \cup {None, NoAuthToken}, login: BOOLEAN]
NoAuth == [key |-> None, login |-> FALSE]

Profiles(Owners, Edits) ==
  [config: Configs(Owners, Edits), auth: Auths(Owners),
   up: Owners \cup {None, Proxy}, key: Owners \cup {None, NoAuthToken}]

\* What a user who adds a profile has typed.
NewProfile(p) == [config |-> NoConfig, auth |-> NoAuth, up |-> p, key |-> p]

\* The first of two or three values that is not empty.
Or(x, y) == IF x # None THEN x ELSE y
Or3(x, y, z) == Or(x, Or(y, z))

\* relay_profile_base_url: a Chat relay and one with routes are behind the proxy
\* and keep their address apart; for the others config.toml has the last word.
BaseUrl(k, p) ==
  CASE k = "chat" -> Or(p.up, IF p.config.base = Proxy THEN None ELSE p.config.base)
    [] k = "routes" -> Or(p.up, p.config.base)
    [] OTHER -> Or(p.config.base, p.up)

\* relay_profile_api_key.
ApiKey(k, p) ==
  Or3(IF k \in Pure THEN p.auth.key ELSE None, p.config.token, p.key)

\* complete_relay_profile_config: the endpoint Codex is to use.
Endpoint(k, url) == IF k \in ProxyKinds THEN Proxy ELSE url

\* complete_relay_profile_config: config.toml as it is written for a profile.
Completed(k, p) ==
  [active |-> TRUE,
   base   |-> Or(Endpoint(k, BaseUrl(k, p)), p.config.base),
   token  |-> CASE k = "noauth" -> NoAuthToken
                [] k \in KeyKinds -> None
                [] OTHER -> Or(ApiKey(k, p), p.config.token),
   edit   |-> p.config.edit]

\* normalize_relay_profile_for_storage of an official profile.
NormalizedOfficial(p) ==
  [config |-> IF p.config.active \/ p.up # None \/ p.key # None \/ p.auth.key # None
                THEN NoConfig ELSE p.config,
   auth   |-> [key |-> None, login |-> p.auth.login],
   up     |-> None, key |-> None]

\* The same of a relay's profile.
NormalizedRelay(k, q) ==
  LET p == IF k = "noauth" THEN [q EXCEPT !.key = None] ELSE q
      r == [config |-> Completed(k, p),
            auth   |-> [key |-> IF k \in KeyKinds THEN Or(ApiKey(k, p), p.auth.key) ELSE None,
                        login |-> p.auth.login],
            up     |-> BaseUrl(k, p), key |-> p.key]
  IN [r EXCEPT !.key = IF k = "noauth" THEN None ELSE ApiKey(k, r)]

Normalized(k, p) == IF k = "official" THEN NormalizedOfficial(p) ELSE NormalizedRelay(k, p)

\* backfill_relay_profile_from_home_with_common: the endpoint, when Codex was
\* sent to the proxy for a relay that speaks Responses itself.
OwnEndpoint(k, p, live) ==
  IF k # "chat" /\ live.base = Proxy /\ BaseUrl(k, p) # None
    THEN [live EXCEPT !.base = BaseUrl(k, p)] ELSE live

\* Slip: the key is the one in the live files.
CredentialsLive(k, p, c, auth) ==
  [p EXCEPT !.config = IF k \in Pure THEN [c EXCEPT !.token = None] ELSE c,
            !.auth = IF k = "mix" THEN [auth EXCEPT !.key = None] ELSE auth,
            !.key = Or(auth.key, c.token)]

\* restore_profile_credentials_after_backfill. The mode of the profile, which
\* sync_profile_mode_from_backfilled_live sets from the credentials, comes out
\* as the mode it had, because its key is put back first.
Credentials(k, p, c, auth) ==
  CASE k \in Pure ->
         [p EXCEPT !.config = [c EXCEPT !.token = None],
                   !.auth.key = ApiKey(k, p), !.key = ApiKey(k, p)]
    [] k = "mix" ->
         [p EXCEPT !.config = [c EXCEPT !.token = ApiKey(k, p)],
                   !.auth = [auth EXCEPT !.key = None], !.key = ApiKey(k, p)]
    [] OTHER ->
         [p EXCEPT !.config = IF auth = NoAuth \/ auth.key # None
                                THEN [c EXCEPT !.token = None] ELSE c,
                   !.auth = IF auth = NoAuth /\ c.token # None
                              THEN [@ EXCEPT !.key = c.token] ELSE auth,
                   !.key = Or(c.token, @)]

Backfilled(k, p, config, auth) == Credentials(k, p, OwnEndpoint(k, p, config), auth)

\* validate_switch_profile_files and the refusals of apply_selected_relay_profile
\* before anything is written.
Valid(k, p) ==
  k # "official" => p.config # NoConfig /\ (k = "mix" => p.auth.key = None)

\* clear_relay_config_to_home_with_auth: the table of the provider stays in
\* config.toml, the reference to it does not.
Cleared(config) == [config EXCEPT !.active = FALSE, !.token = None]

\* The two files apply_selected_relay_profile writes.
ConfigFor(k, p, config) == IF k = "official" THEN Cleared(config) ELSE Completed(k, p)

AuthFor(k, p, auth) ==
  CASE k = "official" -> IF p.auth # NoAuth THEN p.auth ELSE [auth EXCEPT !.key = None]
    [] k = "mix" -> [key |-> None, login |-> IF p.auth = NoAuth THEN auth.login ELSE p.auth.login]
    [] OTHER -> p.auth

\* relay_config_status_from_home.
Configured(config, auth) ==
  config.active /\ config.base # None /\ (config.token # None \/ auth.key # None)
=============================================================================
