------------------------------ MODULE SignIn ------------------------------
(***************************************************************************)
(* Who may see the pages (web/auth.py): the middleware in front of every    *)
(* page, and the sign-in with an OAuth provider.  The session is a signed   *)
(* cookie (settings.SESSION_ENGINE): the server keeps nothing, each request *)
(* carries the cookie the browser had when it was sent, and each answer     *)
(* that changed the session overwrites the cookie when it arrives.  Several *)
(* tabs of one browser share the cookie.  Django's session and the provider *)
(* are modelled from how auth.py uses them.                                 *)
(***************************************************************************)
EXTENDS Naturals, Sequences, FiniteSetsExt, Absent

CONSTANTS
  Tabs,
  Paths,          \* pages behind the sign-in
  SafePaths,      \* those whose address starts with one slash: _sanitize_next keeps it
  Accounts,       \* the accounts the user has at the provider
  Profile,        \* account -> what the provider tells about it
  RawConfigs,     \* the settings and environments the instance is started with
  MaxStarts       \* bound: the number of sign-ins begun

Providers == {"google", "github", "gitlab", "okta"}
Root == "/"

EmailsOf(account) == {Profile[account].emails[i] : i \in DOMAIN Profile[account].emails}

ASSUME SignInAssumption ==
  /\ Root \notin Paths /\ None \notin Paths \cup {Root}
  /\ \A a \in Accounts : Profile[a].emails \in Seq(EmailsOf(a))
  /\ MaxStarts \in Nat /\ None \notin Nat

VARIABLES
  config,   \* what load_auth_config resolves on every request; settings that change
            \* under a running server are not modelled
  jar,      \* the session cookie of the browser
  tabs,     \* what each tab shows or waits for
  starts    \* sign-ins begun: the source of fresh "state" tokens

signVars == <<config, jar, tabs, starts>>

-----------------------------------------------------------------------------
(* Configuration. *)

(* _get_setting: Django's settings, even an empty one, before the environment. *)
GetSetting(raw, key) == IF raw.settings[key] # None THEN raw.settings[key] ELSE raw.env[key]

(* A provider by name, or a custom handler by import path; anything else that is
   not empty is an error page for every request.  Of the basic credentials, the
   allowed addresses and the groups a setting has the entries that parse. *)
LoadAuthConfig(raw) ==
  LET get(key) == GetSetting(raw, key)
      provider == IF get("provider") \in Providers THEN get("provider") ELSE None
      custom == get("provider") = "handler"
      csv(key) == IF get(key) = None THEN {} ELSE get(key)
  IN  [basic    |-> csv("basic") # {},
       provider |-> provider,
       custom   |-> custom,
       patterns |-> csv("allowed"),
       groups   |-> csv("groups"),
       client   |-> {get("key"), get("secret")} \cap {None, ""} = {},
       base     |-> get("okta_base"),
       error    |-> get("provider") \notin {None, ""} /\ provider = None /\ ~custom]

Enabled == config.basic \/ config.provider # None \/ config.custom \/ config.error

(* _resolve_endpoints fails for Okta without a base URL. *)
HasEndpoints == config.provider = "okta" => config.base # None

-----------------------------------------------------------------------------
(* What the provider says about an account. *)

PrimaryEmails(account) ==
  LET emails == Profile[account].emails
  IN  {i \in DOMAIN emails : emails[i].primary /\ emails[i].verified}

(* GitHub may withhold the profile's address: then the primary verified one of
   the list, or the first. *)
FetchUserEmail(account) ==
  LET emails == Profile[account].emails
      primary == PrimaryEmails(account)
  IN  IF Profile[account].email # None \/ config.provider # "github"
      THEN Profile[account].email
      ELSE IF primary # {} /\ emails[Min(primary)].email # None THEN emails[Min(primary)].email
      ELSE IF emails # <<>> THEN Head(emails).email
      ELSE None

IsEmailAllowed(email) == config.patterns # {} => email \in config.patterns

(* The groups come in pages; they are read to the last one. *)
FetchGitlabGroups(account) ==
  UNION {Profile[account].groups[p] : p \in DOMAIN Profile[account].groups}

(* Mutant: the address decides, the groups are looked at without patterns only. *)
CompletesLoginByEmail(account) ==
  /\ FetchUserEmail(account) # None
  /\ IsEmailAllowed(FetchUserEmail(account))
  /\ config.provider = "gitlab" /\ config.groups # {} /\ config.patterns = {}
       => FetchGitlabGroups(account) \cap config.groups # {}

CompletesLogin(account) ==
  /\ FetchUserEmail(account) # None
  /\ IsEmailAllowed(FetchUserEmail(account))
  /\ config.provider = "gitlab" /\ config.groups # {}
       => FetchGitlabGroups(account) \cap config.groups # {}

-----------------------------------------------------------------------------
NoSession == [auth |-> None, state |-> None, next |-> None]
BlankTab == [at |-> "page", want |-> None, token |-> None, land |-> None, cookie |-> None]

SignInInit ==
  /\ config \in {LoadAuthConfig(raw) : raw \in RawConfigs}
  /\ jar = NoSession
  /\ tabs = [t \in Tabs |-> BlankTab]
  /\ starts = 0

(* The answer on its way to a tab; cookie is None when the session is unchanged. *)
Answer(t, at, want, token, cookie) ==
  tabs' = [tabs EXCEPT ![t] =
    [at |-> at, want |-> want, token |-> token, land |-> None, cookie |-> cookie]]

(* _redirect_after_login: to the page remembered in the session. *)
Land(t, want, session) ==
  tabs' = [tabs EXCEPT ![t] =
    [at |-> "landed", want |-> want, token |-> None,
     land |-> IF session.next # None THEN session.next ELSE Root,
     cookie |-> [session EXCEPT !.next = None]]]

Idle(t) == tabs[t].at = "page"

(* The middleware on a page behind the sign-in.  A request may carry the right
   basic credentials; a custom handler may allow or refuse it. *)
Passes(credentials, verdict) ==
  /\ ~config.error
  /\ \/ ~Enabled
     \/ config.basic /\ credentials
     \/ config.custom /\ verdict
     \/ ~config.custom /\ config.provider # None /\ jar.auth # None

ServePage(t, path) ==
  /\ Idle(t)
  /\ \E credentials, verdict \in BOOLEAN : Passes(credentials, verdict)
  /\ Answer(t, "served", path, None, None)
  /\ UNCHANGED <<config, jar, starts>>

(* 401, 403 or 500: no sign-in page to go to. *)
RefusePage(t) ==
  /\ Idle(t)
  /\ ~Passes(FALSE, FALSE)
  /\ config.error \/ config.custom \/ config.provider = None
  /\ Answer(t, "refused", None, None, None)
  /\ UNCHANGED <<config, jar, starts>>

SanitizeNext(path) == IF path \in SafePaths THEN path ELSE None

RedirectToLogin(t, path) ==
  /\ Idle(t)
  /\ ~config.error /\ ~config.custom /\ config.provider # None
  /\ ~Passes(FALSE, FALSE)
  /\ Answer(t, "redirected", SanitizeNext(path), None, None)
  /\ UNCHANGED <<config, jar, starts>>

(* /login without a code: from the redirect, with the page wanted as "next", or
   by hand. *)
LoginAsked(t) == tabs[t].at = "login" \/ Idle(t)
NextParam(t) == IF tabs[t].at = "login" THEN tabs[t].want ELSE None

(* Mutant: a page already remembered is kept. *)
StartOAuthKeepsNext(t) ==
  /\ LoginAsked(t)
  /\ ~config.error /\ ~config.custom /\ config.provider # None
  /\ config.client /\ HasEndpoints
  /\ starts < MaxStarts
  /\ starts' = starts + 1
  /\ Answer(t, "to_provider", NextParam(t), starts + 1,
            [jar EXCEPT !.state = starts + 1, !.next = IF @ # None THEN @ ELSE NextParam(t)])
  /\ UNCHANGED <<config, jar>>

StartOAuth(t) ==
  /\ LoginAsked(t)
  /\ ~config.error /\ ~config.custom /\ config.provider # None
  /\ config.client /\ HasEndpoints
  /\ starts < MaxStarts
  /\ starts' = starts + 1
  /\ Answer(t, "to_provider", NextParam(t), starts + 1,
            [jar EXCEPT !.state = starts + 1,
                        !.next = IF NextParam(t) # None THEN NextParam(t) ELSE @])
  /\ UNCHANGED <<config, jar>>

(* 400 or 404: no client credentials, no endpoints, no provider. *)
CannotStart(t) ==
  /\ LoginAsked(t)
  /\ ~config.custom
  /\ config.error \/ config.provider = None \/ ~config.client \/ ~HasEndpoints
  /\ Answer(t, "refused", None, None, None)
  /\ UNCHANGED <<config, jar, starts>>

(* /login with a custom handler: "next" is remembered, then taken or left. *)
CustomLogin(t) ==
  /\ LoginAsked(t) /\ config.custom
  /\ LET session == [jar EXCEPT !.next = IF NextParam(t) # None THEN NextParam(t) ELSE @]
     IN  \/ Land(t, NextParam(t), session)
         \/ Answer(t, "refused", None, None, session)
  /\ UNCHANGED <<config, jar, starts>>

-----------------------------------------------------------------------------
(* The callback: the provider sends the tab back to /login. *)
StateMatches(t) == jar.state # None /\ jar.state = tabs[t].token

ProviderRefuses(t) ==
  /\ tabs[t].at = "provider"
  /\ Answer(t, "refused", None, None, None)
  /\ UNCHANGED <<config, jar, starts>>

InvalidState(t) ==
  /\ tabs[t].at = "provider"
  /\ ~StateMatches(t)
  /\ Answer(t, "refused", None, None, None)
  /\ UNCHANGED <<config, jar, starts>>

(* The provider does not answer the server: an error 500, with which Django does
   not save the session. *)
ExchangeFails(t) ==
  /\ tabs[t].at = "provider"
  /\ StateMatches(t)
  /\ Answer(t, "refused", None, None, None)
  /\ UNCHANGED <<config, jar, starts>>

(* 403: the account is not let in, or the provider gives no token for the code,
   as it may for any account.  The answer saves that the state is used up. *)
DenyLogin(t) ==
  /\ tabs[t].at = "provider"
  /\ StateMatches(t)
  /\ Answer(t, "refused", None, None, [jar EXCEPT !.state = None])
  /\ UNCHANGED <<config, jar, starts>>

CompleteLogin(t, account) ==
  /\ tabs[t].at = "provider"
  /\ StateMatches(t)
  /\ CompletesLogin(account)
  /\ Land(t, tabs[t].want, [jar EXCEPT !.auth = FetchUserEmail(account), !.state = None])
  /\ UNCHANGED <<config, jar, starts>>

Logout(t) ==
  /\ Idle(t)
  /\ Answer(t, "served", Root, None, NoSession)
  /\ UNCHANGED <<config, jar, starts>>

-----------------------------------------------------------------------------
(* An answer arrives; the tab shows it or follows the redirect. *)
Arrives == [served |-> "page", refused |-> "page", landed |-> "page",
            redirected |-> "login", to_provider |-> "provider"]

Receive(t) ==
  /\ tabs[t].at \in DOMAIN Arrives
  /\ jar' = IF tabs[t].cookie # None THEN tabs[t].cookie ELSE jar
  /\ LET at == Arrives[tabs[t].at]
     IN  tabs' = [tabs EXCEPT ![t] = IF at = "page" THEN BlankTab
                                    ELSE [@ EXCEPT !.at = at, !.cookie = None]]
  /\ UNCHANGED <<config, starts>>

(* The user leaves before the answer arrives, or gives up at the provider. *)
Leave(t) ==
  /\ ~Idle(t)
  /\ tabs' = [tabs EXCEPT ![t] = BlankTab]
  /\ UNCHANGED <<config, jar, starts>>

SignInNext ==
  \E t \in Tabs :
    \/ \E p \in Paths : ServePage(t, p) \/ RedirectToLogin(t, p)
    \/ RefusePage(t) \/ StartOAuth(t) \/ CannotStart(t) \/ CustomLogin(t)
    \/ ProviderRefuses(t) \/ InvalidState(t) \/ ExchangeFails(t)
    \/ DenyLogin(t) \/ \E a \in Accounts : CompleteLogin(t, a)
    \/ Logout(t) \/ Receive(t) \/ Leave(t)

SignInSpec == SignInInit /\ [][SignInNext]_signVars

-----------------------------------------------------------------------------
Emails == UNION {{Profile[a].email} \cup {e.email : e \in EmailsOf(a)} : a \in Accounts}

SignInTypeOK ==
  /\ jar.auth \in Emails \cup {None}
  /\ jar.state \in 1 .. starts \cup {None} /\ jar.next \in Paths \cup {None}
  /\ starts \in 0 .. MaxStarts
  /\ \A t \in Tabs :
       /\ tabs[t].at \in DOMAIN Arrives \cup {"page", "login", "provider"}
       /\ tabs[t].want \in Paths \cup {Root, None} /\ tabs[t].land \in Paths \cup {Root, None}
       /\ tabs[t].token \in 1 .. starts \cup {None}

(* Whoever the cookie says is signed in is somebody the configuration lets in: an
   account whose address matches, and for GitLab one that is in an allowed group,
   on whichever page of its groups; whatever tabs, retries, refusals and late
   answers came before. *)
Admitted(account, email) ==
  /\ email = FetchUserEmail(account)
  /\ config.patterns = {} \/ email \in config.patterns
  /\ config.provider = "gitlab" /\ config.groups # {} =>
       \E p \in DOMAIN Profile[account].groups : Profile[account].groups[p] \cap config.groups # {}

SignedInWasAllowed ==
  jar.auth # None =>
    /\ ~config.error /\ config.provider # None
    /\ \E a \in Accounts : Admitted(a, jar.auth)

(* A sign-in that began at a page ends at that page, although all tabs keep the
   page they want in the one cookie. *)
LandsWhereAsked ==
  \A t \in Tabs : tabs[t].at = "landed" /\ tabs[t].want # None => tabs[t].land = tabs[t].want
=============================================================================
