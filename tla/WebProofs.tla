------------------------------ MODULE WebProofs ------------------------------
(***************************************************************************)
(* Proofs about the web console: sign-in (SignIn), for any browser tabs,    *)
(* accounts, profiles and settings; the brokers and workers pages (Console), *)
(* for any apps, brokers, queues and workers; and the types of all six parts, *)
(* for which the task graph, smart retry and the schedule pages have theirs  *)
(* here and the task pages in TaskPagesProofs.                              *)
(***************************************************************************)
EXTENDS MCWeb, TaskPagesProofs

-----------------------------------------------------------------------------
(* Sign-in: what the browser and the answers on their way may hold. *)

Addresses == {FetchUserEmail(a) : a \in Accounts} \cup {None}
Wanted == Paths \cup {Root, None}

Session == [auth : Addresses, state : Nat \cup {None}, next : Wanted]

Tab == [at : {"page", "login", "provider"} \cup DOMAIN Arrives, want : Wanted,
        token : Nat \cup {None}, land : Wanted, cookie : Session \cup {None}]

Shapes == jar \in Session /\ tabs \in [Tabs -> Tab] /\ starts \in Nat

(* The cookie the browser has, and those that answers bring. *)
Held == {jar} \cup {tabs[t].cookie : t \in {u \in Tabs : tabs[u].cookie # None}}

AtProvider(t) == tabs[t].at \in {"to_provider", "provider"}

(* Tabs go to the provider only under a configuration with one. *)
ProviderAsked ==
  \A t \in Tabs : AtProvider(t) => ~config.error /\ ~config.custom /\ config.provider # None

(* Every cookie, kept or late, names an account the configuration lets in. *)
MayBe(email) == email # None => /\ ~config.error /\ config.provider # None
                                /\ \E a \in Accounts : Admitted(a, email)
CookiesAdmitted == \A s \in Held : MayBe(s.auth)

(* A "state" token is one of the sign-ins begun. *)
TokensBegun ==
  /\ \A s \in Held : s.state # None => s.state <= starts
  /\ \A t \in Tabs : tabs[t].token # None => tabs[t].token <= starts

(* The token and the page to return to travel together: a cookie with the token
   of a tab's sign-in remembers the page that tab asked for, if it asked for one. *)
Remembers(s, t) ==
  AtProvider(t) /\ s.state # None /\ s.state = tabs[t].token /\ tabs[t].want # None
    => s.next = tabs[t].want
CookiesRemember == \A s \in Held, t \in Tabs : Remembers(s, t)

SignInInv == /\ Shapes /\ ProviderAsked /\ CookiesAdmitted /\ TokensBegun /\ CookiesRemember
             /\ LandsWhereAsked

-----------------------------------------------------------------------------
LEMMA Constants ==
  /\ None \notin Nat /\ Root \notin Paths /\ None \notin Paths /\ None # Root
  /\ DOMAIN Arrives = {"served", "refused", "landed", "redirected", "to_provider"}
  BY SignInAssumption DEF Arrives

(* One tab has a new answer on its way, or a new place; the others are as they
   were, and so are the browser's cookie and the configuration. *)
Moves(t, new) ==
  /\ t \in Tabs /\ new \in Tab
  /\ tabs' = [tabs EXCEPT ![t] = new]
  /\ UNCHANGED <<config, jar>>

(* A move away from the provider: the tab's new cookie, if any, was admitted,
   and carries the old token with the old page, or no token, or there is no
   provider. *)
LEMMA MoveInv ==
  ASSUME SignInInv, NEW t \in Tabs, NEW new, Moves(t, new), starts' \in Nat, starts <= starts',
         new.at \in {"to_provider", "provider"} =>
           ~config.error /\ ~config.custom /\ config.provider # None,
         new.cookie # None => MayBe(new.cookie.auth),
         new.cookie # None /\ new.cookie.state # None => new.cookie.state <= starts',
         new.token # None => new.token <= starts',
         new.at \in {"to_provider", "provider"} /\ new.token # None /\ new.want # None =>
           /\ jar.state = new.token => jar.next = new.want
           /\ \A u \in Tabs \ {t} : tabs[u].cookie # None /\ tabs[u].cookie.state = new.token
                                      => tabs[u].cookie.next = new.want
           /\ new.cookie # None /\ new.cookie.state = new.token => new.cookie.next = new.want,
         new.cookie # None /\ new.cookie.state # None =>
           \A u \in Tabs \ {t} : Remembers(new.cookie, u),
         new.at = "landed" /\ new.want # None => new.land = new.want
  PROVE  SignInInv'
<1>1. /\ tabs'[t] = new /\ \A u \in Tabs \ {t} : tabs'[u] = tabs[u]
      /\ tabs' \in [Tabs -> Tab]
  BY DEF Moves, SignInInv, Shapes
<1>2. jar' = jar /\ config' = config
  BY DEF Moves
<1>3. Addresses' = Addresses
  BY <1>2 DEF Addresses, FetchUserEmail
<1>4. Shapes'
  BY <1>1, <1>2, <1>3 DEF SignInInv, Shapes, Session, Tab
<1>5. ProviderAsked'
  BY <1>1, <1>2 DEF SignInInv, ProviderAsked, AtProvider
<1>6. \A s \in Held' : s \in Held \/ (new.cookie # None /\ s = new.cookie)
  BY <1>1, <1>2 DEF Held
<1>7. \A email : MayBe(email)' = MayBe(email)
  BY <1>2 DEF MayBe, Admitted, FetchUserEmail
<1>8. CookiesAdmitted'
  BY <1>6, <1>7 DEF SignInInv, CookiesAdmitted
<1>9. TokensBegun'
  <2>1. \A s \in Held' : s.state # None => s.state <= starts'
    <3> SUFFICES ASSUME NEW s \in Held', s.state # None PROVE s.state <= starts'
      OBVIOUS
    <3>1. CASE s \in Held
      <4>1. s.state <= starts /\ s.state \in Nat
        BY <3>1 DEF SignInInv, TokensBegun, Held, Shapes, Session, Tab
      <4> QED BY <4>1 DEF SignInInv, Shapes
    <3> QED BY <1>6, <3>1
  <2>2. \A u \in Tabs : tabs'[u].token # None => tabs'[u].token <= starts'
    <3> SUFFICES ASSUME NEW u \in Tabs, tabs'[u].token # None PROVE tabs'[u].token <= starts'
      OBVIOUS
    <3>1. CASE u # t
      <4>1. tabs[u].token <= starts /\ tabs[u].token \in Nat
        BY <1>1, <3>1 DEF SignInInv, TokensBegun, Shapes, Tab
      <4> QED BY <1>1, <3>1, <4>1 DEF SignInInv, Shapes
    <3> QED BY <1>1, <3>1
  <2> QED BY <2>1, <2>2 DEF TokensBegun
<1>10. CookiesRemember'
  <2> SUFFICES ASSUME NEW s \in Held', NEW u \in Tabs PROVE Remembers(s, u)'
    BY DEF CookiesRemember
  <2>1. CASE u # t /\ s \in Held
    BY <1>1, <2>1 DEF SignInInv, CookiesRemember, Remembers, AtProvider
  <2>2. CASE u # t /\ new.cookie # None /\ s = new.cookie
    BY <1>1, <2>2 DEF Remembers, AtProvider
  <2>3. CASE u = t
    <3>1. \/ s = jar \/ (new.cookie # None /\ s = new.cookie)
          \/ \E v \in Tabs \ {t} : tabs[v].cookie # None /\ s = tabs[v].cookie
      BY <1>1, <1>2 DEF Held
    <3> QED BY <1>1, <2>3, <3>1 DEF Remembers, AtProvider
  <2> QED BY <1>6, <2>1, <2>2, <2>3
<1>11. LandsWhereAsked'
  BY <1>1 DEF SignInInv, LandsWhereAsked
<1> QED BY <1>4, <1>5, <1>8, <1>9, <1>10, <1>11 DEF SignInInv

LEMMA InitInv == SignInInit => SignInInv
<1> SUFFICES ASSUME SignInInit PROVE SignInInv
  OBVIOUS
<1>1. /\ jar = NoSession /\ starts = 0
      /\ tabs = [t \in Tabs |-> BlankTab]
  BY DEF SignInInit
<1>2. NoSession \in Session /\ BlankTab \in Tab
  BY DEF NoSession, Session, BlankTab, Tab, Addresses, Wanted
<1>3. Shapes
  BY <1>1, <1>2 DEF Shapes
<1>4. Held = {NoSession}
  BY <1>1 DEF Held, BlankTab
<1> QED
  BY <1>1, <1>3, <1>4
  DEF SignInInv, ProviderAsked, AtProvider, CookiesAdmitted, MayBe, TokensBegun, CookiesRemember,
      Remembers, LandsWhereAsked, NoSession, BlankTab

(* An answer that brings no cookie, to a tab that is not sent to the provider. *)
LEMMA PlainInv ==
  ASSUME SignInInv, NEW t \in Tabs, NEW at \in {"served", "refused", "redirected"}, NEW want \in Wanted,
         Answer(t, at, want, None, None), UNCHANGED <<config, jar, starts>>
  PROVE  SignInInv'
<1> DEFINE new == [at |-> at, want |-> want, token |-> None, land |-> None, cookie |-> None]
<1>1. new \in Tab
  BY Constants DEF Tab, Wanted
<1>2. Moves(t, new)
  BY <1>1 DEF Moves, Answer
<1>3. starts' \in Nat /\ starts <= starts'
  BY DEF SignInInv, Shapes
<1>4. new.at \notin {"to_provider", "provider", "landed"} /\ new.cookie = None /\ new.token = None
  OBVIOUS
<1> HIDE DEF new
<1> QED BY <1>2, <1>3, <1>4, MoveInv

LEMMA StartInv ==
  ASSUME SignInInv, NEW t \in Tabs, StartOAuth(t)
  PROVE  SignInInv'
<1> DEFINE want == NextParam(t)
           cookie == [jar EXCEPT !.state = starts + 1,
                                 !.next = IF want # None THEN want ELSE @]
           new == [at |-> "to_provider", want |-> want, token |-> starts + 1, land |-> None,
                   cookie |-> cookie]
<1>1. /\ ~config.error /\ ~config.custom /\ config.provider # None
      /\ starts' = starts + 1 /\ tabs' = [tabs EXCEPT ![t] = new] /\ UNCHANGED <<config, jar>>
  BY DEF StartOAuth, Answer
<1>2. starts \in Nat /\ jar \in Session /\ tabs[t] \in Tab
  BY DEF SignInInv, Shapes
<1>3. want \in Wanted
  BY <1>2 DEF NextParam, Tab, Wanted
<1> HIDE DEF want
<1>4. /\ cookie \in Session /\ cookie.auth = jar.auth /\ cookie.state = starts + 1
      /\ want # None => cookie.next = want
  <2> DEFINE next == IF want # None THEN want ELSE jar.next
  <2>1. next \in Wanted /\ (want # None => next = want)
    BY <1>2, <1>3 DEF Session
  <2>2. cookie = [jar EXCEPT !.state = starts + 1, !.next = next]
    OBVIOUS
  <2>3. starts + 1 \in Nat \cup {None}
    BY <1>2
  <2> HIDE DEF next, cookie
  <2> QED BY <1>2, <2>1, <2>2, <2>3 DEF Session
<1> HIDE DEF cookie
<1>5. new \in Tab
  BY <1>2, <1>3, <1>4, Constants DEF Tab, Wanted
<1>6. Moves(t, new)
  BY <1>1, <1>5 DEF Moves
<1>7. MayBe(cookie.auth)
  BY <1>4 DEF SignInInv, CookiesAdmitted, Held
<1>8. /\ jar.state # starts + 1 /\ \A u \in Tabs : tabs[u].token # starts + 1
      /\ \A u \in Tabs : tabs[u].cookie # None => tabs[u].cookie.state # starts + 1
  <2>1. starts + 1 # None /\ ~(starts + 1 <= starts)
    BY <1>2, Constants
  <2> QED BY <2>1 DEF SignInInv, TokensBegun, Held
<1>9. /\ new.at = "to_provider" /\ new.cookie = cookie /\ new.token = starts + 1
      /\ new.want = want
  OBVIOUS
<1>10. \A u \in Tabs \ {t} : Remembers(cookie, u)
  BY <1>4, <1>8 DEF Remembers
<1>11. starts' \in Nat /\ starts <= starts' /\ starts + 1 <= starts'
  BY <1>1, <1>2
<1> HIDE DEF new
<1> QED BY <1>1, <1>4, <1>6, <1>7, <1>8, <1>9, <1>10, <1>11, MoveInv

(* A custom handler remembers the page and takes it or leaves it; no tab is at a
   provider then. *)
LEMMA CustomInv ==
  ASSUME SignInInv, NEW t \in Tabs, CustomLogin(t)
  PROVE  SignInInv'
<1> DEFINE want == NextParam(t)
           session == [jar EXCEPT !.next = IF want # None THEN want ELSE @]
           taken == [at |-> "landed", want |-> want, token |-> None,
                     land |-> IF session.next # None THEN session.next ELSE Root,
                     cookie |-> [session EXCEPT !.next = None]]
           left == [at |-> "refused", want |-> None, token |-> None, land |-> None,
                    cookie |-> session]
<1>1. /\ config.custom /\ UNCHANGED <<config, jar, starts>>
      /\ tabs' = [tabs EXCEPT ![t] = taken] \/ tabs' = [tabs EXCEPT ![t] = left]
  BY DEF CustomLogin, Answer, Land
<1>2. starts \in Nat /\ jar \in Session /\ tabs[t] \in Tab
  BY DEF SignInInv, Shapes
<1>3. want \in Wanted
  BY <1>2 DEF NextParam, Tab, Wanted
<1> HIDE DEF want
<1>4. /\ session \in Session /\ session.auth = jar.auth /\ session.state = jar.state
      /\ want # None => session.next = want
  BY <1>2, <1>3 DEF Session
<1>5. MayBe(jar.auth) /\ (jar.state # None => jar.state <= starts)
  BY DEF SignInInv, CookiesAdmitted, TokensBegun, Held
<1> HIDE DEF session
<1>6. /\ taken \in Tab /\ taken.cookie.auth = jar.auth /\ taken.cookie.state = jar.state
      /\ left \in Tab /\ left.cookie.auth = jar.auth /\ left.cookie.state = jar.state
  <2>1. [session EXCEPT !.next = None] \in Session
    BY <1>4 DEF Session, Wanted
  <2>2. taken \in Tab /\ left \in Tab
    BY <1>3, <1>4, <2>1, Constants DEF Tab, Wanted, Session
  <2> QED BY <1>4, <2>1, <2>2 DEF Session
<1>7. want # None => taken.land = want
  BY <1>4
<1>8. \A s : \A u \in Tabs : Remembers(s, u)
  BY <1>1 DEF SignInInv, ProviderAsked, Remembers
<1>9. starts' \in Nat /\ starts <= starts' /\ starts' = starts
  BY <1>1, <1>2
<1>10. taken.at = "landed" /\ taken.want = want /\ taken.token = None
       /\ left.at = "refused" /\ left.token = None
  OBVIOUS
<1> HIDE DEF taken, left
<1>11. CASE tabs' = [tabs EXCEPT ![t] = taken]
  <2>1. Moves(t, taken)
    BY <1>1, <1>6, <1>11 DEF Moves
  <2> QED BY <1>5, <1>6, <1>7, <1>8, <1>9, <1>10, <2>1, MoveInv
<1>12. CASE tabs' = [tabs EXCEPT ![t] = left]
  <2>1. Moves(t, left)
    BY <1>1, <1>6, <1>12 DEF Moves
  <2> QED BY <1>5, <1>6, <1>8, <1>9, <1>10, <2>1, MoveInv
<1> QED BY <1>1, <1>11, <1>12

LEMMA DenyInv ==
  ASSUME SignInInv, NEW t \in Tabs, DenyLogin(t)
  PROVE  SignInInv'
<1> DEFINE cookie == [jar EXCEPT !.state = None]
           new == [at |-> "refused", want |-> None, token |-> None, land |-> None, cookie |-> cookie]
<1>1. UNCHANGED <<config, jar, starts>> /\ tabs' = [tabs EXCEPT ![t] = new]
  BY DEF DenyLogin, Answer
<1>2. starts \in Nat /\ jar \in Session
  BY DEF SignInInv, Shapes
<1>3. cookie \in Session /\ cookie.auth = jar.auth /\ cookie.state = None
  BY <1>2 DEF Session
<1>4. MayBe(cookie.auth)
  BY <1>3 DEF SignInInv, CookiesAdmitted, Held
<1> HIDE DEF cookie
<1>5. new \in Tab
  BY <1>3, Constants DEF Tab, Wanted
<1>6. Moves(t, new)
  BY <1>1, <1>5 DEF Moves
<1>7. new.at = "refused" /\ new.token = None /\ new.cookie = cookie
  OBVIOUS
<1>8. starts' \in Nat /\ starts <= starts'
  BY <1>1, <1>2
<1> HIDE DEF new
<1> QED BY <1>3, <1>4, <1>6, <1>7, <1>8, MoveInv

(* The cookie carried the token of this tab's sign-in, hence the page it asked
   for; the account is one the configuration lets in. *)
LEMMA CompleteInv ==
  ASSUME SignInInv, NEW t \in Tabs, NEW a \in Accounts, CompleteLogin(t, a)
  PROVE  SignInInv'
<1> DEFINE email == FetchUserEmail(a)
           session == [jar EXCEPT !.auth = email, !.state = None]
           new == [at |-> "landed", want |-> tabs[t].want, token |-> None,
                   land |-> IF session.next # None THEN session.next ELSE Root,
                   cookie |-> [session EXCEPT !.next = None]]
<1>1. /\ UNCHANGED <<config, jar, starts>> /\ tabs' = [tabs EXCEPT ![t] = new]
      /\ tabs[t].at = "provider" /\ StateMatches(t) /\ CompletesLogin(a)
  BY DEF CompleteLogin, Land
<1>2. starts \in Nat /\ jar \in Session /\ tabs[t] \in Tab
  BY DEF SignInInv, Shapes
<1>3. MayBe(email)
  <2>1. ~config.error /\ config.provider # None
    BY <1>1 DEF SignInInv, ProviderAsked, AtProvider
  <2>2. Admitted(a, email)
    BY <1>1 DEF Admitted, CompletesLogin, IsEmailAllowed, FetchGitlabGroups
  <2> QED BY <2>1, <2>2 DEF MayBe
<1>4. email \in Addresses
  BY DEF Addresses
<1> HIDE DEF email
<1>5. /\ session \in Session /\ session.next = jar.next
      /\ session.auth = email /\ session.state = None
  BY <1>2, <1>4 DEF Session
<1>6. tabs[t].want # None => jar.next = tabs[t].want
  BY <1>1 DEF SignInInv, CookiesRemember, Remembers, StateMatches, AtProvider, Held
<1> HIDE DEF session
<1>7. /\ [session EXCEPT !.next = None] \in Session
      /\ [session EXCEPT !.next = None].auth = email
      /\ [session EXCEPT !.next = None].state = None
  BY <1>5 DEF Session, Wanted
<1>8. new \in Tab
  BY <1>2, <1>5, <1>7, Constants DEF Tab, Wanted, Session
<1>9. Moves(t, new)
  BY <1>1, <1>8 DEF Moves
<1>10. /\ new.at = "landed" /\ new.token = None
       /\ new.cookie.auth = email /\ new.cookie.state = None
       /\ new.want # None => new.land = new.want
  BY <1>5, <1>6, <1>7
<1>11. starts' \in Nat /\ starts <= starts'
  BY <1>1, <1>2
<1> HIDE DEF new
<1> QED BY <1>3, <1>9, <1>10, <1>11, MoveInv

LEMMA BlankInv ==
  ASSUME SignInInv, NEW t \in Tabs, tabs' = [tabs EXCEPT ![t] = BlankTab],
         UNCHANGED <<config, jar, starts>>
  PROVE  SignInInv'
<1>1. BlankTab \in Tab
  BY DEF BlankTab, Tab, Wanted
<1>2. Moves(t, BlankTab)
  BY <1>1 DEF Moves
<1>3. BlankTab.at = "page" /\ BlankTab.token = None /\ BlankTab.cookie = None
  BY DEF BlankTab
<1>4. starts' \in Nat /\ starts <= starts'
  BY DEF SignInInv, Shapes
<1> QED BY <1>2, <1>3, <1>4, MoveInv

(* An answer arrives: its cookie, if any, becomes the browser's, and the tab
   keeps its token and its page. *)
LEMMA ReceiveInv ==
  ASSUME SignInInv, NEW t \in Tabs, Receive(t)
  PROVE  SignInInv'
<1> DEFINE at == Arrives[tabs[t].at]
           new == IF at = "page" THEN BlankTab ELSE [tabs[t] EXCEPT !.at = at, !.cookie = None]
<1>1. /\ UNCHANGED <<config, starts>> /\ tabs[t].at \in DOMAIN Arrives
      /\ jar' = IF tabs[t].cookie # None THEN tabs[t].cookie ELSE jar
  BY DEF Receive
<1>2. tabs' = [tabs EXCEPT ![t] = new]
  BY DEF Receive
<1>3. tabs[t] \in Tab /\ tabs \in [Tabs -> Tab] /\ jar \in Session
  BY DEF SignInInv, Shapes
<1>4. /\ at \in {"page", "login", "provider"}
      /\ at = "provider" => tabs[t].at = "to_provider"
  BY <1>1 DEF Arrives
<1> HIDE DEF at
<1>5. /\ new \in Tab /\ new.cookie = None /\ new.at = at
      /\ new.at # "page" => new.token = tabs[t].token /\ new.want = tabs[t].want
      /\ new.at = "page" => new.token = None
  <2>1. CASE at = "page"
    BY <2>1 DEF BlankTab, Tab, Wanted
  <2>2. CASE at # "page"
    BY <1>3, <1>4, <2>2 DEF Tab
  <2> QED BY <2>1, <2>2
<1> HIDE DEF new
<1>6. /\ tabs'[t] = new /\ \A u \in Tabs \ {t} : tabs'[u] = tabs[u]
      /\ tabs' \in [Tabs -> Tab]
  BY <1>2, <1>3, <1>5
<1>7. Addresses' = Addresses
  BY <1>1 DEF Addresses, FetchUserEmail
<1>8. \A email : MayBe(email)' = MayBe(email)
  BY <1>1 DEF MayBe, Admitted, FetchUserEmail
<1>9. jar' \in Session
  BY <1>1, <1>3 DEF Tab
<1>10. Held' \subseteq Held
  BY <1>1, <1>5, <1>6 DEF Held
<1>11. Shapes'
  BY <1>1, <1>6, <1>7, <1>9 DEF SignInInv, Shapes, Session, Tab
<1>12. ProviderAsked'
  BY <1>1, <1>4, <1>5, <1>6 DEF SignInInv, ProviderAsked, AtProvider
<1>13. CookiesAdmitted'
  BY <1>8, <1>10 DEF SignInInv, CookiesAdmitted
<1>14. TokensBegun'
  BY <1>1, <1>4, <1>5, <1>6, <1>10 DEF SignInInv, TokensBegun
<1>15. CookiesRemember'
  <2> SUFFICES ASSUME NEW s \in Held', NEW u \in Tabs PROVE Remembers(s, u)'
    BY DEF CookiesRemember
  <2>1. Remembers(s, u)
    BY <1>10 DEF SignInInv, CookiesRemember
  <2>2. AtProvider(u)' => AtProvider(u) /\ tabs'[u].token = tabs[u].token
                                       /\ tabs'[u].want = tabs[u].want
    BY <1>4, <1>5, <1>6 DEF AtProvider
  <2> QED BY <2>1, <2>2 DEF Remembers
<1>16. LandsWhereAsked'
  BY <1>4, <1>5, <1>6 DEF SignInInv, LandsWhereAsked
<1> QED BY <1>11, <1>12, <1>13, <1>14, <1>15, <1>16 DEF SignInInv

LEMMA SignInStep ==
  ASSUME SignInInv, [SignInNext]_signVars
  PROVE  SignInInv'
<1>1. CASE UNCHANGED signVars
  <2>1. UNCHANGED <<config, jar, tabs, starts>>
    BY <1>1 DEF signVars
  <2>2. Addresses' = Addresses
    BY <2>1 DEF Addresses, FetchUserEmail
  <2>3. \A email : MayBe(email)' = MayBe(email)
    BY <2>1 DEF MayBe, Admitted, FetchUserEmail
  <2> QED
    BY <2>1, <2>2, <2>3
    DEF SignInInv, Shapes, Session, Tab, ProviderAsked, AtProvider, CookiesAdmitted, TokensBegun,
        CookiesRemember, Remembers, Held, LandsWhereAsked
<1>2. ASSUME NEW t \in Tabs, NEW p \in Paths, ServePage(t, p) \/ RedirectToLogin(t, p)
      PROVE  SignInInv'
  <2>1. \/ Answer(t, "served", p, None, None)
        \/ Answer(t, "redirected", SanitizeNext(p), None, None)
    BY <1>2 DEF ServePage, RedirectToLogin
  <2>2. UNCHANGED <<config, jar, starts>>
    BY <1>2 DEF ServePage, RedirectToLogin
  <2>3. p \in Wanted /\ SanitizeNext(p) \in Wanted
    BY DEF SanitizeNext, Wanted
  <2> QED BY <2>1, <2>2, <2>3, PlainInv
<1>3. ASSUME NEW t \in Tabs,
             \/ RefusePage(t) \/ CannotStart(t) \/ ProviderRefuses(t) \/ InvalidState(t)
             \/ ExchangeFails(t)
      PROVE  SignInInv'
  <2>1. Answer(t, "refused", None, None, None) /\ UNCHANGED <<config, jar, starts>>
    BY <1>3 DEF RefusePage, CannotStart, ProviderRefuses, InvalidState, ExchangeFails
  <2> QED BY <2>1, PlainInv DEF Wanted
<1>4. ASSUME NEW t \in Tabs, Logout(t) PROVE SignInInv'
  <2> DEFINE new == [at |-> "served", want |-> Root, token |-> None, land |-> None,
                     cookie |-> NoSession]
  <2>1. tabs' = [tabs EXCEPT ![t] = new] /\ UNCHANGED <<config, jar, starts>>
    BY <1>4 DEF Logout, Answer
  <2>2. NoSession \in Session
    BY DEF NoSession, Session, Addresses, Wanted
  <2>3. new \in Tab
    BY <2>2, Constants DEF Tab, Wanted
  <2>4. Moves(t, new)
    BY <2>1, <2>3 DEF Moves
  <2>5. /\ new.at = "served" /\ new.token = None
        /\ new.cookie.auth = None /\ new.cookie.state = None
    BY DEF NoSession
  <2>6. starts' \in Nat /\ starts <= starts'
    BY <2>1 DEF SignInInv, Shapes
  <2>7. MayBe(None)
    BY DEF MayBe
  <2> HIDE DEF new
  <2> QED BY <2>4, <2>5, <2>6, <2>7, MoveInv
<1>5. ASSUME NEW t \in Tabs, Leave(t) PROVE SignInInv'
  BY <1>5, BlankInv DEF Leave
<1> QED
  BY <1>1, <1>2, <1>3, <1>4, <1>5, StartInv, CustomInv, DenyInv, CompleteInv, ReceiveInv
  DEF SignInNext

LEMMA SignInInvHolds == SignInSpec => []SignInInv
  BY InitInv, SignInStep, PTL DEF SignInSpec

(* Whoever the cookie names is let in by the configuration, whatever tabs,
   retries, refusals and late answers came before. *)
THEOREM OnlyTheAllowedAreIn == SignInSpec => []SignedInWasAllowed
<1>1. SignInInv => SignedInWasAllowed
  BY DEF SignInInv, CookiesAdmitted, Held, MayBe, SignedInWasAllowed
<1> QED BY <1>1, SignInInvHolds, PTL

(* A sign-in begun at a page ends there, though the tabs share one cookie. *)
THEOREM SignInsReturn == SignInSpec => []LandsWhereAsked
<1>1. SignInInv => LandsWhereAsked
  BY DEF SignInInv
<1> QED BY <1>1, SignInInvHolds, PTL

-----------------------------------------------------------------------------
(* Console: the polls go round. *)

Places == 1 .. Len(AppNames)

(* How many polls ago the app at a place had its turn, once every app had one. *)
Since(i, next) == IF i <= next THEN next - i ELSE next - i + Len(AppNames)

RoundTheApps ==
  /\ index \in 0 .. Len(AppNames) - 1
  /\ waited \in [Apps -> Nat]
  /\ \A i \in Places : waited[AppNames[i]] <= Since(i, index)

LEMMA PlacesOfApps ==
  /\ Len(AppNames) \in Nat \ {0} /\ AppNames \in [Places -> Apps]
  /\ \A i, j \in Places : AppNames[i] = AppNames[j] => i = j
  /\ \A a \in Apps : \E i \in Places : a = AppNames[i]
<1>1. AppNames \in Seq(Apps) /\ AppNames # <<>> /\ IsInjective(AppNames)
  BY ConsoleAssumption
<1>2. Len(AppNames) \in Nat \ {0} /\ AppNames \in [Places -> Apps] /\ DOMAIN AppNames = Places
  BY <1>1 DEF Places
<1>3. \A i, j \in Places : AppNames[i] = AppNames[j] => i = j
  BY <1>1, <1>2 DEF IsInjective
<1>4. \A a \in Apps : \E i \in Places : a = AppNames[i]
  BY <1>2 DEF Apps, ToSet
<1> QED BY <1>2, <1>3, <1>4

(* A poll moves the index on by one, round the apps: the turns of all but the app
   polled are one poll further back. *)
LEMMA SinceStep ==
  ASSUME NEW N \in Nat \ {0}, NEW at \in 0 .. N - 1, NEW i \in 1 .. N, N = Len(AppNames)
  PROVE  /\ (at + 1) % N \in 0 .. N - 1
         /\ i = at + 1 => 0 <= Since(i, (at + 1) % N)
         /\ i # at + 1 => Since(i, (at + 1) % N) = Since(i, at) + 1
         /\ Since(i, at) \in 0 .. N - 1
<1>1. (at + 1) % N = IF at + 1 = N THEN 0 ELSE at + 1
  OBVIOUS
<1> QED BY <1>1 DEF Since

LEMMA PollStep ==
  ASSUME RoundTheApps, [ConsoleNext]_consoleVars
  PROVE  RoundTheApps'
<1>1. CASE UNCHANGED <<index, waited>>
  BY <1>1 DEF RoundTheApps, Places, Since
<1>2. CASE PollBroker
  <2> DEFINE N == Len(AppNames)
  <2>1. index' = (index + 1) % N /\ waited' = [a \in Apps |->
                     IF a = AppNames[index + 1] THEN 0 ELSE waited[a] + 1]
    BY <1>2 DEF PollBroker, Turn
  <2>2. N \in Nat \ {0} /\ index \in 0 .. N - 1 /\ index + 1 \in Places
    BY PlacesOfApps DEF RoundTheApps, Places
  <2>3. index' \in 0 .. N - 1
    BY <2>1, <2>2, SinceStep
  <2>4. waited' \in [Apps -> Nat]
    BY <2>1 DEF RoundTheApps
  <2>5. ASSUME NEW i \in Places PROVE waited'[AppNames[i]] <= Since(i, index')
    <3>1. AppNames[i] \in Apps /\ (AppNames[i] = AppNames[index + 1] => i = index + 1)
      BY <2>2, PlacesOfApps
    <3>2. waited[AppNames[i]] \in Nat /\ waited[AppNames[i]] <= Since(i, index)
      BY <3>1 DEF RoundTheApps
    <3>3. /\ i = index + 1 => 0 <= Since(i, index')
          /\ i # index + 1 => Since(i, index') = Since(i, index) + 1
          /\ Since(i, index) \in 0 .. N - 1
      BY <2>1, <2>2, SinceStep DEF Places
    <3>4. CASE i = index + 1
      <4>1. waited'[AppNames[i]] = 0
        BY <2>1, <3>1, <3>4
      <4> QED BY <3>3, <3>4, <4>1
    <3>5. CASE i # index + 1
      <4>1. waited'[AppNames[i]] = waited[AppNames[i]] + 1
        BY <2>1, <3>1, <3>5
      <4> QED BY <3>2, <3>3, <3>5, <4>1
    <3> QED BY <3>4, <3>5
  <2> QED BY <2>3, <2>4, <2>5 DEF RoundTheApps, Places, Since
<1>3. ASSUME NEW w \in Workers,
             \/ StartWorker(w) \/ StopWorker(w) \/ StoreHeartbeat(w) \/ StoreSnapshot(w)
             \/ WorkerGrow(w) \/ WorkerShrink(w) \/ AutoscaleRead(w)
      PROVE  UNCHANGED <<index, waited>>
  BY <1>3 DEF StartWorker, StopWorker, StoreHeartbeat, StoreSnapshot, WorkerGrow, WorkerShrink,
              PoolCommand, AutoscaleRead, pollVars
<1>4. ASSUME NEW b \in Brokers, NEW q \in Queues, Consume(b, q) \/ ForgetQueue(b, q)
      PROVE  UNCHANGED <<index, waited>>
  BY <1>4 DEF Consume, ForgetQueue, pollVars
<1>5. CASE StoreQueue
  BY <1>1, <1>5 DEF StoreQueue
<1>6. ASSUME NEW form \in Submissions, TaskSubmit(form.name, form.queue)
      PROVE  UNCHANGED <<index, waited>>
  BY <1>6 DEF TaskSubmit, SendTask, pollVars
<1>7. TaskRetry \/ AutoscaleSend \/ WorkersRestart => UNCHANGED <<index, waited>>
  BY DEF TaskRetry, SendTask, AutoscaleSend, WorkersRestart, pollVars
<1>8. ASSUME NEW app \in Apps, NEW q \in Queues, BrokerPurge(app, q)
      PROVE  UNCHANGED <<index, waited>>
  BY <1>8 DEF BrokerPurge, pollVars
<1>9. ASSUME NEW app \in Apps, PurgeIdleRead(app) PROVE UNCHANGED <<index, waited>>
  BY <1>9 DEF PurgeIdleRead, pollVars
<1>10. ASSUME NEW q \in Queues, PurgeIdleStep(q) PROVE UNCHANGED <<index, waited>>
  BY <1>10 DEF PurgeIdleStep, pollVars
<1>11. CASE UNCHANGED consoleVars
  BY <1>1, <1>11 DEF consoleVars, pollVars
<1> QED
  BY <1>1, <1>2, <1>3, <1>4, <1>5, <1>6, <1>7, <1>8, <1>9, <1>10, <1>11 DEF ConsoleNext

(* Each app's broker is polled once in as many polls as there are apps, whichever
   calls of the polls fail. *)
THEOREM EveryAppHasItsTurn == ConsoleSpec => []PollsInTurn
<1>1. ConsoleInit => RoundTheApps
  <2> SUFFICES ASSUME ConsoleInit PROVE RoundTheApps
    OBVIOUS
  <2>1. index = 0 /\ waited = [a \in Apps |-> 0]
    BY DEF ConsoleInit
  <2>2. \A i \in Places : 0 <= Since(i, 0)
    BY PlacesOfApps DEF Places, Since
  <2> QED BY <2>1, <2>2, PlacesOfApps DEF RoundTheApps
<1>2. RoundTheApps => PollsInTurn
  <2> SUFFICES ASSUME RoundTheApps, NEW a \in Apps PROVE waited[a] < Len(AppNames)
    BY DEF PollsInTurn
  <2>1. PICK i \in Places : a = AppNames[i]
    BY PlacesOfApps
  <2>2. waited[a] \in Nat /\ waited[a] <= Since(i, index)
    BY <2>1 DEF RoundTheApps
  <2>3. i \in Places /\ Since(i, index) < Len(AppNames)
    BY <2>1, PlacesOfApps DEF RoundTheApps, Places, Since
  <2>4. Since(i, index) \in Int
    BY <2>3, PlacesOfApps DEF RoundTheApps, Places, Since
  <2> QED BY <2>2, <2>3, <2>4, PlacesOfApps
<1> QED BY <1>1, <1>2, PollStep, PTL DEF ConsoleSpec

-----------------------------------------------------------------------------
(* Console: rows tell of pools that workers have had, and a command that is under
   way carries a limit that a row told. *)

RowsTyped ==
  \A w \in RowedWorkers :
    rows[w].broker \in Brokers /\ rows[w].queues \subseteq Queues /\ rows[w].pool \in Opt(1 .. MaxPool)

CommandTyped ==
  /\ command.kind \in {None, "autoscale", "purge"} /\ "kind" \in DOMAIN command
  /\ command.kind = "autoscale" => command.limit \in 1 .. MaxPool

ConsoleTyped ==
  ConsoleTypeOK /\ RowsTyped /\ CommandTyped /\ rows = [w \in Workers |-> rows[w]]

LEMMA ConsoleConstants ==
  /\ MaxPool \in Nat /\ MaxPool >= 1 /\ MaxMessages \in Nat
  /\ None \notin Nat /\ None # "autoscale" /\ None # "purge"
  /\ Len(AppNames) \in Nat \ {0} /\ DOMAIN AppNames = 1 .. Len(AppNames)
  /\ \A a \in Apps : BrokerOf[a] \in Brokers
  /\ \A w \in Workers : AppOf[w] \in Apps /\ Consumes[w] \subseteq Queues
<1>1. AppNames \in Seq(Apps) /\ AppNames # <<>>
  BY ConsoleAssumption
<1>2. Len(AppNames) \in Nat \ {0} /\ DOMAIN AppNames = 1 .. Len(AppNames)
  BY <1>1
<1> QED BY <1>2, ConsoleAssumption

(* A row that is written. *)
LEMMA RowWritten ==
  ASSUME ConsoleTyped, NEW w \in Workers, NEW row, rows' = [rows EXCEPT ![w] = row],
         row.broker \in Brokers, row.queues \subseteq Queues, row.pool \in Opt(1 .. MaxPool),
         UNCHANGED <<worldVars, snapshot, pollVars, command>>
  PROVE  ConsoleTyped'
<1>1. \A v \in Workers : rows'[v] = IF v = w THEN row ELSE rows[v]
  BY DEF ConsoleTyped
<1>2. RowsTyped'
  BY <1>1 DEF ConsoleTyped, RowsTyped, RowedWorkers
<1>3. rows' = [v \in Workers |-> rows'[v]]
  BY DEF ConsoleTyped
<1>4. ConsoleTypeOK'
  BY <1>2 DEF ConsoleTyped, ConsoleTypeOK, RowsTyped, worldVars, pollVars
<1>5. CommandTyped'
  BY DEF ConsoleTyped, CommandTyped
<1> QED BY <1>2, <1>3, <1>4, <1>5 DEF ConsoleTyped

(* Whatever else happens leaves the rows as they are. *)
LEMMA RowsKept ==
  ASSUME ConsoleTyped, UNCHANGED rows, up' \subseteq Workers, pool' \in [Workers -> 1 .. MaxPool],
         pending' \in [Brokers -> [Queues -> 0 .. MaxMessages]],
         index' \in 0 .. Len(AppNames) - 1, CommandTyped'
  PROVE  ConsoleTyped'
  BY DEF ConsoleTyped, ConsoleTypeOK, RowsTyped, RowedWorkers, CommandTyped

LEMMA PoolChanged ==
  ASSUME ConsoleTyped, pool' \in [Workers -> 1 .. MaxPool], UNCHANGED <<up, pending, tableVars, pollVars>>,
         command' \in {command, NoCommand}
  PROVE  ConsoleTyped'
<1>1. CommandTyped'
  BY ConsoleConstants DEF ConsoleTyped, CommandTyped, NoCommand
<1> QED BY <1>1, RowsKept DEF ConsoleTyped, ConsoleTypeOK, tableVars, pollVars

LEMMA PendingChanged ==
  ASSUME ConsoleTyped, NEW b, NEW q, NEW n, pending' = [pending EXCEPT ![b][q] = n],
         b \in Brokers /\ q \in Queues => n \in 0 .. MaxMessages,
         UNCHANGED <<up, pool, tableVars, pollVars>>, CommandTyped'
  PROVE  ConsoleTyped'
<1>1. pending' \in [Brokers -> [Queues -> 0 .. MaxMessages]]
  BY DEF ConsoleTyped, ConsoleTypeOK
<1> QED BY <1>1, RowsKept DEF ConsoleTyped, ConsoleTypeOK, tableVars, pollVars

LEMMA ConsoleStep == ConsoleTyped /\ [ConsoleNext]_consoleVars => ConsoleTyped'
<1> SUFFICES ASSUME ConsoleTyped, [ConsoleNext]_consoleVars PROVE ConsoleTyped'
  OBVIOUS
<1>1. /\ up \subseteq Workers /\ pool \in [Workers -> 1 .. MaxPool]
      /\ pending \in [Brokers -> [Queues -> 0 .. MaxMessages]]
      /\ index \in 0 .. Len(AppNames) - 1 /\ CommandTyped
  BY DEF ConsoleTyped, ConsoleTypeOK
<1>0. UNCHANGED command => CommandTyped'
  BY <1>1 DEF CommandTyped
<1>2. CASE UNCHANGED consoleVars
  BY <1>0, <1>1, <1>2, RowsKept DEF consoleVars, worldVars, tableVars, pollVars
<1>3. ASSUME NEW w \in Workers, StartWorker(w) \/ StopWorker(w) PROVE ConsoleTyped'
  <2>1. /\ up' \in {up \cup {w}, up \ {w}} /\ \E n \in {1, MaxPool} : pool' = [pool EXCEPT ![w] = n]
        /\ UNCHANGED <<pending, tableVars, pollVars, command>>
    BY <1>3 DEF StartWorker, StopWorker
  <2>2. up' \subseteq Workers /\ pool' \in [Workers -> 1 .. MaxPool]
    BY <1>1, <2>1, ConsoleConstants
  <2> QED BY <1>0, <1>1, <2>1, <2>2, RowsKept DEF tableVars, pollVars
<1>4. ASSUME NEW w \in Workers, StoreHeartbeat(w) PROVE ConsoleTyped'
  <2> DEFINE row == [broker |-> BrokerOf[AppOf[w]], pool |-> None, queues |-> {}, app |-> None]
  <2>1. rows' = [rows EXCEPT ![w] = row] /\ UNCHANGED <<worldVars, snapshot, pollVars, command>>
    BY <1>4 DEF StoreHeartbeat
  <2>2. row.broker \in Brokers /\ row.queues \subseteq Queues /\ row.pool \in Opt(1 .. MaxPool)
    BY ConsoleConstants DEF Opt
  <2> HIDE DEF row
  <2> QED BY <2>1, <2>2, RowWritten
<1>5. ASSUME NEW w \in Workers, StoreSnapshot(w) PROVE ConsoleTyped'
  <2> DEFINE hearing == {i \in DOMAIN AppNames : BrokerOf[AppNames[i]] = BrokerOf[AppOf[w]]}
             app == AppNames[Min(hearing)]
             row == [broker |-> BrokerOf[app], pool |-> pool[w], queues |-> Consumes[w], app |-> app]
  <2>1. rows' = [rows EXCEPT ![w] = row] /\ UNCHANGED <<worldVars, snapshot, pollVars, command>>
    BY <1>5 DEF StoreSnapshot
  <2>2. hearing \in SUBSET Nat /\ hearing # {}
    <3>1. AppOf[w] \in Apps
      BY ConsoleConstants
    <3>2. PICK i \in DOMAIN AppNames : AppNames[i] = AppOf[w]
      BY <3>1 DEF Apps, ToSet
    <3> QED BY <3>2, ConsoleConstants
  <2> HIDE DEF hearing
  <2>3. Min(hearing) \in hearing
    BY <2>2, LeastNat DEF Min
  <2>4. BrokerOf[app] \in Brokers
    BY <2>3, ConsoleConstants DEF hearing, Apps, ToSet
  <2>5. row.broker \in Brokers /\ row.queues \subseteq Queues /\ row.pool \in Opt(1 .. MaxPool)
    BY <1>1, <2>4, ConsoleConstants DEF Opt
  <2> HIDE DEF row
  <2> QED BY <2>1, <2>5, RowWritten
<1>6. ASSUME NEW w \in Workers, WorkerGrow(w) \/ WorkerShrink(w) PROVE ConsoleTyped'
  <2>1. PICK size \in 1 .. MaxPool :
          /\ pool' = [pool EXCEPT ![w] = IF w \in Hears(DefaultApp) THEN size ELSE @]
          /\ UNCHANGED <<up, pending, tableVars, pollVars, command>>
    BY <1>1, <1>6, ConsoleConstants DEF WorkerGrow, WorkerShrink, PoolCommand
  <2>2. pool' \in [Workers -> 1 .. MaxPool]
    BY <1>1, <2>1
  <2> QED BY <2>1, <2>2, PoolChanged
<1>7. ASSUME NEW w \in Workers, AutoscaleRead(w) PROVE ConsoleTyped'
  <2> DEFINE limit == IF rows[w] # None /\ OrZero(rows[w].pool) > 0 THEN rows[w].pool ELSE 1
  <2>1. command' = [kind |-> "autoscale", worker |-> w, limit |-> limit]
        /\ UNCHANGED <<worldVars, tableVars, pollVars>>
    BY <1>7 DEF AutoscaleRead
  <2>2. limit \in 1 .. MaxPool
    BY ConsoleConstants DEF ConsoleTyped, RowsTyped, RowedWorkers, OrZero, Opt
  <2> HIDE DEF limit
  <2>3. CommandTyped'
    BY <2>1, <2>2 DEF CommandTyped
  <2> QED BY <1>1, <2>1, <2>3, RowsKept DEF worldVars, tableVars, pollVars
<1>8. ASSUME NEW b \in Brokers, NEW q \in Queues, Consume(b, q) PROVE ConsoleTyped'
  <2>1. pending[b][q] \in 0 .. MaxMessages /\ pending[b][q] > 0
    BY <1>1, <1>8 DEF Consume
  <2>2. pending[b][q] - 1 \in 0 .. MaxMessages
    BY <2>1, ConsoleConstants
  <2>3. pending' = [pending EXCEPT ![b][q] = pending[b][q] - 1]
    BY <1>8 DEF Consume
  <2> QED BY <1>0, <1>1, <1>8, <2>2, <2>3, PendingChanged DEF Consume
<1>9. ASSUME NEW b \in Brokers, NEW q \in Queues, ForgetQueue(b, q) PROVE ConsoleTyped'
  BY <1>0, <1>1, <1>9, RowsKept DEF ForgetQueue, worldVars, pollVars
<1>10. CASE PollBroker
  <2>1. (index + 1) % Len(AppNames) \in 0 .. Len(AppNames) - 1
    BY <1>1, ConsoleConstants
  <2> QED BY <1>0, <1>1, <1>10, <2>1, RowsKept DEF PollBroker, worldVars, tableVars
<1>11. CASE StoreQueue
  BY <1>0, <1>1, <1>11, RowsKept DEF StoreQueue, worldVars
<1>12. ASSUME NEW app, NEW q, SendTask(app, q) PROVE ConsoleTyped'
  <2> DEFINE b == BrokerOf[app]
  <2>1. b \in Brokers /\ q \in Queues => pending[b][q] + 1 \in 0 .. MaxMessages
    BY <1>1, <1>12, ConsoleConstants DEF SendTask
  <2> QED BY <1>0, <1>1, <1>12, <2>1, PendingChanged DEF SendTask
<1>13. CASE AutoscaleSend
  <2>1. pool' \in [Workers -> 1 .. MaxPool]
    BY <1>1, <1>13 DEF AutoscaleSend, CommandTyped
  <2> QED BY <1>13, <2>1, PoolChanged DEF AutoscaleSend
<1>14. CASE WorkersRestart
  <2>1. pool' \in [Workers -> 1 .. MaxPool]
    BY <1>1, <1>14 DEF WorkersRestart
  <2> QED BY <1>14, <2>1, PoolChanged DEF WorkersRestart
<1>15. ASSUME NEW app \in Apps, PurgeIdleRead(app) PROVE ConsoleTyped'
  <2>1. CommandTyped'
    BY <1>15 DEF PurgeIdleRead, CommandTyped
  <2> QED BY <1>1, <1>15, <2>1, RowsKept DEF PurgeIdleRead, worldVars, tableVars, pollVars
<1>16. ASSUME NEW app \in Apps, NEW q \in Queues, BrokerPurge(app, q) PROVE ConsoleTyped'
  <2>1. pending' = [pending EXCEPT ![BrokerOf[app]][q] = 0] /\ 0 \in 0 .. MaxMessages
    BY <1>16, ConsoleConstants DEF BrokerPurge, PurgeQueue
  <2> QED BY <1>0, <1>1, <1>16, <2>1, PendingChanged DEF BrokerPurge
<1>17. ASSUME NEW q \in Queues, PurgeIdleStep(q) PROVE ConsoleTyped'
  <2> DEFINE b == BrokerOf[command.app]
  <2>1. command' = NoCommand \/ command' = [command EXCEPT !.queues = @ \ {q}]
    BY <1>17 DEF PurgeIdleStep
  <2>2. command.kind = "purge"
    BY <1>17 DEF PurgeIdleStep
  <2>3. CommandTyped'
    BY <1>1, <2>1, <2>2, ConsoleConstants DEF CommandTyped, NoCommand
  <2>4. pending' = [pending EXCEPT ![b][q] = 0] /\ 0 \in 0 .. MaxMessages
    BY <1>17, ConsoleConstants DEF PurgeIdleStep, PurgeQueue
  <2> HIDE DEF b
  <2> QED BY <1>17, <2>3, <2>4, PendingChanged, ConsoleConstants DEF PurgeIdleStep
<1> QED
  BY <1>2, <1>3, <1>4, <1>5, <1>6, <1>7, <1>8, <1>9, <1>10, <1>11, <1>12, <1>13, <1>14, <1>15,
     <1>16, <1>17
  DEF ConsoleNext, TaskSubmit, TaskRetry

(* Pools, messages, rows and counts stay within their bounds whatever is sent to
   workers and brokers while they are polled. *)
THEOREM ConsoleTypesKept == ConsoleSpec => []ConsoleTypeOK
<1>1. ConsoleInit => ConsoleTyped
  <2> SUFFICES ASSUME ConsoleInit PROVE ConsoleTyped
    OBVIOUS
  <2>1. pool \in [Workers -> 1 .. MaxPool]
    BY ConsoleConstants DEF ConsoleInit
  <2>2. index \in 0 .. Len(AppNames) - 1
    BY ConsoleConstants DEF ConsoleInit
  <2>3. [q \in Queues |-> 0] \in [Queues -> 0 .. MaxMessages]
    BY ConsoleConstants
  <2>4. pending \in [Brokers -> [Queues -> 0 .. MaxMessages]]
    BY <2>3 DEF ConsoleInit
  <2>5. CommandTyped
    BY ConsoleConstants DEF ConsoleInit, NoCommand, CommandTyped
  <2> QED BY <2>1, <2>2, <2>4, <2>5 DEF ConsoleInit, ConsoleTyped, ConsoleTypeOK, RowsTyped, RowedWorkers, CommandTyped
<1>2. ConsoleTyped => ConsoleTypeOK
  BY DEF ConsoleTyped
<1> QED BY <1>1, <1>2, ConsoleStep, PTL DEF ConsoleSpec

-----------------------------------------------------------------------------
(* Task graph: the tables of the store, and the record of the request. *)

TablesTyped ==
  /\ gTasks \in Table /\ gEvents \subseteq TaskEvent
  /\ gRelations \subseteq Edge /\ gTodo \subseteq Edge /\ gLost \subseteq Edge
  /\ gNow \in Times

IsGraph(g) ==
  g = [pc |-> g.pc, task |-> g.task, root |-> g.root, tries |-> g.tries,
       edges |-> g.edges, nodes |-> g.nodes, states |-> g.states, due |-> g.due]

GraphFields ==
  /\ IsGraph(graph)
  /\ graph.pc \in {"idle", "task", "relations", "tasks", "nodes", "shown"}
  /\ graph.pc # "idle" => graph.task \in TaskIds
  /\ graph.pc \in {"relations", "tasks", "nodes", "shown"} => graph.root \in Nodes
  /\ graph.root \in Opt(Nodes) /\ graph.nodes \subseteq Nodes /\ graph.tries \in 0 .. 4

(* TaskStore computes rows and edges as TaskRecord says. *)
LEMMA SameRecords ==
  /\ \A row, e : Store!TaskRowAfter(row, e) = TaskRowAfter(row, e)
  /\ \A e : Store!EdgesOf(e) = EdgesOf(e)
  /\ Store!TasksTypeOK <=> TablesTyped
<1>1. \A row, e : Store!TaskRowAfter(row, e) = TaskRowAfter(row, e)
  BY DEF Store!TaskRowAfter, TaskRowAfter, Store!BlankRow, BlankRow, Store!MergeRetries,
    MergeRetries, Store!ShouldPreserveState, ShouldPreserveState, Store!FinalStates, FinalStates,
    Store!WaitingStates, WaitingStates, Store!Columns, Columns, Store!LinkKinds, LinkKinds
<1>2. \A e : Store!EdgesOf(e) = EdgesOf(e)
  BY DEF Store!EdgesOf, EdgesOf, Store!LinkEdge, LinkEdge, Store!RootOf, RootOf,
    Store!LinkKinds, LinkKinds
<1>3. /\ Store!States = States /\ Store!Times = Times /\ Store!ColumnValues = ColumnValues
      /\ Store!LinkKinds = LinkKinds /\ \A S : Store!Opt(S) = Opt(S)
  BY DEF Store!States, States, Store!FinalStates, FinalStates, Store!WaitingStates, WaitingStates,
    Store!Times, Times, Store!ColumnValues, ColumnValues, Store!Columns, Columns,
    Store!LinkKinds, LinkKinds, Store!Opt, Opt
<1>4. Store!TaskEvent = TaskEvent /\ Store!TaskRow = TaskRow /\ Store!Edge = Edge
  <2>0. Store!Opt(Nat) = Opt(Nat) /\ Store!Opt(Times) = Opt(Times)
    BY <1>3
  <2>1. Store!TaskEvent = TaskEvent
    BY <1>3, <2>0, Zenon DEF Store!TaskEvent, TaskEvent
  <2>2. Store!TaskRow = TaskRow
    BY <1>3, <2>0, Zenon DEF Store!TaskRow, TaskRow
  <2>3. Store!Edge = Edge
    BY <1>3 DEF Store!Edge, Edge
  <2> QED BY <2>1, <2>2, <2>3
<1>5. Store!TasksTypeOK <=> TablesTyped
  BY <1>3, <1>4 DEF Store!TasksTypeOK, TablesTyped, Table
<1> QED BY <1>1, <1>2, <1>5

LEMMA EventEdges ==
  ASSUME NEW e \in TaskEvent
  PROVE  EdgesOf(e) \subseteq Edge
<1> SUFFICES ASSUME NEW k \in LinkKinds, e.cols[k] # None
             PROVE  LinkEdge(e.task, e.cols, k) \in Edge
  BY DEF EdgesOf
<1>1. e.task \in Nodes /\ e.cols \in ColumnValues
  BY RecordAssumption DEF TaskEvent
<1>2. e.cols[k] \in Opt(Nodes) /\ RootOf(e.task, e.cols) \in Nodes
  BY <1>1 DEF ColumnValues, RootOf, Opt
<1> QED BY <1>1, <1>2 DEF LinkEdge, Edge

(* Edges join nodes. *)
LEMMA EdgesJoinNodes ==
  ASSUME TablesTyped, NEW root \in Nodes
  PROVE  /\ Ends(RelationEdges(gRelations, root)) \subseteq Nodes
         /\ Ends(ColumnEdges(gTasks, TasksOfRoot(gTasks, root))) \subseteq Nodes
         /\ TasksOfRoot(gTasks, root) \subseteq Nodes
<1>1. ASSUME NEW r \in gRelations
      PROVE  LET above == IF r.parent # None THEN r.parent ELSE r.root
                 e == ShownEdge(above, r.child, r.relation)
             IN  e.source \in Nodes /\ e.target \in Nodes
  <2>1. r.root \in Nodes /\ r.child \in Nodes /\ r.parent \in Nodes \cup {None}
    BY DEF TablesTyped, Edge, Opt
  <2> QED BY <2>1 DEF ShownEdge
<1>2. ASSUME NEW t \in TasksOfRoot(gTasks, root), NEW k \in LinkKinds, gTasks[t].cols[k] # None
      PROVE  LET e == ShownEdge(gTasks[t].cols[k], t, k)
             IN  e.source \in Nodes /\ e.target \in Nodes
  <2>1. t \in Nodes /\ gTasks[t] \in TaskRow
    BY RecordAssumption DEF TasksOfRoot, TablesTyped, Table
  <2>2. gTasks[t].cols[k] \in Nodes
    BY <1>2, <2>1 DEF TaskRow, ColumnValues, Opt
  <2> QED BY <2>1, <2>2 DEF ShownEdge
<1>3. Ends(RelationEdges(gRelations, root)) \subseteq Nodes
  BY <1>1 DEF Ends, RelationEdges
<1>4. Ends(ColumnEdges(gTasks, TasksOfRoot(gTasks, root))) \subseteq Nodes
  BY <1>2 DEF Ends, ColumnEdges, RowLinks
<1> QED BY <1>3, <1>4, RecordAssumption DEF TasksOfRoot

LEMMA StoreKeepsTypes ==
  ASSUME TablesTyped, GraphFields, StoreStep
  PROVE  TablesTyped' /\ GraphFields'
<1>1. ASSUME Store!Cleanup PROVE TablesTyped'
  BY <1>1 DEF Store!Cleanup, TablesTyped, Table
<1>2. ASSUME NEW e \in GraphEvents, Store!StoreTaskEvent(e) PROVE TablesTyped'
  <2>1. e \in TaskEvent /\ e.task \in TaskIds
    BY GraphAssumption DEF TaskEvent
  <2>2. /\ gTasks' = [gTasks EXCEPT ![e.task] = TaskRowAfter(gTasks[e.task], e)]
        /\ gEvents' = gEvents \cup {e} /\ gTodo' = EdgesOf(e)
        /\ UNCHANGED <<gRelations, gLost, gNow>>
    BY <1>2, SameRecords DEF Store!StoreTaskEvent
  <2>3. TaskRowAfter(gTasks[e.task], e) \in TaskRow
    BY <2>1, AgeAfter DEF TablesTyped, Table
  <2>4. gTasks' \in Table
    BY <2>2, <2>3 DEF TablesTyped, Table
  <2> QED BY <2>1, <2>2, <2>4, EventEdges DEF TablesTyped
<1>3. ASSUME Store!StoreEdge \/ Store!IngestFails PROVE TablesTyped'
  BY <1>3 DEF Store!StoreEdge, Store!IngestFails, TablesTyped
<1>4. ASSUME NEW edge \in GraphEdges, Store!StoreTaskRelation(edge) PROVE TablesTyped'
  BY <1>4, GraphAssumption DEF Store!StoreTaskRelation, TablesTyped
<1>5. \/ graph' \in {graph, NoGraph}
      \/ \E due : graph' = [graph EXCEPT !.due = due]
  BY DEF StoreStep
<1>6. GraphFields'
  <2>1. CASE graph' = graph
    BY <2>1 DEF GraphFields, IsGraph
  <2>2. CASE graph' = NoGraph
    BY <2>2 DEF GraphFields, IsGraph, NoGraph, Opt
  <2>3. ASSUME NEW due, graph' = [graph EXCEPT !.due = due] PROVE GraphFields'
    BY <2>3 DEF GraphFields, IsGraph
  <2> QED BY <1>5, <2>1, <2>2, <2>3
<1> QED BY <1>1, <1>2, <1>3, <1>4, <1>6 DEF StoreStep

LEMMA PageKeepsTypes ==
  ASSUME TablesTyped, GraphFields,
         \/ \E t \in TaskIds : OpenGraph(t)
         \/ GetTask \/ GetTaskRelations \/ GetTasksOfRoot \/ GetNodes
  PROVE  TablesTyped' /\ GraphFields'
<1>1. UNCHANGED storeVars
  BY Zenon DEF OpenGraph, GetTask, GetTaskRelations, GetTasksOfRoot, GetNodes
<1>2. TablesTyped'
  BY <1>1 DEF storeVars, TablesTyped
<1> SUFFICES GraphFields'
  BY <1>2
<1>3. ASSUME NEW t \in TaskIds, OpenGraph(t) PROVE GraphFields'
  <2>1. graph' = [pc |-> "task", task |-> t, root |-> None, tries |-> 0, edges |-> {},
                  nodes |-> {}, states |-> <<>>, due |-> {}]
    BY <1>3 DEF OpenGraph, NoGraph
  <2> QED BY <2>1 DEF GraphFields, IsGraph, Opt
<1>4. CASE GetTask
  <2> DEFINE row == gTasks[graph.task]
             root == RootOf(graph.task, row.cols)
  <2>1. graph.task \in TaskIds /\ row \in TaskRow \cup {NoRow}
    BY <1>4 DEF GetTask, GraphFields, TablesTyped, Table
  <2>2. row # NoRow => root \in Nodes
    BY <2>1, RecordAssumption DEF TaskRow, ColumnValues, RootOf, Opt
  <2>3. \/ graph' = NoGraph
        \/ /\ row # NoRow
           /\ graph' = [graph EXCEPT !.pc = "relations", !.root = root,
                                     !.due = Due(gRelations, gTasks, root)]
    BY <1>4 DEF GetTask
  <2> HIDE DEF row, root
  <2>4. CASE graph' = NoGraph
    BY <2>4 DEF GraphFields, IsGraph, NoGraph, Opt
  <2> QED BY <2>1, <2>2, <2>3, <2>4 DEF GraphFields, IsGraph, Opt
<1>5. CASE GetTaskRelations
  <2> DEFINE edges == RelationEdges(gRelations, graph.root)
             nodes == {graph.root} \cup Ends(edges)
  <2>1. graph.root \in Nodes
    BY <1>5 DEF GetTaskRelations, GraphFields, IsGraph
  <2>2. nodes \subseteq Nodes
    BY <2>1, EdgesJoinNodes
  <2>3. graph.pc = "relations" /\ graph' = [graph EXCEPT !.pc = "tasks", !.edges = edges, !.nodes = nodes]
    BY <1>5 DEF GetTaskRelations
  <2> HIDE DEF edges, nodes
  <2> QED BY <2>2, <2>3 DEF GraphFields, IsGraph
<1>6. CASE GetTasksOfRoot
  <2> DEFINE ofRoot == TasksOfRoot(gTasks, graph.root)
             edges == ColumnEdges(gTasks, ofRoot)
             more == ofRoot \cup Ends(edges)
  <2>1. graph.root \in Nodes
    BY <1>6 DEF GetTasksOfRoot, GraphFields, IsGraph
  <2>2. more \subseteq Nodes
    BY <2>1, EdgesJoinNodes
  <2>3. /\ graph.pc = "tasks"
        /\ graph' = [graph EXCEPT !.pc = "nodes", !.edges = @ \cup edges, !.nodes = @ \cup more]
    BY <1>6 DEF GetTasksOfRoot
  <2> HIDE DEF ofRoot, edges, more
  <2> QED BY <2>2, <2>3 DEF GraphFields, IsGraph
<1>7. CASE GetNodes
  <2>1. graph.pc = "nodes" /\ graph.task \in TaskIds /\ graph.tries \in 0 .. 4
    BY <1>7 DEF GetNodes, GraphFields, IsGraph
  <2>2. CASE EdgesMissing
    <3>1. graph.tries + 1 \in 0 .. 4
      BY <2>1, <2>2 DEF EdgesMissing
    <3> QED BY <1>7, <2>1, <2>2, <3>1 DEF GetNodes, GraphFields, IsGraph, NoGraph, Opt
  <2>3. CASE ~EdgesMissing
    BY <1>7, <2>1, <2>3 DEF GetNodes, GraphFields, IsGraph
  <2> QED BY <2>2, <2>3
<1> QED BY <1>2, <1>3, <1>4, <1>5, <1>6, <1>7

(* The tables a graph is made from, and the request that makes it, are well formed:
   edges join nodes, and the page tries again as often as it may. *)
THEOREM GraphTypesKept == GraphSpec => []GraphTypeOK
<1>1. GraphInit => TablesTyped /\ GraphFields
  BY RecordAssumption DEF GraphInit, TablesTyped, Table, Times, GraphFields, IsGraph, NoGraph, Opt
<1>2. TablesTyped /\ GraphFields /\ [GraphNext]_graphVars => TablesTyped' /\ GraphFields'
  <2> SUFFICES ASSUME TablesTyped, GraphFields, [GraphNext]_graphVars PROVE TablesTyped' /\ GraphFields'
    OBVIOUS
  <2>1. CASE UNCHANGED graphVars
    BY <2>1 DEF graphVars, storeVars, TablesTyped, GraphFields
  <2> QED BY <2>1, StoreKeepsTypes, PageKeepsTypes DEF GraphNext
<1>3. TablesTyped /\ GraphFields => GraphTypeOK
  BY SameRecords DEF GraphFields, IsGraph, GraphTypeOK
<1> QED BY <1>1, <1>2, <1>3, PTL DEF GraphSpec

-----------------------------------------------------------------------------
(* Smart retry. *)

LEMMA AnyOrderTyped ==
  ASSUME NEW S \in SUBSET GraphIds, NEW new \in SetToSeqs(S)
  PROVE  new \in Seq(GraphIds)
<1>1. IsFiniteSet(S)
  BY RetryAssumption, FS_Subset
<1>2. Cardinality(S) \in Nat
  BY <1>1, FS_CardinalityType
<1>3. new \in [1 .. Cardinality(S) -> GraphIds]
  BY DEF SetToSeqs
<1> QED BY <1>2, <1>3

LEMMA RetryStep == RetryTypeOK /\ [RetryNext]_retryVars => RetryTypeOK'
<1> SUFFICES ASSUME RetryTypeOK, [RetryNext]_retryVars PROVE RetryTypeOK'
  OBVIOUS
<1>1. CASE Visit
  <2> DEFINE node == Head(queue)
  <2>1. /\ queue # <<>> /\ node \in GraphIds /\ Tail(queue) \in Seq(GraphIds)
        /\ UNCHANGED <<linkVars, phase, results, skipped>>
    BY <1>1 DEF Visit, RetryTypeOK
  <2>2. CASE node \in visited
    BY <1>1, <2>1, <2>2 DEF Visit, RetryTypeOK, linkVars
  <2>3. CASE node \notin visited
    <3>1. visited' = visited \cup {node} /\ order' = Append(order, node)
      BY <1>1, <2>3 DEF Visit
    <3>2. PICK children \in Adjacency(node, visited') : queue' = Tail(queue) \o children
      BY <1>1, <2>3 DEF Visit
    <3> DEFINE new == Children(node) \ visited'
               again == {c \in new : <<node, c>> \in doubled}
    <3>3. new \in SUBSET GraphIds /\ again \in SUBSET GraphIds
      BY DEF Children
    <3>4. Adjacency(node, visited') = {s \o t : s \in SetToSeqs(new), t \in SetToSeqs(again)}
      BY DEF Adjacency
    <3> HIDE DEF new, again
    <3>5. PICK s \in SetToSeqs(new), t \in SetToSeqs(again) : children = s \o t
      BY <3>2, <3>4
    <3>6. s \in Seq(GraphIds) /\ t \in Seq(GraphIds)
      BY <3>3, AnyOrderTyped
    <3>7. queue' \in Seq(GraphIds)
      BY <2>1, <3>2, <3>5, <3>6
    <3> QED BY <2>1, <3>1, <3>7 DEF RetryTypeOK, linkVars
  <2> QED BY <2>2, <2>3
<1>2. CASE EndWalk \/ EndRetry \/ UNCHANGED retryVars
  BY <1>2 DEF EndWalk, EndRetry, retryVars, linkVars, RetryTypeOK
<1>3. CASE NextTask
  <2>1. order # <<>> /\ Head(order) \in GraphIds /\ order' = Tail(order)
        /\ UNCHANGED <<linkVars, queue, visited>>
    BY <1>3 DEF NextTask, RetryTypeOK
  <2>2. /\ results' \in {results, Append(results, Head(order))}
        /\ skipped' \in {skipped, skipped \cup {Head(order)}}
        /\ phase' \in {"send", "raised"}
    BY <1>3 DEF NextTask
  <2>3. order' \in Seq(GraphIds) /\ results' \in Seq(GraphIds)
    <3>1. order \in Seq(GraphIds) /\ results \in Seq(GraphIds)
      BY DEF RetryTypeOK
    <3>2. Tail(order) \in Seq(GraphIds)
      BY <2>1, <3>1
    <3>3. Append(results, Head(order)) \in Seq(GraphIds)
      BY <2>1, <3>1
    <3> QED BY <2>1, <2>2, <3>1, <3>2, <3>3
  <2> QED BY <2>1, <2>2, <2>3 DEF linkVars, RetryTypeOK
<1> QED BY <1>1, <1>2, <1>3 DEF RetryNext

(* A smart retry walks and sends ids of the graph only. *)
THEOREM RetryTypesKept == RetrySpec => []RetryTypeOK
<1>1. RetryInit => RetryTypeOK
  BY RetryAssumption DEF RetryInit, RetryTypeOK
<1> QED BY <1>1, RetryStep, PTL DEF RetrySpec

-----------------------------------------------------------------------------
(* Schedule pages: a call that stores or saves brings a row. *)

Call == {c \in BeatCall : c.do \in {"store", "save"} => c.row \in TableRow}

SchedulesTyped == SchedulesTypeOK /\ toCall \in [Users -> Seq(Call)]

LEMMA SetToSeqTyped ==
  ASSUME NEW S, IsFiniteSet(S)
  PROVE  SetToSeq(S) \in Seq(S)
<1>1. ExistsBijection(1 .. Cardinality(S), S) /\ Cardinality(S) \in Nat
  BY FS_CountingElements, FS_CardinalityType
<1>2. \E f \in [1 .. Cardinality(S) -> S] : IsInjective(f)
  BY <1>1 DEF ExistsBijection, Bijection, Injection
<1>3. SetToSeq(S) \in [1 .. Cardinality(S) -> S]
  BY <1>2 DEF SetToSeq
<1> QED BY <1>1, <1>3

LEMMA CallsTyped ==
  /\ \A app \in BeatApps, id \in Ids, row \in TableRow : SaveSchedule(app, id, row) \in Seq(Call)
  /\ \A app \in BeatApps, id \in Ids : DeleteSchedule(app, id) \in Seq(Call)
  /\ \A why \in {"save", "move", "delete"} : \A calls \in Seq(Call) : For(why, calls) \in Seq(Call)
<1>1. ASSUME NEW id \in Ids, NEW row \in TableRow, NEW do \in {"store", "save"}
      PROVE  ACall(do, id, row) \in Call
  BY DEF ACall, Call, BeatCall
<1>2. ASSUME NEW id \in Ids, NEW do \in {"delete", "drop"}
      PROVE  ACall(do, id, None) \in Call
  BY DEF ACall, Call, BeatCall
<1>3. ASSUME NEW app \in BeatApps, NEW id \in Ids, NEW row \in TableRow
      PROVE  SaveSchedule(app, id, row) \in Seq(Call)
  <2> DEFINE own == [row EXCEPT !.app = IF @ = None THEN app ELSE @]
             a == ACall("store", id, own)
             b == ACall("save", id, row)
             c == ACall("store", id, row)
  <2>1. own \in TableRow
    BY DEF TableRow
  <2>2. SaveSchedule(app, id, row) = IF DetectBackend(app) = "db" THEN <<a>> ELSE <<b, c>>
    BY DEF SaveSchedule
  <2> HIDE DEF own
  <2>3. a \in Call /\ b \in Call /\ c \in Call
    BY <1>1, <2>1
  <2> HIDE DEF a, b, c
  <2> QED BY <2>2, <2>3
<1>4. ASSUME NEW app \in BeatApps, NEW id \in Ids
      PROVE  DeleteSchedule(app, id) \in Seq(Call)
  <2> DEFINE a == ACall("delete", id, None)
             b == ACall("drop", id, None)
  <2>1. a \in Call /\ b \in Call
    BY <1>2
  <2>2. DeleteSchedule(app, id) = IF DetectBackend(app) = "db" THEN <<a>> ELSE <<b, a>>
    BY DEF DeleteSchedule
  <2> HIDE DEF a, b
  <2> QED BY <2>1, <2>2
<1>5. ASSUME NEW why \in {"save", "move", "delete"}, NEW calls \in Seq(Call)
      PROVE  For(why, calls) \in Seq(Call)
  <2>1. DOMAIN calls = 1 .. Len(calls) /\ Len(calls) \in Nat /\ \A i \in 1 .. Len(calls) : calls[i] \in Call
    OBVIOUS
  <2>2. \A c \in Call : [c EXCEPT !.why = why] \in Call
    BY DEF Call, BeatCall
  <2>3. For(why, calls) = [i \in 1 .. Len(calls) |-> [calls[i] EXCEPT !.why = why]]
    BY <2>1 DEF For
  <2>4. For(why, calls) \in [1 .. Len(calls) -> Call]
    BY <2>1, <2>2, <2>3
  <2> QED BY <2>1, <2>4
<1> QED BY <1>3, <1>4, <1>5

LEMMA RequestTyped ==
  ASSUME SchedulesTyped, NEW u \in Users, NEW calls \in Seq(Call), BeginRequest(u, calls)
  PROVE  SchedulesTyped'
<1>1. toCall' \in [Users -> Seq(Call)]
  BY DEF SchedulesTyped, BeginRequest
<1>2. requests' \in 0 .. MaxRequests
  BY SchedulesAssumption DEF SchedulesTyped, SchedulesTypeOK, BeginRequest
<1>3. Seq(Call) \subseteq Seq(BeatCall)
  BY DEF Call
<1>4. toCall' \in [Users -> Seq(BeatCall)]
  BY <1>1, <1>3
<1> QED BY <1>1, <1>2, <1>4 DEF SchedulesTyped, SchedulesTypeOK, BeginRequest

LEMMA RequestsTyped ==
  ASSUME SchedulesTyped, NEW u \in Users,
         \/ \E name \in Names, app \in BeatApps : BeatAdd(u, name, app)
         \/ \E from, to \in BeatApps, id \in Ids : BeatEdit(u, from, id, to)
         \/ \E app \in BeatApps, id \in Ids : BeatDelete(u, app, id)
         \/ BeatSync(u)
         \/ \E name \in Names : LibrarySave(u, name)
         \/ \E id \in Ids : LibraryDelete(u, id)
  PROVE  SchedulesTyped'
<1>1. ASSUME NEW name \in Names, NEW app \in BeatApps, BeatAdd(u, name, app) PROVE SchedulesTyped'
  <2>1. ParseForm(name, app) \in TableRow /\ name \in Ids
    BY DEF ParseForm, TableRow, Ids
  <2>2. SaveSchedule(app, name, ParseForm(name, app)) \in Seq(Call)
    BY <2>1, CallsTyped
  <2> QED BY <1>1, <2>2, RequestTyped DEF BeatAdd
<1>2. ASSUME NEW from \in BeatApps, NEW to \in BeatApps, NEW id \in Ids, BeatEdit(u, from, id, to)
      PROVE  SchedulesTyped'
  <2> DEFINE row == ParseForm(NameOf(from, id), to)
             calls == IF from = to THEN SaveSchedule(to, id, row) ELSE Moved(from, to, id, row)
  <2>1. id \in ListSchedules(from) /\ BeginRequest(u, calls)
    BY <1>2 DEF BeatEdit
  <2>2. NameOf(from, id) \in Names
    <3>1. CASE DetectBackend(from) = "db"
      <4>1. scheduleRows[id] # None /\ NameOf(from, id) = scheduleRows[id].name
        BY <2>1, <3>1 DEF ListSchedules, ListDb, NameOf
      <4>2. scheduleRows[id] \in TableRow
        BY <4>1 DEF SchedulesTyped, SchedulesTypeOK
      <4> QED BY <4>1, <4>2 DEF TableRow
    <3>2. CASE DetectBackend(from) # "db"
      BY <2>1, <3>2 DEF ListSchedules, ListDjango, NameOf
    <3> QED BY <3>1, <3>2
  <2>3. row \in TableRow
    BY <2>2 DEF ParseForm, TableRow
  <2> HIDE DEF row
  <2>4. SaveSchedule(to, id, row) \in Seq(Call) /\ DeleteSchedule(from, id) \in Seq(Call)
    BY <2>3, CallsTyped
  <2>5. DeleteSchedule(from, id) \o SaveSchedule(to, id, row) \in Seq(Call)
    BY <2>4
  <2>6. calls \in Seq(Call)
    BY <2>4, <2>5, CallsTyped DEF Moved
  <2> HIDE DEF calls
  <2> QED BY <2>1, <2>6, RequestTyped
<1>3. ASSUME NEW app \in BeatApps, NEW id \in Ids, BeatDelete(u, app, id) PROVE SchedulesTyped'
  <2>1. For("delete", DeleteSchedule(app, id)) \in Seq(Call)
    BY CallsTyped
  <2> QED BY <1>3, <2>1, RequestTyped DEF BeatDelete
<1>4. CASE BeatSync(u)
  <2> DEFINE apps == SetToSeq(BeatApps)
             calls == [i \in DOMAIN apps |-> [ACall("copy", None, None) EXCEPT !.app = apps[i]]]
  <2>1. BeginRequest(u, calls)
    BY <1>4 DEF BeatSync
  <2>2. apps \in Seq(BeatApps)
    BY SchedulesAssumption, SetToSeqTyped
  <2>3. \A app \in BeatApps : [ACall("copy", None, None) EXCEPT !.app = app] \in Call
    BY DEF ACall, Call, BeatCall
  <2> DEFINE copy(app) == [ACall("copy", None, None) EXCEPT !.app = app]
  <2>4. \A app \in BeatApps : copy(app) \in Call
    BY <2>3
  <2> HIDE DEF apps, copy
  <2>5. DOMAIN apps = 1 .. Len(apps) /\ Len(apps) \in Nat /\ \A i \in 1 .. Len(apps) : apps[i] \in BeatApps
    BY <2>2
  <2>6. calls = [i \in 1 .. Len(apps) |-> copy(apps[i])]
    BY <2>5 DEF copy
  <2> HIDE DEF calls
  <2>7. calls \in Seq(Call)
    BY <2>4, <2>5, <2>6
  <2> QED BY <2>1, <2>7, RequestTyped
<1>5. ASSUME NEW name \in Names, LibrarySave(u, name) PROVE SchedulesTyped'
  <2> DEFINE c == ACall("store", name, ParseForm(name, None))
  <2>1. c \in Call
    BY DEF ACall, ParseForm, TableRow, Call, BeatCall, Ids
  <2>2. BeginRequest(u, <<c>>)
    BY <1>5 DEF LibrarySave
  <2> HIDE DEF c
  <2>3. <<c>> \in Seq(Call)
    BY <2>1
  <2> QED BY <2>2, <2>3, RequestTyped
<1>6. ASSUME NEW id \in Ids, LibraryDelete(u, id) PROVE SchedulesTyped'
  <2> DEFINE c == ACall("delete", id, None)
  <2>1. c \in Call
    BY DEF ACall, Call, BeatCall
  <2>2. BeginRequest(u, For("delete", <<c>>))
    BY <1>6 DEF LibraryDelete
  <2> HIDE DEF c
  <2>3. <<c>> \in Seq(Call)
    BY <2>1
  <2>4. For("delete", <<c>>) \in Seq(Call)
    BY <2>3, CallsTyped
  <2> QED BY <2>2, <2>4, RequestTyped
<1> QED BY <1>1, <1>2, <1>3, <1>4, <1>5, <1>6

LEMMA CallTyped ==
  ASSUME SchedulesTyped, NEW u \in Users, toCall[u] # <<>>
  PROVE  /\ Head(toCall[u]) \in Call /\ Tail(toCall[u]) \in Seq(Call)
         /\ Without(u) \in [Users -> Seq(Call)] /\ Moving(u) \subseteq Names
<1>1. toCall[u] \in Seq(Call) /\ toCall \in [Users -> Seq(Call)]
  BY DEF SchedulesTyped
<1>2. Head(toCall[u]) \in Call /\ Tail(toCall[u]) \in Seq(Call)
  BY <1>1
<1>3. Without(u) \in [Users -> Seq(Call)]
  BY <1>1, <1>2 DEF Without
<1>4. Range(toCall[u]) \subseteq Call
  BY <1>1 DEF Range
<1>5. Moving(u) \subseteq Names
  <2> SUFFICES ASSUME NEW c \in Call, c.do = "store" PROVE c.row.name \in Names
    BY <1>4 DEF Moving
  <2> QED BY DEF Call, TableRow
<1> QED BY <1>2, <1>3, <1>5

LEMMA BeatCallsTyped == Call \subseteq BeatCall /\ Seq(Call) \subseteq Seq(BeatCall)
BY DEF Call

LEMMA CopyTyped ==
  ASSUME SchedulesTyped, NEW u \in Users, toCall[u] # <<>>, CopyCall(u, Head(toCall[u]))
  PROVE  toCall' \in [Users -> Seq(Call)]
<1> DEFINE call == Head(toCall[u])
           listing == SetToSeq(ListDjango)
           store(k) == ACall("store", k, ParseForm(periodicTasks[k], call.app))
           puts == [i \in DOMAIN listing |-> store(listing[i])]
<1>1. call.app \in BeatApps \cup {None}
  BY CallTyped DEF Call, BeatCall
<1>2. ListDjango \subseteq Keys /\ IsFiniteSet(ListDjango)
  BY SchedulesAssumption, FS_Subset DEF ListDjango
<1>3. listing \in Seq(ListDjango)
  BY <1>2, SetToSeqTyped
<1>4. \A k \in ListDjango : store(k) \in Call
  <2> SUFFICES ASSUME NEW k \in ListDjango PROVE store(k) \in Call
    OBVIOUS
  <2>1. periodicTasks[k] \in Names /\ k \in Ids
    BY DEF ListDjango, Ids
  <2>2. ParseForm(periodicTasks[k], call.app) \in TableRow
    BY <1>1, <2>1 DEF ParseForm, TableRow
  <2> QED BY <2>1, <2>2 DEF ACall, Call, BeatCall
<1>5. toCall' = [toCall EXCEPT ![u] = (IF DetectBackend(call.app) = "db" THEN <<>> ELSE puts) \o Tail(@)]
  BY DEF CopyCall
<1>6. Tail(toCall[u]) \in Seq(Call) /\ toCall \in [Users -> Seq(Call)]
  BY CallTyped DEF SchedulesTyped
<1> HIDE DEF listing, store, call
<1>7. DOMAIN listing = 1 .. Len(listing) /\ Len(listing) \in Nat /\ \A i \in 1 .. Len(listing) : listing[i] \in ListDjango
  BY <1>3
<1>8. puts = [i \in 1 .. Len(listing) |-> store(listing[i])]
  BY <1>7
<1> HIDE DEF puts
<1>9. puts \in Seq(Call)
  BY <1>4, <1>7, <1>8
<1>10. (IF DetectBackend(call.app) = "db" THEN <<>> ELSE puts) \o Tail(toCall[u]) \in Seq(Call)
  BY <1>6, <1>9
<1> QED BY <1>5, <1>6, <1>10

LEMMA CallKeepsTypes == ASSUME SchedulesTyped, NEW u \in Users, BeatPageCall(u) PROVE SchedulesTyped'
<1> DEFINE call == Head(toCall[u])
<1>1. /\ toCall[u] # <<>> /\ UNCHANGED <<usable, listed, requests>>
      /\ \/ /\ \/ StoreCall(u, call) \/ DeleteCall(u, call)
               \/ SaveCall(u, call) \/ DropCall(u, call) \/ CopyCall(u, call)
            /\ UNCHANGED callFailures
         \/ CallRaises(u, call)
  BY DEF BeatPageCall
<1>2. /\ call \in Call /\ Without(u) \in [Users -> Seq(Call)] /\ Moving(u) \subseteq Names
  BY <1>1, CallTyped
<1>3. CASE StoreCall(u, call) /\ UNCHANGED callFailures
  <2>1. call.row \in TableRow /\ call.row.name \in Names
    BY <1>2, <1>3 DEF StoreCall, Call, TableRow
  <2>2. /\ scheduleRows' \in [Ids -> TableRow \cup {None}]
        /\ kept' \subseteq Names /\ broken' \subseteq Names
        /\ UNCHANGED periodicTasks /\ toCall' = Without(u)
    BY <1>3, <2>1 DEF StoreCall, SchedulesTyped, SchedulesTypeOK
  <2> QED BY <1>1, <1>2, <1>3, <2>2, BeatCallsTyped DEF SchedulesTyped, SchedulesTypeOK
<1>4. CASE DeleteCall(u, call) /\ UNCHANGED callFailures
  <2>1. /\ scheduleRows' \in [Ids -> TableRow \cup {None}]
        /\ kept' \subseteq Names
        /\ UNCHANGED <<periodicTasks, broken>> /\ toCall' = Without(u)
    BY <1>4 DEF DeleteCall, SchedulesTyped, SchedulesTypeOK
  <2> QED BY <1>1, <1>2, <1>4, <2>1, BeatCallsTyped DEF SchedulesTyped, SchedulesTypeOK
<1>5. CASE SaveCall(u, call) /\ UNCHANGED callFailures
  <2>1. call.row.name \in Names
    BY <1>2, <1>5 DEF SaveCall, Call, TableRow
  <2>2. /\ periodicTasks' \in [Keys -> Names \cup {None, "gone"}]
        /\ UNCHANGED <<scheduleRows, kept, broken>> /\ toCall' = Without(u)
    BY <1>5, <2>1 DEF SaveCall, SaveDjango, SchedulesTyped, SchedulesTypeOK
  <2> QED BY <1>1, <1>2, <1>5, <2>2, BeatCallsTyped DEF SchedulesTyped, SchedulesTypeOK
<1>6. CASE DropCall(u, call) /\ UNCHANGED callFailures
  <2>1. /\ periodicTasks' \in [Keys -> Names \cup {None, "gone"}]
        /\ kept' \subseteq Names
        /\ UNCHANGED <<scheduleRows, broken>> /\ toCall' = Without(u)
    BY <1>6 DEF DropCall, SchedulesTyped, SchedulesTypeOK
  <2> QED BY <1>1, <1>2, <1>6, <2>1, BeatCallsTyped DEF SchedulesTyped, SchedulesTypeOK
<1>7. CASE CopyCall(u, call) /\ UNCHANGED callFailures
  <2>1. toCall' \in [Users -> Seq(Call)]
    BY <1>1, <1>7, CopyTyped
  <2>2. UNCHANGED <<scheduleRows, periodicTasks, kept, broken>>
    BY <1>7 DEF CopyCall
  <2> QED BY <1>1, <1>7, <2>1, <2>2, BeatCallsTyped DEF SchedulesTyped, SchedulesTypeOK
<1>8. CASE CallRaises(u, call)
  <2>1. /\ broken' \subseteq Names /\ callFailures' \in 0 .. MaxCallFailures
        /\ UNCHANGED <<scheduleRows, periodicTasks, kept>>
        /\ toCall' = [toCall EXCEPT ![u] = <<>>]
    BY <1>2, <1>8, SchedulesAssumption DEF CallRaises, SchedulesTyped, SchedulesTypeOK
  <2>2. toCall' \in [Users -> Seq(Call)]
    BY <2>1 DEF SchedulesTyped
  <2> QED BY <1>1, <2>1, <2>2, BeatCallsTyped DEF SchedulesTyped, SchedulesTypeOK
<1> QED BY <1>1, <1>3, <1>4, <1>5, <1>6, <1>7, <1>8

LEMMA BeatPageTyped == ASSUME SchedulesTyped, NEW u \in Users, BeatPage(u) PROVE SchedulesTyped'
<1> DEFINE shown == UNION {{app} \X ListSchedules(app) : app \in BeatApps}
<1>1. shown \subseteq BeatApps \X Ids
  BY DEF ListSchedules, ListDb, ListDjango, Ids
<1>2. listed' = [listed EXCEPT ![u] = shown]
  BY DEF BeatPage
<1> HIDE DEF shown
<1>3. listed' \in [Users -> SUBSET (BeatApps \X Ids)]
  BY <1>1, <1>2 DEF SchedulesTyped, SchedulesTypeOK
<1> QED BY <1>3 DEF BeatPage, SchedulesTyped, SchedulesTypeOK

(* Whatever is saved, moved, copied or cut short, the table holds rows, and a
   request has calls to make that bring one where they store it. *)
THEOREM ScheduleTypesKept == SchedulesSpec => []SchedulesTypeOK
<1>1. SchedulesInit => SchedulesTyped
  BY SchedulesAssumption DEF SchedulesInit, SchedulesTyped, SchedulesTypeOK
<1>2. SchedulesTyped /\ [SchedulesNext]_scheduleVars => SchedulesTyped'
  <2> SUFFICES ASSUME SchedulesTyped, [SchedulesNext]_scheduleVars PROVE SchedulesTyped'
    OBVIOUS
  <2>1. CASE UNCHANGED scheduleVars
    BY <2>1 DEF scheduleVars, SchedulesTyped, SchedulesTypeOK
  <2> QED BY <2>1, BeatPageTyped, RequestsTyped, CallKeepsTypes DEF SchedulesNext
<1>3. SchedulesTyped => SchedulesTypeOK
  BY DEF SchedulesTyped
<1> QED BY <1>1, <1>2, <1>3, PTL DEF SchedulesSpec

-----------------------------------------------------------------------------
(* Sign-in: the pages asked for are pages behind the sign-in, tokens count from
   one. *)

Asked(session) == session.next \in Paths \cup {None} /\ session.state # 0

SignInAsked ==
  /\ starts <= MaxStarts
  /\ \A s \in Held : Asked(s)
  /\ \A t \in Tabs :
       /\ tabs[t].token # 0
       /\ tabs[t].at \in {"redirected", "login"} => tabs[t].want \in Paths \cup {None}

LEMMA AddressesAreEmails == Addresses \subseteq Emails \cup {None}
<1> SUFFICES ASSUME NEW a \in Accounts PROVE FetchUserEmail(a) \in Emails \cup {None}
  BY DEF Addresses
<1> DEFINE emails == Profile[a].emails
           primary == PrimaryEmails(a)
<1>1. emails \in Seq(EmailsOf(a))
  BY SignInAssumption
<1>2. \A i \in DOMAIN emails : emails[i] \in EmailsOf(a)
  BY DEF EmailsOf
<1>3. Profile[a].email \in Emails /\ \A e \in EmailsOf(a) : e.email \in Emails
  BY DEF Emails
<1>4. ASSUME primary # {} PROVE emails[Min(primary)].email \in Emails
  <2>1. primary \subseteq DOMAIN emails /\ DOMAIN emails \subseteq Nat
    BY <1>1 DEF PrimaryEmails
  <2>2. primary \in SUBSET Nat
    BY <2>1
  <2> HIDE DEF primary
  <2>3. \E n \in primary : \A m \in primary : n <= m
    BY <1>4, <2>2, LeastNat
  <2>4. Min(primary) \in primary
    BY <2>3 DEF Min
  <2> QED BY <1>2, <1>3, <2>1, <2>4
<1>5. ASSUME emails # <<>> PROVE Head(emails).email \in Emails
  <2>1. 1 \in DOMAIN emails /\ Head(emails) = emails[1]
    BY <1>1, <1>5
  <2> QED BY <1>2, <1>3, <2>1
<1> QED BY <1>3, <1>4, <1>5 DEF FetchUserEmail

LEMMA AskedMove ==
  ASSUME SignInInv, SignInAsked, NEW t \in Tabs, NEW new, tabs' = [tabs EXCEPT ![t] = new],
         jar' \in Held, starts' <= MaxStarts, new.token # 0,
         new.at \in {"redirected", "login"} => new.want \in Paths \cup {None},
         new.cookie # None => Asked(new.cookie)
  PROVE  SignInAsked'
<1>1. tabs'[t] = new /\ \A u \in Tabs \ {t} : tabs'[u] = tabs[u]
  BY DEF SignInInv, Shapes
<1>2. \A s \in Held' : s \in Held \/ (s = new.cookie /\ s # None)
  BY <1>1 DEF Held
<1>3. \A s \in Held' : Asked(s)
  BY <1>2 DEF SignInAsked
<1> QED BY <1>1, <1>3 DEF SignInAsked, Asked

LEMMA AskedAnswer ==
  ASSUME SignInInv, SignInAsked, NEW t \in Tabs, NEW at, NEW want, NEW token, NEW cookie,
         Answer(t, at, want, token, cookie), UNCHANGED jar, starts' <= MaxStarts, token # 0,
         at \in {"redirected", "login"} => want \in Paths \cup {None},
         cookie # None => Asked(cookie)
  PROVE  SignInAsked'
<1> DEFINE new == [at |-> at, want |-> want, token |-> token, land |-> None, cookie |-> cookie]
<1>1. tabs' = [tabs EXCEPT ![t] = new]
  BY DEF Answer
<1>2. new.token = token /\ new.at = at /\ new.want = want /\ new.cookie = cookie
  OBVIOUS
<1>3. jar' \in Held
  BY DEF Held
<1> HIDE DEF new
<1> QED BY <1>1, <1>2, <1>3, AskedMove

LEMMA AskedStep ==
  ASSUME SignInInv, SignInAsked, [SignInNext]_signVars
  PROVE  SignInAsked'
<1>1. /\ starts \in Nat /\ jar \in Session /\ tabs \in [Tabs -> Tab] /\ starts <= MaxStarts
      /\ Asked(jar) /\ None # 0 /\ jar \in Held
  BY Constants DEF SignInInv, Shapes, SignInAsked, Held
<1>2. CASE UNCHANGED signVars
  BY <1>2 DEF signVars, SignInAsked, Held, Asked
<1>3. ASSUME NEW t \in Tabs, NEW p \in Paths, ServePage(t, p) \/ RedirectToLogin(t, p)
      PROVE  SignInAsked'
  <2>1. \/ \E at \in {"served"} : Answer(t, at, p, None, None)
        \/ Answer(t, "redirected", SanitizeNext(p), None, None)
    BY <1>3 DEF ServePage, RedirectToLogin
  <2>2. UNCHANGED <<jar, starts>>
    BY <1>3 DEF ServePage, RedirectToLogin
  <2>3. SanitizeNext(p) \in Paths \cup {None}
    BY DEF SanitizeNext
  <2> QED BY <1>1, <2>1, <2>2, <2>3, AskedAnswer
<1>4. ASSUME NEW t \in Tabs,
             \/ RefusePage(t) \/ CannotStart(t) \/ ProviderRefuses(t) \/ InvalidState(t)
             \/ ExchangeFails(t)
      PROVE  SignInAsked'
  <2>1. Answer(t, "refused", None, None, None) /\ UNCHANGED <<jar, starts>>
    BY <1>4 DEF RefusePage, CannotStart, ProviderRefuses, InvalidState, ExchangeFails
  <2> QED BY <1>1, <2>1, AskedAnswer
<1>5. ASSUME NEW t \in Tabs, Logout(t) PROVE SignInAsked'
  <2>1. Answer(t, "served", Root, None, NoSession) /\ UNCHANGED <<jar, starts>>
    BY <1>5 DEF Logout
  <2>2. Asked(NoSession)
    BY <1>1 DEF NoSession, Asked
  <2> QED BY <1>1, <2>1, <2>2, AskedAnswer
<1>6. ASSUME NEW t \in Tabs, Leave(t) PROVE SignInAsked'
  <2>1. BlankTab.token = None /\ BlankTab.at = "page" /\ BlankTab.cookie = None
    BY DEF BlankTab
  <2>2. tabs' = [tabs EXCEPT ![t] = BlankTab] /\ UNCHANGED <<jar, starts>>
    BY <1>6 DEF Leave
  <2> QED BY <1>1, <2>1, <2>2, AskedMove
<1>7. ASSUME NEW t \in Tabs PROVE NextParam(t) \in Paths \cup {None}
  <2>1. tabs[t].at = "login" => tabs[t].want \in Paths \cup {None}
    BY DEF SignInAsked
  <2> QED BY <2>1 DEF NextParam
<1>8. ASSUME NEW t \in Tabs, StartOAuth(t) PROVE SignInAsked'
  <2> DEFINE want == NextParam(t)
             cookie == [jar EXCEPT !.state = starts + 1,
                                   !.next = IF want # None THEN want ELSE @]
  <2>1. /\ Answer(t, "to_provider", want, starts + 1, cookie) /\ UNCHANGED jar
        /\ starts' <= MaxStarts /\ want \in Paths \cup {None}
    BY <1>1, <1>7, <1>8, SignInAssumption DEF StartOAuth
  <2> HIDE DEF want
  <2>2. Asked(cookie) /\ starts + 1 # 0
    BY <1>1, <2>1 DEF Asked, Session
  <2> HIDE DEF cookie
  <2> QED BY <2>1, <2>2, AskedAnswer
<1>9. ASSUME NEW t \in Tabs, NEW session, NEW want, Asked(session), Land(t, want, session),
             UNCHANGED <<jar, starts>>, session \in Session
      PROVE  SignInAsked'
  <2> DEFINE cookie == [session EXCEPT !.next = None]
             new == [at |-> "landed", want |-> want, token |-> None,
                     land |-> IF session.next # None THEN session.next ELSE Root,
                     cookie |-> cookie]
  <2>1. tabs' = [tabs EXCEPT ![t] = new]
    BY <1>9 DEF Land
  <2>2. Asked(cookie)
    BY <1>9 DEF Asked, Session
  <2> HIDE DEF cookie
  <2>3. new.token = None /\ new.at = "landed" /\ new.cookie = cookie
    OBVIOUS
  <2> HIDE DEF new
  <2> QED BY <1>1, <1>9, <2>1, <2>2, <2>3, AskedMove
<1>10. ASSUME NEW t \in Tabs, CustomLogin(t) PROVE SignInAsked'
  <2> DEFINE want == NextParam(t)
             session == [jar EXCEPT !.next = IF want # None THEN want ELSE @]
  <2>1. /\ Land(t, want, session) \/ Answer(t, "refused", None, None, session)
        /\ UNCHANGED <<jar, starts>> /\ want \in Paths \cup {None}
    BY <1>7, <1>10 DEF CustomLogin
  <2> HIDE DEF want
  <2>2. Asked(session) /\ session \in Session
    BY <1>1, <2>1 DEF Asked, Session, Wanted
  <2> HIDE DEF session
  <2> QED BY <1>1, <1>9, <2>1, <2>2, AskedAnswer
<1>11. ASSUME NEW t \in Tabs, DenyLogin(t) PROVE SignInAsked'
  <2> DEFINE cookie == [jar EXCEPT !.state = None]
  <2>1. Answer(t, "refused", None, None, cookie) /\ UNCHANGED <<jar, starts>>
    BY <1>11 DEF DenyLogin
  <2>2. Asked(cookie)
    BY <1>1 DEF Asked, Session
  <2> HIDE DEF cookie
  <2> QED BY <1>1, <2>1, <2>2, AskedAnswer
<1>12. ASSUME NEW t \in Tabs, NEW a \in Accounts, CompleteLogin(t, a) PROVE SignInAsked'
  <2> DEFINE email == FetchUserEmail(a)
             session == [jar EXCEPT !.auth = email, !.state = None]
  <2>1. Land(t, tabs[t].want, session) /\ UNCHANGED <<jar, starts>>
    BY <1>12 DEF CompleteLogin
  <2>2. email \in Addresses
    BY DEF Addresses
  <2> HIDE DEF email
  <2>3. Asked(session) /\ session \in Session
    BY <1>1, <2>2 DEF Asked, Session
  <2> HIDE DEF session
  <2> QED BY <1>9, <2>1, <2>3
<1>13. ASSUME NEW t \in Tabs, Receive(t) PROVE SignInAsked'
  <2> DEFINE at == Arrives[tabs[t].at]
             new == IF at = "page" THEN BlankTab ELSE [tabs[t] EXCEPT !.at = at, !.cookie = None]
  <2>1. /\ tabs[t].at \in DOMAIN Arrives /\ starts' = starts
        /\ jar' = IF tabs[t].cookie # None THEN tabs[t].cookie ELSE jar
    BY <1>13 DEF Receive
  <2>2. tabs' = [tabs EXCEPT ![t] = new]
    BY <1>13 DEF Receive
  <2>3. at \in {"page", "login", "provider"} /\ (at = "login" => tabs[t].at = "redirected")
    BY <2>1 DEF Arrives
  <2> HIDE DEF at
  <2>4. /\ new.token # 0 /\ new.cookie = None
        /\ new.at \in {"redirected", "login"} => new.want \in Paths \cup {None}
    <3>1. CASE at = "page"
      BY <1>1, <3>1 DEF BlankTab
    <3>2. CASE at # "page"
      <4>1. tabs[t] \in Tab /\ tabs[t].token # 0
        BY <1>1 DEF SignInAsked
      <4>2. tabs[t].at = "redirected" => tabs[t].want \in Paths \cup {None}
        BY DEF SignInAsked
      <4>3. new.token = tabs[t].token /\ new.cookie = None /\ new.at = at /\ new.want = tabs[t].want
        BY <3>2, <4>1 DEF Tab
      <4> HIDE DEF new
      <4> QED BY <2>3, <3>2, <4>1, <4>2, <4>3
    <3> QED BY <3>1, <3>2
  <2> HIDE DEF new
  <2>5. jar' \in Held
    BY <2>1 DEF Held
  <2> QED BY <1>1, <2>1, <2>2, <2>4, <2>5, AskedMove
<1> QED BY <1>2, <1>3, <1>4, <1>5, <1>6, <1>8, <1>10, <1>11, <1>12, <1>13 DEF SignInNext

(* Whatever cookie the browser ends up with, it names an address of an account, a
   sign-in that was begun, and a page behind the sign-in. *)
THEOREM SignInTypesKept == SignInSpec => []SignInTypeOK
<1>1. SignInInit => SignInAsked
  <2> SUFFICES ASSUME SignInInit PROVE SignInAsked
    OBVIOUS
  <2>1. BlankTab.token = None /\ BlankTab.at = "page" /\ BlankTab.cookie = None /\ None # 0
    BY Constants DEF BlankTab
  <2>2. Held = {NoSession} /\ Asked(NoSession)
    BY <2>1 DEF SignInInit, Held, NoSession, Asked
  <2> QED BY <2>1, <2>2, SignInAssumption DEF SignInInit, SignInAsked
<1>2. SignInInv /\ SignInAsked /\ [SignInNext]_signVars => SignInAsked'
  BY AskedStep
<1>3. SignInInv /\ SignInAsked => SignInTypeOK
  <2> SUFFICES ASSUME SignInInv, SignInAsked PROVE SignInTypeOK
    OBVIOUS
  <2>1. jar \in Session /\ tabs \in [Tabs -> Tab] /\ starts \in 0 .. MaxStarts /\ jar \in Held
    BY SignInAssumption DEF SignInInv, Shapes, SignInAsked, Held
  <2>2. jar.auth \in Emails \cup {None}
    BY <2>1, AddressesAreEmails DEF Session
  <2>3. /\ jar.state \in 1 .. starts \cup {None} /\ jar.next \in Paths \cup {None}
    BY <2>1 DEF Session, SignInInv, TokensBegun, SignInAsked, Asked
  <2>4. ASSUME NEW t \in Tabs
        PROVE  /\ tabs[t].at \in DOMAIN Arrives \cup {"page", "login", "provider"}
               /\ tabs[t].want \in Paths \cup {Root, None} /\ tabs[t].land \in Paths \cup {Root, None}
               /\ tabs[t].token \in 1 .. starts \cup {None}
    <3>1. tabs[t] \in Tab
      BY <2>1
    <3>2. tabs[t].token \in 1 .. starts \cup {None}
      <4>1. tabs[t].token \in Nat \cup {None} /\ starts \in Nat
        BY <2>1, <3>1 DEF Tab
      <4>2. tabs[t].token # 0 /\ (tabs[t].token # None => tabs[t].token <= starts)
        BY DEF SignInInv, TokensBegun, SignInAsked
      <4> QED BY <4>1, <4>2
    <3> QED BY <3>1, <3>2 DEF Tab, Wanted
  <2> QED BY <2>1, <2>2, <2>3, <2>4 DEF SignInTypeOK
<1> QED BY <1>1, <1>2, <1>3, SignInInvHolds, PTL DEF SignInSpec

-----------------------------------------------------------------------------
(* The web console as it is checked: six parts, one of which moves. *)

LEMMA EachPart ==
  ASSUME NEW p \in {"pages", "sign-in", "console", "graph", "schedules", "retry"}, part = p,
         [WebNext]_webVars
  PROVE  /\ [PagesNext]_pageVars /\ [SignInNext]_signVars /\ [ConsoleNext]_consoleVars
         /\ [GraphNext]_graphVars /\ [SchedulesNext]_scheduleVars /\ [RetryNext]_retryVars
<1>1. CASE UNCHANGED webVars
  BY <1>1 DEF webVars
<1>2. CASE WebNext
  BY <1>2 DEF WebNext, PagesPart, SignInPart, ConsolePart, GraphPart, SchedulesPart, RetryPart, Rest
<1> QED BY <1>1, <1>2

PartKnown == part \in {"pages", "sign-in", "console", "graph", "schedules", "retry"}

LEMMA EachPartBehaves ==
  WebSpec => /\ PagesSpec /\ SignInSpec /\ ConsoleSpec
             /\ GraphSpec /\ SchedulesSpec /\ RetrySpec
<1>1. WebInit => /\ PagesInit /\ SignInInit /\ ConsoleInit
                 /\ GraphInit /\ SchedulesInit /\ RetryInit /\ PartKnown
  BY DEF WebInit, PartKnown
<1>2. PartKnown /\ [WebNext]_webVars => PartKnown'
  BY DEF PartKnown, WebNext, webVars
<1>3. PartKnown /\ [WebNext]_webVars =>
        /\ [PagesNext]_pageVars /\ [SignInNext]_signVars /\ [ConsoleNext]_consoleVars
        /\ [GraphNext]_graphVars /\ [SchedulesNext]_scheduleVars /\ [RetryNext]_retryVars
  BY EachPart DEF PartKnown
<1> QED
  BY <1>1, <1>2, <1>3, PTL
  DEF WebSpec, PagesSpec, SignInSpec, ConsoleSpec, GraphSpec, SchedulesSpec, RetrySpec

(* The six parts keep their types side by side. *)
THEOREM WebTypesKept == WebSpec => []WebTypeOK
<1>1. PagesTypeOK /\ SignInTypeOK /\ ConsoleTypeOK /\ GraphTypeOK /\ SchedulesTypeOK /\ RetryTypeOK
        => WebTypeOK
  BY DEF WebTypeOK
<1> QED
  BY <1>1, EachPartBehaves, PagesTyped, SignInTypesKept, ConsoleTypesKept, GraphTypesKept,
     ScheduleTypesKept, RetryTypesKept, PTL
=============================================================================
