----------------------------- MODULE MCRequests -----------------------------
(***************************************************************************)
(* The instance of module Requests for TLC.  Every run starts in one of    *)
(* five scenes, each with the requests that meet in it.                    *)
(***************************************************************************)
EXTENDS Requests, FiniteSets

CONSTANTS c1, c2, c3, h1, h2, p1, p2, r1

MCHeaders == {
  [app |-> "uz", accept |-> <<>>],
  [app |-> "none", accept |-> <<[lang |-> "fr", q |-> 10], [lang |-> "uz", q |-> 0],
                                [lang |-> "ru", q |-> 8], [lang |-> "en", q |-> 8]>>]}

AppHeader == CHOOSE header \in MCHeaders : header.app = "uz"

VARIABLES scene, cast \* the routes that are asked for

(* The account logged in once. *)
LoggedIn ==
  /\ session = [id |-> 1, hash |-> 1]
  /\ locator = [t \in Tokens |-> IF t = 1 THEN 1 ELSE None]
  /\ password \in Passwords /\ unused = Resets /\ issued = 1 /\ ended = {}
  /\ heirs = [t \in Tokens |-> {}]
  /\ request = [c \in Conns |-> None]

Gets == {r \in DOMAIN Routes : Routes[r].get}

Pairs == {<<get, m>> \in Gets \X DOMAIN Routes : Touches(m, get)}

(* Every GET with a command it has to show, every command with such a GET. *)
Casts ==
  {LET m == CHOOSE m \in DOMAIN Routes : <<get, m>> \in Pairs IN {get, m} : get \in Gets}
  \cup {LET get == CHOOSE get \in Gets \ {"check"} : <<get, m>> \in Pairs IN {get, m} :
         m \in {pair[2] : pair \in Pairs}}

(* What clients send. *)
Offered ==
  CASE scene \in {"routes", "faults"} ->
         {[route |-> r, bearer |-> IF r \in DOMAIN Private THEN Account ELSE None, sid |-> 1,
           header |-> AppHeader] : r \in cast}
    [] scene = "errors" ->
         [route : cast, bearer : {None, "bad", Account, Other}, sid : {1}, header : {AppHeader}]
    [] OTHER ->
         [route : cast, bearer : {None, "bad", Other}, sid : {1}, header : Headers]
         \cup [route : cast, bearer : {Account}, sid : {1, 2}, header : Headers]

SceneInit ==
  /\ HttpInit
  /\ \/ scene = "sessions" /\ cast = {} /\ Init
     \/ LoggedIn /\ \/ scene = "routes" /\ cast \in Casts
                    \/ scene = "errors" /\ \E r \in DOMAIN Routes : cast = {r}
                    \/ scene = "faults" /\ cast = {"me", "patch_me"}
                    \/ scene = "keys" /\ cast \in {{"me"}, {"check"}}

Calls(P(_)) == \A c \in Clients : call[c] # None => P(c)

(* One client asks, the other one commands. *)
OneEach == Calls(LAMBDA c : call[c].route \in Gets <=> c = h1)

Alone == Calls(LAMBDA c : c = h1)

NoFaults ==
  Calls(LAMBDA c : /\ ~call[c].late /\ ~call[c].missed
                   /\ call[c].known # None /\ call[c].route \in Gets =>
                        call[c].keys # <<>> \/ Doing(c, "cache"))

Meet ==
  \/ scene = "sessions"
  \/ /\ scene \in {"routes", "errors", "faults"}
     /\ issued = 1 /\ ended = {} /\ request = [c \in Conns |-> None]
     /\ \/ scene = "routes" /\ OneEach /\ NoFaults
                            /\ Calls(LAMBDA c : call[c].answer # None => call[c].answer.status < 400)
        \/ scene = "errors" /\ Alone
        \/ scene = "faults" /\ OneEach
  \/ /\ scene = "keys" /\ Alone /\ NoFaults
     /\ issued <= 2 /\ Cardinality(DOMAIN entry) <= 2
     /\ cast = {"check"} => session # None /\ issued = 1
     /\ \A c, d \in Conns : request[c] # None =>
          request[c].op = "login" /\ cast = {"me"} /\ (request[d] # None => c = d)

SceneStep ==
  /\ ServerStep(Offered)
  /\ UNCHANGED <<scene, cast>>
  /\ scene # "keys" => DOMAIN entry \subseteq DOMAIN entry'
  /\ Meet'

SceneSpec == SceneInit /\ [][SceneStep]_<<vars, httpVars, scene, cast>>

Alike == Permutations({c1, c2, c3}) \cup Permutations({p1, p2})
=============================================================================
