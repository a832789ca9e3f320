----------------------------- MODULE VlmClient -----------------------------
(***************************************************************************)
(* The vision model: VLMClient (vlm/client.py) with its failover over      *)
(* several endpoints, its cache of verdicts (transport/vlm_cache.py, one   *)
(* database for all processes of the user), the points it localizes, and   *)
(* the agent loop that drives the screen with it (vlm/agent.py).           *)
(*                                                                         *)
(* What a model answers is free.  A screenshot is a number, and so is the  *)
(* hour; one question is asked about every screenshot.                     *)
(***************************************************************************)
EXTENDS Process, SequencesExt

CONSTANTS Endpoints,   \* number of URLs
          Images,      \* screenshots
          Hours,       \* bound on the clock
          TTL,         \* hours that a cached verdict is good for
          Width,       \* of the screen, in pixels
          Coords,      \* x coordinates that a model may answer
          Turns        \* budget of the agent

ASSUME VlmAssumption == /\ Endpoints \in Nat \ {0} /\ TTL \in Nat /\ Width \in Nat \ {0} /\ Turns \in Nat
                        /\ Coords \subseteq Int

VARIABLES
  mode,     \* what was asked for
  image,    \* the screenshot in hand
  turn,     \* of the agent
  attempt,  \* of localize
  oob,      \* answers that were off the screen
  tries,    \* attempts of _call_with_failover
  primary,  \* _primary_idx
  tried,    \* endpoint -> its failures in this call (ghost)
  samples,  \* votes, or points
  round,    \* of localize_consistent
  point,    \* what localize returned
  hour,
  cache,    \* image -> [verdict, at], or NoVerdict
  given,    \* image -> verdict -> when a model last gave it (ghost)
  result    \* [kind, ...]: what the call came to

counters == <<turn, attempt, oob, tries, samples, round>>
vVars    == <<mode, image, primary, tried, point, hour, cache, given, result, counters>>

NoVerdict == [at |-> -1]
NoResult  == [kind |-> "none"]
Untried   == [e \in 0..(Endpoints - 1) |-> 0]
VInit == /\ mode = "none" /\ image = 0 /\ turn = 0 /\ attempt = 0 /\ oob = 0 /\ tries = 0 /\ primary = 0
         /\ tried = Untried /\ samples = <<>> /\ round = 0 /\ point = 0 /\ hour = 0
         /\ cache = [i \in Images |-> NoVerdict] /\ given = [i \in Images |-> [v \in BOOLEAN |-> -1]]
         /\ result = NoResult

Modes == {"verify", "verify_consistent", "localize", "localize_verified", "localize_consistent", "agent"}
First(m) == CASE m = "verify" -> "v.lookup"
              [] m = "agent"  -> "v.turn"
              [] OTHER        -> "v.call"
StartVlm == /\ At("main") /\ image' \in Images /\ \E m \in Modes : mode' = m /\ Goto(First(m))
            /\ UNCHANGED <<faults, primary, tried, point, hour, cache, given, result, counters>>

Store == UNCHANGED <<hour, cache, given>>
Ends(r) == result' = r /\ Exit(IF r.kind = "error" THEN 1 ELSE 0)

\* is the call under way one about a yes or no that is cached?
Verifying == mode \in {"verify", "crop"} \/ (mode = "agent" /\ result.kind = "check")
-----------------------------------------------------------------------------
(* VLMCache *)

\* mutant: entries do not expire
Young_ever(row) == row # NoVerdict

\* get: a row whose age is over is a miss
Young(row) == row # NoVerdict /\ row.at >= hour - TTL
Told(i, verdict, h) == given' = [given EXCEPT ![i][verdict] = h]
\* another process asks about the same screenshot, and puts its verdict (where that
\* can make a difference: before a look-up, and before this process puts its own)
OtherPuts == /\ pc = "v.lookup" \/ (pc = "v.reply" /\ Verifying)
             /\ \E v \in BOOLEAN : cache' = [cache EXCEPT ![image] = [verdict |-> v, at |-> hour]] /\ Told(image, v, hour)
             /\ UNCHANGED <<process, mode, image, primary, tried, point, hour, result, counters>>
\* (a verdict that was read or given is returned at once)
TimeGoesOn == /\ (pc = "v.lookup" \/ (pc = "v.reply" /\ Verifying)) /\ hour < Hours /\ hour' = hour + 1
              /\ UNCHANGED <<process, mode, image, primary, tried, point, cache, given, result, counters>>

\* verify_consistent does not look here
Lookup == /\ At("v.lookup") /\ Goto(IF Young(cache[image]) THEN "v.verdict" ELSE "v.call")
          /\ samples' = IF Young(cache[image]) THEN <<cache[image].verdict>> ELSE <<>>
          /\ UNCHANGED <<faults, mode, image, primary, tried, point, result, turn, attempt, oob, tries, round>> /\ Store

-----------------------------------------------------------------------------
(* _call_with_failover *)

Asking     == UNCHANGED <<faults, mode, image, point, result, turn, attempt, oob, samples, round>> /\ Store
Endpoint   == (primary + tries) % Endpoints
Exhausted  == tries >= 3 * Endpoints
Replies    == /\ At("v.call") /\ ~Exhausted /\ Goto("v.reply")
              /\ primary' = Endpoint /\ tries' = 0 /\ tried' = Untried /\ Asking
\* connection, time-out, 429, 5xx
FailsOver  == /\ At("v.call") /\ ~Exhausted /\ Goto("v.call")
              /\ tries' = tries + 1 /\ tried' = [tried EXCEPT ![Endpoint] = @ + 1]
              /\ UNCHANGED primary /\ Asking
\* any other status
RaisesVlm  == /\ At("v.call") /\ ~Exhausted /\ Goto("v.raised") /\ tries' = 0 /\ tried' = Untried
              /\ UNCHANGED primary /\ Asking
GivesUp    == /\ At("v.call") /\ Exhausted /\ Goto("v.raised") /\ tries' = 0 /\ UNCHANGED <<primary, tried>> /\ Asking

-----------------------------------------------------------------------------
(* localize *)

\* towards zero, as int() does
Pixel(x)    == IF x > 1000 THEN x ELSE IF x < 0 THEN -((-x * Width) \div 1000) ELSE (x * Width) \div 1000
OnScreen(p) == 0 <= p /\ p <= Width
Localizing  == mode \in {"localize", "localize_verified"} \/ (mode = "agent" /\ result.kind = "click")
Shoot(next)  == /\ Goto(next) /\ UNCHANGED <<faults, mode, image, primary, turn, tries, samples, round, result>> /\ Store
Reset       == attempt' = 0 /\ oob' = 0

\* six attempts, of which the third that is off the screen is the last
Again(o) == IF o >= 3 \/ attempt >= 5 THEN Shoot("v.nopoint") /\ Reset
            ELSE Shoot("v.call") /\ attempt' = attempt + 1 /\ oob' = o
PointAnswered ==
  /\ At("v.reply") /\ Localizing
  /\ \/ \E x \in Coords : IF OnScreen(Pixel(x)) THEN Shoot("v.point") /\ point' = Pixel(x) /\ Reset
                          ELSE Again(oob + 1) /\ UNCHANGED point
     \/ Again(oob) /\ UNCHANGED point           \* not to be parsed
  /\ UNCHANGED tried
\* a call that raised, for all endpoints are exhausted perhaps, is an attempt too
PointRaises == At("v.raised") /\ Localizing /\ Again(oob) /\ tried' = Untried /\ UNCHANGED point

\* the crop around the point is another screenshot
Localized == /\ At("v.point")
             /\ CASE mode = "localize" -> /\ Ends([kind |-> "point", x |-> point]) /\ UNCHANGED <<mode, image>>
                  [] mode = "localize_verified" ->
                       /\ Goto("v.lookup") /\ image' \in Images /\ mode' = "crop" /\ UNCHANGED result
                  [] OTHER          -> Goto("v.settle") /\ result' = NoResult /\ UNCHANGED <<mode, image>>
             /\ UNCHANGED <<faults, primary, tried, point, counters>> /\ Store
\* VLMError: for the agent, one bad turn
NotLocalized == /\ At("v.nopoint")
                /\ IF mode = "agent" THEN Goto("v.turn") /\ result' = NoResult ELSE Ends([kind |-> "error", why |-> "point"])
                /\ UNCHANGED <<faults, mode, image, primary, tried, point, counters>> /\ Store

\* localize_consistent: three samples, and three more when they are scattered
Sampled ==
  /\ At("v.reply") /\ mode = "localize_consistent"
  /\ UNCHANGED <<faults, mode, image, primary, tried, turn, attempt, oob, tries>> /\ Store
  /\ \E x \in Coords :
       IF ~OnScreen(Pixel(x)) THEN Ends([kind |-> "error", why |-> "point"]) /\ UNCHANGED <<samples, round, point>>
       ELSE IF Len(samples) < 2 THEN samples' = Append(samples, Pixel(x)) /\ Goto("v.call") /\ UNCHANGED <<round, point, result>>
       ELSE LET all   == Append(samples, Pixel(x))
                mean  == (all[1] + all[2] + all[3]) \div 3
                close == \A p \in ToSet(all) : p - mean <= 50 /\ mean - p <= 50 IN
            IF close THEN point' = mean /\ Ends([kind |-> "point", x |-> mean]) /\ samples' = <<>> /\ UNCHANGED round
            ELSE IF round = 0 THEN samples' = <<>> /\ round' = 1 /\ Goto("v.call") /\ UNCHANGED <<point, result>>
            ELSE samples' = <<>> /\ Ends([kind |-> "error", why |-> "point"]) /\ UNCHANGED <<point, round>>

-----------------------------------------------------------------------------
(* verify, verify_with_meta, verify_consistent *)

\* neither yes nor no is a no; put
Answered  == /\ At("v.reply") /\ Verifying /\ Goto("v.verdict")
             /\ \E v \in BOOLEAN : /\ samples' = <<v>>
                                   /\ cache' = [cache EXCEPT ![image] = [verdict |-> v, at |-> hour]]
                                   /\ Told(image, v, hour)
             /\ UNCHANGED <<faults, mode, image, primary, tried, point, hour, result, turn, attempt, oob, tries, round>>
\* two of three
Voted     == /\ At("v.reply") /\ mode = "verify_consistent"
             /\ \E v \in BOOLEAN :
                  LET votes == Append(samples, v) IN
                  IF Len(votes) < 3 THEN samples' = votes /\ Goto("v.call") /\ UNCHANGED result
                  ELSE /\ samples' = <<>>
                       /\ Ends([kind |-> "votes", votes |-> votes,
                                verdict |-> Cardinality({i \in 1..3 : votes[i]}) > Cardinality({i \in 1..3 : ~votes[i]})])
             /\ UNCHANGED <<faults, mode, image, primary, tried, point, turn, attempt, oob, tries, round>> /\ Store

Said   == Head(samples)
Decided   == /\ At("v.verdict")
             /\ CASE mode = "verify" -> Ends([kind |-> "verdict", verdict |-> Said, image |-> image])
                  [] mode = "crop"   -> Ends(IF Said THEN [kind |-> "point", x |-> point]
                                                        ELSE [kind |-> "error", why |-> "denied"])
                  [] OTHER           -> IF Said THEN Ends([kind |-> "success", verdict |-> TRUE, image |-> image])
                                        ELSE Goto("v.turn") /\ result' = NoResult
             /\ samples' = IF mode = "agent" /\ ~Said THEN <<>> ELSE samples
             /\ UNCHANGED <<faults, mode, image, primary, tried, point, turn, attempt, oob, tries, round>> /\ Store
\* the check of the agent is inside a try block; so is its choice of an action
Raised    == /\ At("v.raised") /\ ~Localizing
             /\ IF mode = "agent" THEN IF result.kind = "check" THEN Goto("v.turn") /\ result' = NoResult
                                       ELSE Ends([kind |-> "giveup"])
                ELSE Ends([kind |-> "error", why |-> IF tried = Untried THEN "raised" ELSE "exhausted"])
             /\ tried' = IF mode = "agent" THEN Untried ELSE tried
             /\ UNCHANGED <<faults, mode, image, primary, point, counters>> /\ Store

-----------------------------------------------------------------------------
(* AgentLoop.run *)

Agent(next) == /\ Goto(next) /\ UNCHANGED <<faults, mode, primary, tried, point, attempt, oob, tries, samples, round>> /\ Store
\* a screenshot that cannot be taken costs a turn
Turn == /\ At("v.turn")
        /\ IF turn >= Turns
           THEN /\ Ends([kind |-> "budget"])
                /\ UNCHANGED <<faults, mode, image, turn, primary, tried, point, attempt, oob, tries, samples, round>> /\ Store
           ELSE /\ turn' = turn + 1
                /\ \/ Agent("v.turn") /\ UNCHANGED <<image, result>>
                   \/ Agent("v.call") /\ image' \in Images /\ result' = [kind |-> "choose"]
\* done is taken at its word; an answer that is no action is giveup
Chosen == /\ At("v.reply") /\ mode = "agent" /\ result.kind = "choose"
          /\ \/ Ends([kind |-> "done"])
             \/ Ends([kind |-> "giveup"])
             \/ Goto("v.call") /\ result' = [kind |-> "click"]
             \/ Goto("v.settle") /\ result' = NoResult       \* type, key, wait
             \/ Goto("v.turn") /\ result' = NoResult         \* the dispatch raises
          /\ UNCHANGED <<faults, mode, image, primary, tried, point, counters>> /\ Store
\* wait_for_stable; then the success check, if there is one, on a new screenshot
Settle == /\ At("v.settle")
          /\ \/ Agent("v.turn") /\ UNCHANGED <<image, result>>
             \/ Agent("v.lookup") /\ image' \in Images /\ result' = [kind |-> "check"]
          /\ UNCHANGED turn

VMain == \/ Lookup \/ Replies \/ FailsOver \/ RaisesVlm \/ GivesUp \/ PointAnswered \/ PointRaises \/ Localized
         \/ NotLocalized \/ Sampled \/ Answered \/ Voted \/ Decided \/ Raised \/ Turn \/ Chosen \/ Settle
VNext == VMain \/ OtherPuts \/ TimeGoesOn

-----------------------------------------------------------------------------
(* Properties *)

\* What the client answers is sound: a verdict was given for this very screenshot no
\* longer ago than the lifetime of the cache, by this process or another; a majority
\* is one; a point is on the screen, after retries and verification as well; and it
\* says that all endpoints are exhausted only after each has failed three times.
SoundAnswers ==
  /\ result.kind \in {"verdict", "success"} =>
       /\ given[result.image][result.verdict] >= 0
       /\ given[result.image][result.verdict] >= hour - TTL
  /\ result.kind = "votes" => Cardinality({i \in 1..3 : result.votes[i] = result.verdict}) >= 2
  /\ result.kind = "point" => OnScreen(result.x)
  /\ result.kind = "error" /\ result.why = "exhausted" => \A e \in DOMAIN tried : tried[e] = 3
=============================================================================
