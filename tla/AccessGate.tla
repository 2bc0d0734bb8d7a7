----------------------------- MODULE AccessGate -----------------------------
(***************************************************************************)
(* The gates of the two public channels: BanService, SpamDetectorService   *)
(* and RateLimitService over Redis, AppAbuseService and the guest sessions *)
(* in front of the App Message API, and passesAbuseChecks in front of the  *)
(* LINE events.  A call is a chain of awaits; each Redis or database       *)
(* command is a step of its own, so the calls of a customer interleave,    *)
(* Redis goes away between two of them, and a process may die.             *)
(*                                                                         *)
(* Time is a clock of ticks: every counter, ban and text has the tick at   *)
(* which its key expires.  One network stands for the IP the guests share. *)
(* A guest is made with its session, so a guest is its session.            *)
(***************************************************************************)
EXTENDS Integers, FiniteSets

CONSTANTS Guests, LineUsers, Network, Nobody,
          Callers,        \* requests or jobs that may be in flight together
          Texts, Stuffed, \* texts, and those too long or full of links
          Limit, Window,  \* by layer: the limit and the ticks of its window
          StrikeWindow, BanTicks,        \* BanTicks[n]: ban of strike n = 3, 4, 5
          SameTextLimit, SameTextWindow,
          MaxSessions, SessionTtl, SessionMaxAge, SessionTouch,
          EarlierStrikes, \* strikes everybody already has in this window
          Mixes,          \* bound: the kinds of calls that meet in one behaviour
          Horizon, MaxArrivals, MaxFaults  \* bounds: ticks; calls; outages, deaths and bans

ContactLayers == {"burst", "contactDay", "lineBurst", "lineHour", "aiUser"}
NetworkLayers == {"ipMin", "ipDay", "total", "sessions", "authfail", "reads", "aiGlobal"}
Layers        == ContactLayers \cup NetworkLayers
FailOpen      == {"lineBurst", "lineHour", "aiGlobal", "aiUser"}
Contacts      == Guests \cup LineUsers
Subjects      == Contacts \cup {Network}

ASSUME GateAssumption ==
  /\ \A l \in Layers : Limit[l] \in Nat /\ Window[l] \in Nat \ {0}
  /\ EarlierStrikes \in 0 .. 2 /\ SameTextLimit \in Nat \ {0, 1}
  /\ StrikeWindow \in Nat /\ BanTicks \in [3 .. 5 -> Nat]
  /\ IsFiniteSet(Callers)

VARIABLES
  now,       \* the clock
  redisUp,   \* whether Redis answers
  counter,   \* [layer, owner] -> its Redis counter
  strikes,   \* subject -> its strike counter
  ban,       \* subject -> its ban key
  lastText,  \* contact -> the last text seen by the spam detector
  sameCount, \* contact -> how often it was repeated
  sessions,  \* guest -> its appGuestSession row
  calls,     \* caller -> the call it handles
  used,      \* how much of each bound is spent, and the kinds of calls
  admitted,  \* [layer, owner] -> calls that it counted and let past in this window (history)
  cut,       \* counters whose pipeline broke off before it gave them an end (history)
  offences   \* subject -> refusals it had itself to answer for (history)

redis    == <<counter, strikes, ban, lastText, sameCount>>
history  == <<admitted, cut, offences>>
gateVars == <<now, redisUp, redis, sessions, calls, used, history>>

NoCount   == [count |-> 0, ends |-> 0]
NotBanned == [kind |-> "none", ends |-> 0]
NoCopies  == [text |-> Nobody, ends |-> 0]
NoSession == [state |-> "none", created |-> 0, expires |-> 0, seen |-> 0]
Idle      == [kind |-> "idle", who |-> Nobody, text |-> Nobody, at |-> "idle",
              counted |-> "no", struck |-> Nobody, strike |-> 0]

Owner(layer, who) == IF layer \in ContactLayers THEN who ELSE Network
Counters == (ContactLayers \X Contacts) \cup (NetworkLayers \X {Network})

GateInit ==
  /\ now = 0 /\ redisUp = TRUE
  /\ counter = [k \in Counters |-> NoCount]
  /\ strikes = [s \in Subjects |-> IF EarlierStrikes = 0 THEN NoCount
                 ELSE [count |-> EarlierStrikes, ends |-> StrikeWindow]]
  /\ ban = [s \in Subjects |-> NotBanned]
  /\ lastText = [c \in Contacts |-> NoCopies]
  /\ sameCount = [c \in Contacts |-> NoCount]
  /\ sessions = [g \in Guests |-> NoSession]
  /\ calls = [c \in Callers |-> Idle]
  /\ used \in [calls : {0}, faults : {0}, kinds : Mixes]
  /\ admitted = [k \in Counters |-> 0] /\ cut = {}
  /\ offences = [s \in Subjects |-> EarlierStrikes]

-----------------------------------------------------------------------------
(* Redis *)

\* A plausible bug: only the call that created the key gives it its expiry.
OpenedByFirst(row, window) ==
  IF row.count = 1 /\ row.ends = 0 THEN [row EXCEPT !.ends = now + window] ELSE row

\* EXPIRE NX gives a key that has no expiry one.
Opened(row, window) ==
  IF row.count > 0 /\ row.ends = 0 THEN [row EXCEPT !.ends = now + window] ELSE row

\* INCR and EXPIRE NX at once.
Increment(row, window) ==
  [count |-> row.count + 1, ends |-> IF row.ends = 0 THEN now + window ELSE row.ends]

\* A key that has expired reads as absent.
Kept(row, absent, time) == IF row.ends # 0 /\ row.ends <= time THEN absent ELSE row

\* Time passes, and with it every key whose expiry has come.
Tick ==
  /\ now < Horizon
  /\ now' = now + 1
  /\ counter' = [k \in Counters |-> Kept(counter[k], NoCount, now')]
  /\ strikes' = [s \in Subjects |-> Kept(strikes[s], NoCount, now')]
  /\ ban' = [s \in Subjects |-> Kept(ban[s], NotBanned, now')]
  /\ lastText' = [c \in Contacts |-> Kept(lastText[c], NoCopies, now')]
  /\ sameCount' = [c \in Contacts |-> Kept(sameCount[c], NoCount, now')]
  /\ admitted' = [k \in Counters |-> IF counter'[k] = NoCount THEN 0 ELSE admitted[k]]
  /\ UNCHANGED <<redisUp, sessions, calls, used, cut, offences>>

\* One of the things that may happen MaxFaults times.
Fault == used.faults < MaxFaults /\ used' = [used EXCEPT !.faults = @ + 1]

RedisFails ==
  /\ redisUp /\ redisUp' = FALSE /\ Fault
  /\ UNCHANGED <<now, redis, sessions, calls, history>>

RedisReturns ==
  /\ ~redisUp /\ redisUp' = TRUE
  /\ UNCHANGED <<now, redis, sessions, calls, used, history>>

-----------------------------------------------------------------------------
(* Calls *)

At(c, step) == calls[c].at = step
Goes(c, step) == calls' = [calls EXCEPT ![c].at = step, ![c].counted = "no"]
Ends(c) == calls' = [calls EXCEPT ![c] = Idle]

\* The chain of a user's jobs: one event of a LINE user at a time.
Chained(u) == \A c \in Callers : calls[c].who # u

Arrives(c, kind, who, text, step) ==
  /\ kind \in used.kinds /\ calls[c] = Idle /\ used.calls < MaxArrivals
  /\ calls' = [calls EXCEPT ![c] = [Idle EXCEPT !.kind = kind, !.who = who,
                                     !.text = text, !.at = step]]
  /\ used' = [used EXCEPT !.calls = @ + 1]
  /\ UNCHANGED <<now, redisUp, redis, sessions, history>>

HasToken(g) == sessions[g].state # "none"

CreateSession(c) == Arrives(c, "create", Nobody, Nobody, "ipBan")
WrongToken(c)    == Arrives(c, "wrongToken", Nobody, Nobody, "ipBan")
SendMessage(c) == \E g \in Guests, t \in Texts :
  HasToken(g) /\ Arrives(c, "send", g, t, "ipBan")
ReadMessages(c) == \E g \in Guests : HasToken(g) /\ Arrives(c, "read", g, Nobody, "ipBan")
Revoke(c) == \E g \in Guests : HasToken(g) /\ Arrives(c, "revoke", g, Nobody, "ipBan")
\* Nobody as text: an image or a postback, which no spam check reads.
LineEvent(c) == \E u \in LineUsers, t \in Texts \cup {Nobody} :
  Chained(u) /\ Arrives(c, "event", u, t, "lineBan")
LineRetry(c) == \E u \in LineUsers :
  Chained(u) /\ Arrives(c, "retry", u, Nobody, "lineBan")
AiCall(c) == \E who \in Contacts \cup {Nobody} :
  Arrives(c, "ai", who, Nobody, "aiGlobal")

\* AppClientGuard: an outage refuses the call (503), a ban too (429).
AssertIpAllowed(c) ==
  /\ At(c, "ipBan")
  /\ IF redisUp /\ ban[Network] = NotBanned
     THEN Goes(c, IF calls[c].kind = "create" THEN "sessions" ELSE "auth")
     ELSE Ends(c)
  /\ UNCHANGED <<now, redisUp, redis, sessions, used, history>>

\* assertMessage begins with the guest's own ban.
AssertContactNotBanned(c) ==
  /\ At(c, "contactBan")
  /\ IF redisUp /\ ban[calls[c].who] = NotBanned THEN Goes(c, "burst") ELSE Ends(c)
  /\ UNCHANGED <<now, redisUp, redis, sessions, used, history>>

\* LINE: an outage lets the event through, a retry skips every other check.
IsBanned(c) ==
  /\ At(c, "lineBan")
  /\ IF (redisUp => ban[calls[c].who] = NotBanned) /\ calls[c].kind # "retry"
     THEN Goes(c, "lineBurst") ELSE Ends(c)
  /\ UNCHANGED <<now, redisUp, redis, sessions, used, history>>

\* What follows a layer that let the call pass.
After(call) ==
  CASE call.at = "burst"      -> "contactDay"
    [] call.at = "contactDay" -> "ipMin"
    [] call.at = "ipMin"      -> "ipDay"
    [] call.at = "ipDay"      -> IF Limit["total"] > 0 THEN "total" ELSE "spam"
    [] call.at = "total"      -> "spam"
    [] call.at = "lineBurst"  -> "lineHour"
    [] call.at = "lineHour"   -> IF call.text = Nobody THEN "idle" ELSE "spam"
    [] call.at = "sessions"   -> "sessionCount"
    [] call.at = "aiGlobal"   -> IF call.who = Nobody THEN "idle" ELSE "aiUser"
    [] OTHER                  -> "idle"

\* A plausible bug: an exhausted contact limit strikes the network.
StruckByNetwork(call) ==
  IF call.at \in {"total", "reads", "aiGlobal", "aiUser", "lineBurst", "lineHour"}
  THEN Nobody ELSE Network

\* Who is struck when the layer refuses: nobody for the shared budgets.
Struck(call) ==
  CASE call.at \in {"burst", "contactDay", "lineBurst", "lineHour"} -> call.who
    [] call.at \in {"ipMin", "ipDay", "sessions", "authfail"}       -> Network
    [] OTHER                                                        -> Nobody

Passes(c, step) == IF step = "idle" THEN Ends(c) ELSE Goes(c, step)

StrikesFor(c, s) ==
  calls' = [calls EXCEPT ![c].at = "strike", ![c].counted = "no", ![c].struck = s]

Key(call) == <<call.at, Owner(call.at, call.who)>>

\* What the caller of consume does with its verdict.
Decide(c, allowed) ==
  LET call == calls[c] IN
  /\ offences' = [s \in Subjects |->
       IF ~allowed /\ ((call.at \in ContactLayers \ {"aiUser"} /\ s = call.who)
            \/ (call.at \in {"ipMin", "ipDay", "sessions", "authfail"} /\ s = Network))
       THEN offences[s] + 1 ELSE offences[s]]
  /\ \/ allowed /\ Passes(c, After(call))
     \/ ~allowed /\ Struck(call) # Nobody /\ StrikesFor(c, Struck(call))
     \/ ~allowed /\ Struck(call) = Nobody /\ Ends(c)

\* consume sends INCRBY, EXPIRE NX and TTL in one pipeline, which is no transaction:
\* other calls and failures may come in between.  INCRBY decides ...
CountCall(c) ==
  LET call == calls[c] key == Key(call) n == counter[key].count + 1 IN
  /\ redisUp /\ call.at \in Layers /\ call.counted = "no"
  /\ counter' = [counter EXCEPT ![key].count = n]
  /\ admitted' = [admitted EXCEPT ![key] = IF n <= Limit[call.at] THEN @ + 1 ELSE @]
  /\ calls' = [calls EXCEPT ![c].counted = IF n <= Limit[call.at] THEN "within" ELSE "over"]
  /\ UNCHANGED <<now, redisUp, strikes, ban, lastText, sameCount, sessions, used, cut, offences>>

\* ... and EXPIRE NX sees to it that the window ends, before the answer comes back.
Consume(c) ==
  LET call == calls[c] key == Key(call) IN
  /\ redisUp /\ call.at \in Layers /\ call.counted # "no"
  /\ counter' = [counter EXCEPT ![key] = Opened(@, Window[call.at])]
  /\ cut' = cut \ {key}
  /\ Decide(c, call.counted = "within")
  /\ UNCHANGED <<now, redisUp, strikes, ban, lastText, sameCount, sessions, used, admitted>>

\* The call goes no further in Redis: what it counted may be left without an end.
Severed(c) ==
  LET key == Key(calls[c]) IN
  IF calls[c].counted # "no" /\ counter[key].ends = 0 THEN cut \cup {key} ELSE cut

\* An outage breaks the pipeline off after the answer to INCRBY, which stands, or before it:
\* the client then sends the whole of it again when Redis is back.
ConsumeCut(c) ==
  /\ ~redisUp /\ calls[c].at \in Layers /\ calls[c].counted # "no"
  /\ cut' = Severed(c)
  /\ \/ Decide(c, calls[c].counted = "within")
     \/ Goes(c, calls[c].at) /\ UNCHANGED offences
  /\ UNCHANGED <<now, redisUp, redis, sessions, used, admitted>>

\* Or the client gives up.  exec resolves with an error per command, and a count that is not
\* there reads as zero: the call passes, whatever failOpen says.  Only if exec itself rejects,
\* failOpen decides: LINE and the AI budget pass, the API answers 503.
ConsumeUnavailable(c) ==
  /\ ~redisUp /\ calls[c].at \in Layers
  /\ cut' = Severed(c)
  /\ \/ Passes(c, After(calls[c]))
     \/ calls[c].at \notin FailOpen /\ Ends(c)
  /\ UNCHANGED <<now, redisUp, redis, sessions, used, admitted, offences>>

-----------------------------------------------------------------------------
(* Strikes and bans *)

\* addStrike: the counter, then, from the third strike on, the ban.
AddStrike(c) ==
  LET s == calls[c].struck row == Increment(strikes[s], StrikeWindow) IN
  /\ At(c, "strike")
  /\ IF redisUp
     THEN /\ strikes' = [strikes EXCEPT ![s] = row]
          /\ IF row.count >= 3
             THEN calls' = [calls EXCEPT ![c].at = "ban", ![c].strike = row.count]
             ELSE Ends(c)
     ELSE UNCHANGED strikes /\ Ends(c)
  /\ UNCHANGED <<now, redisUp, counter, ban, lastText, sameCount, sessions, used, history>>

BanTemporarily(c) ==
  LET n == IF calls[c].strike > 5 THEN 5 ELSE calls[c].strike IN
  /\ At(c, "ban")
  /\ ban' = IF redisUp
            THEN [ban EXCEPT ![calls[c].struck] = [kind |-> "strike", ends |-> now + BanTicks[n]]]
            ELSE ban
  /\ Ends(c)
  /\ UNCHANGED <<now, redisUp, counter, strikes, lastText, sameCount, sessions, used, history>>

\* BanController: an administrator bans by hand, for a time or for good.
AdminBan(s) ==
  /\ "admin" \in used.kinds /\ redisUp /\ Fault
  /\ \E b \in {[kind |-> "admin", ends |-> now + BanTicks[3]], [kind |-> "permanent", ends |-> 0]} :
       ban' = [ban EXCEPT ![s] = b]
  /\ UNCHANGED <<now, redisUp, counter, strikes, lastText, sameCount, sessions, calls, history>>

-----------------------------------------------------------------------------
(* Spam *)

\* check: the length and the links, then the last text.  Redis down: passes.
SpamCheck(c) ==
  LET call == calls[c] IN
  /\ At(c, "spam")
  /\ \/ /\ call.text \in Stuffed
        /\ offences' = [offences EXCEPT ![call.who] = @ + 1]
        /\ StrikesFor(c, call.who)
     \/ /\ call.text \notin Stuffed
        /\ CASE ~redisUp                              -> Ends(c)
             [] redisUp /\ lastText[call.who].text = call.text -> Goes(c, "spamCount")
             [] OTHER                                 -> Goes(c, "spamFirst")
        /\ UNCHANGED offences
  /\ UNCHANGED <<now, redisUp, redis, sessions, used, admitted, cut>>

\* Another text than the last one: it is stored, its count starts at one.
FirstCopy(c) ==
  LET call == calls[c] ends == now + SameTextWindow IN
  /\ At(c, "spamFirst")
  /\ IF redisUp
     THEN /\ lastText' = [lastText EXCEPT ![call.who] = [text |-> call.text, ends |-> ends]]
          /\ sameCount' = [sameCount EXCEPT ![call.who] = [count |-> 1, ends |-> ends]]
     ELSE UNCHANGED <<lastText, sameCount>>
  /\ Ends(c)
  /\ UNCHANGED <<now, redisUp, counter, strikes, ban, sessions, used, history>>

TooManyCopies(n) == n >= SameTextLimit

\* The text again: counted, and spam from the limit on.
AnotherCopy(c) ==
  LET call == calls[c] row == Increment(sameCount[call.who], SameTextWindow) IN
  /\ At(c, "spamCount") /\ UNCHANGED lastText
  /\ IF redisUp THEN sameCount' = [sameCount EXCEPT ![call.who] = row] ELSE UNCHANGED sameCount
  /\ IF redisUp /\ TooManyCopies(row.count)
     THEN /\ offences' = [offences EXCEPT ![call.who] = @ + 1]
          /\ StrikesFor(c, call.who)
     ELSE Ends(c) /\ UNCHANGED offences
  /\ UNCHANGED <<now, redisUp, counter, strikes, ban, sessions, used, admitted, cut>>

-----------------------------------------------------------------------------
(* Guest sessions *)

Active(g)  == sessions[g].state = "open" /\ sessions[g].expires > now
HardLimit(g) == sessions[g].created + SessionMaxAge

ActiveSessions == {g \in Guests : Active(g)}

\* assertSessionCreate: the rows one network keeps alive.
CountSessions(c) ==
  /\ At(c, "sessionCount")
  /\ IF Cardinality(ActiveSessions) >= MaxSessions
     THEN /\ offences' = [offences EXCEPT ![Network] = @ + 1]
          /\ StrikesFor(c, Network)
     ELSE Goes(c, "sessionInsert") /\ UNCHANGED offences
  /\ UNCHANGED <<now, redisUp, redis, sessions, used, admitted, cut>>

InsertSession(c) ==
  /\ At(c, "sessionInsert")
  /\ \E g \in Guests :
       /\ sessions[g] = NoSession
       /\ sessions' = [sessions EXCEPT ![g] = [state |-> "open", created |-> now,
                         expires |-> now + SessionTtl, seen |-> now]]
  /\ Ends(c)
  /\ UNCHANGED <<now, redisUp, redis, used, history>>

\* authenticate: what a guest with a live session does next.
Proceeds(call) ==
  CASE call.kind = "send" -> "contactBan" [] call.kind = "read" -> "reads"
    [] call.kind = "revoke" -> "revoke"

Authenticate(c) ==
  LET g == calls[c].who IN
  /\ At(c, "auth")
  /\ Goes(c, IF g = Nobody THEN "authfail"
             ELSE IF ~Active(g) \/ HardLimit(g) <= now THEN "authfail"
             ELSE IF now - sessions[g].seen >= SessionTouch THEN "touch"
             ELSE Proceeds(calls[c]))
  /\ UNCHANGED <<now, redisUp, redis, sessions, used, history>>

\* The renewal is best effort: its failure is only logged.
Touch(c) ==
  LET g == calls[c].who later == now + SessionTtl IN
  /\ At(c, "touch")
  /\ sessions' \in {sessions,
       [sessions EXCEPT ![g].seen = now,
          ![g].expires = IF later < HardLimit(g) THEN later ELSE HardLimit(g)]}
  /\ Goes(c, Proceeds(calls[c]))
  /\ UNCHANGED <<now, redisUp, redis, used, history>>

RevokeSession(c) ==
  /\ At(c, "revoke")
  /\ sessions' = [sessions EXCEPT ![calls[c].who].state = "revoked"]
  /\ Ends(c)
  /\ UNCHANGED <<now, redisUp, redis, used, history>>

\* The process that handles the call dies.
Dies(c) ==
  /\ calls[c] # Idle /\ Ends(c) /\ Fault
  /\ cut' = Severed(c)
  /\ UNCHANGED <<now, redisUp, redis, sessions, admitted, offences>>

Handles(c) ==
  \/ AssertIpAllowed(c) \/ AssertContactNotBanned(c) \/ IsBanned(c)
  \/ CountCall(c) \/ Consume(c) \/ ConsumeCut(c) \/ ConsumeUnavailable(c) \/ AddStrike(c) \/ BanTemporarily(c)
  \/ SpamCheck(c) \/ FirstCopy(c) \/ AnotherCopy(c)
  \/ CountSessions(c) \/ InsertSession(c) \/ Authenticate(c) \/ Touch(c) \/ RevokeSession(c)

GateNext ==
  \/ Tick \/ RedisFails \/ RedisReturns
  \/ \E s \in Subjects : AdminBan(s)
  \/ \E c \in Callers :
       \/ CreateSession(c) \/ WrongToken(c) \/ SendMessage(c) \/ ReadMessages(c) \/ Revoke(c)
       \/ LineEvent(c) \/ LineRetry(c) \/ AiCall(c)
       \/ Handles(c) \/ Dies(c)

GateSpec == GateInit /\ [][GateNext]_gateVars

-----------------------------------------------------------------------------
(* Properties *)

\* However the calls interleave, whichever of them dies and whenever Redis goes away, every
\* window counts and ends (RateLimitService.consume): of the calls that a counter has counted
\* no more than the limit get past it, none lasts longer than its window, and a counter
\* without an end is one that a call is about to give its end to or whose pipeline was cut:
\* the next call that is answered mends it, so it locks nobody out for good.
WindowsHold == \A k \in Counters :
  /\ admitted[k] <= Limit[k[1]]
  /\ counter[k].ends <= now + Window[k[1]]
  /\ counter[k].count > 0 /\ counter[k].ends = 0 =>
       k \in cut \/ \E c \in Callers : calls[c].counted # "no" /\ Key(calls[c]) = k

\* Nobody is struck for another's refusals, and nobody is banned by strikes
\* before three refusals of his own (app-abuse.service.ts, ban.service.ts).
BansAreEarned ==
  \A s \in Subjects :
    /\ strikes[s].count <= offences[s]
    /\ ban[s].kind = "strike" => offences[s] >= 3

=============================================================================
