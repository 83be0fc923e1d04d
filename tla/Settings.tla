------------------------------ MODULE Settings ------------------------------
(***************************************************************************)
(* The way of the configuration into a process: conf.LoadApp on app.toml,  *)
(* buildMTeamConfigs, apinotify.LoadConfig on notify.toml, and the         *)
(* assembly of the parts in App.New, with what every number of seconds     *)
(* turns into: the delay of a tick, the deadline of a run, of a request    *)
(* and of a notification.                                                  *)
(*                                                                         *)
(* A number in a file is a float64: NaN, or a value counted here in half   *)
(* nanoseconds.  A time.Duration is an integer of a few bits, and what the *)
(* conversion makes of a float64 that does not fit depends on the machine. *)
(***************************************************************************)
EXTENDS Integers, Functions

CONSTANTS Values,       \* the numbers in the files, in half nanoseconds
          MaxDuration,  \* the largest time.Duration, in nanoseconds
          PerMilli,     \* nanoseconds in a millisecond
          Kinds         \* notification channels that can be enabled

ASSUME SettingsAssumption == /\ Values \subseteq Int
                             /\ MaxDuration \in Nat
                             /\ PerMilli \in Nat \ {0}

MinDuration == -MaxDuration - 1

Durations == MinDuration..MaxDuration

NaN == [nan |-> TRUE, v |-> 0]
Num(v) == [nan |-> FALSE, v |-> v]

Numbers == {NaN} \cup {Num(v) : v \in Values}

(* The comparisons of float64: all of them fail for NaN. *)
Less(x, y) == ~x.nan /\ ~y.nan /\ x.v < y.v
AtMost(x, y) == ~x.nan /\ ~y.nan /\ x.v <= y.v

Zero == Num(0)

VARIABLES stage,    \* how far App.New has come
          failure,  \* the error it has returned
          app,      \* the numbers of app.toml that LoadApp has accepted
          request,  \* Config.Timeout of the M-Team clients
          notify,   \* time-outs in notify.toml, or what stands in for them
          waits,    \* the durations of the assembled process
          delay     \* the delay of the last tick

settingsVars == <<stage, failure, app, request, notify, waits, delay>>

NoApp == [min |-> Zero, max |-> Zero, refresh |-> Zero]

(* apinotify.Config{}: what App.New keeps when notify.toml is refused. *)
NoNotify == [timeout |-> Zero, channels |-> [n \in {} |-> Zero]]

NoWaits == [min |-> 0, max |-> 0, run |-> 0, send |-> [n \in {"base"} |-> 0]]

SettingsInit == /\ stage = "loadApp"
                /\ failure = "nil"
                /\ app = NoApp
                /\ request = 0
                /\ notify = NoNotify
                /\ waits = NoWaits
                /\ delay = 0

-----------------------------------------------------------------------------
(* util.SecondsDuration: truncated towards zero. *)
Truncate(v) == IF v >= 0 THEN v \div 2 ELSE -((-v) \div 2)

Fits(x) == ~x.nan /\ Truncate(x.v) \in Durations

SecondsDuration(x) == IF Fits(x) THEN {Truncate(x.v)} ELSE {MinDuration, 0, MaxDuration}

(* int64 arithmetic. *)
Wrap(i) == ((i - MinDuration) % (2 * (MaxDuration + 1))) + MinDuration

(* AppConfig.Validate, with the crontab parsed or not. *)
ValidateDelaysApart(crontab, a) ==
  /\ crontab
  /\ ~Less(a.min, Zero) /\ ~Less(a.max, Zero)
  /\ ~AtMost(a.refresh, Zero)

Validate(crontab, a) ==
  /\ crontab
  /\ ~Less(a.min, Zero) /\ ~Less(a.max, Zero)
  /\ ~Less(a.max, a.min)
  /\ ~AtMost(a.refresh, Zero)

(* The keys of a file that no field takes: unknown ones, and the ones that *)
(* former versions knew.  LoadTOML and LoadApp refuse either kind.         *)
Undecoded == SUBSET {"removed", "unknown"}

Fail(error) == /\ stage' = "failed"
               /\ failure' = error
               /\ UNCHANGED <<app, request, notify, waits, delay>>

(* LoadApp, and mapConfigError on what it returns. *)
LoadApp ==
  /\ stage = "loadApp"
  /\ \/ Fail("ConfigReadFailed")
     \/ Fail("ConfigParseFailed")
     \/ \E keys \in Undecoded, crontab \in BOOLEAN,
           a \in [min : Numbers, max : Numbers, refresh : Numbers] :
          IF keys = {} /\ Validate(crontab, a)
            THEN /\ app' = a
                 /\ stage' = "buildMTeam"
                 /\ UNCHANGED <<failure, request, notify, waits, delay>>
            ELSE Fail("ConfigInvalid")

(* buildMTeamConfigs: the time-out is converted and then validated, for    *)
(* login and browsing alike; module Login has the credentials.             *)
CheckedBeforeConversion(host, t) == IF host /\ ~AtMost(t, Zero) THEN SecondsDuration(t) ELSE {}

MTeamTimeouts(host, t) == {d \in SecondsDuration(t) : host /\ d > 0}

buildMTeamConfigs ==
  /\ stage = "buildMTeam"
  /\ \E host \in BOOLEAN, t \in Numbers :
       \/ /\ request' \in MTeamTimeouts(host, t)
          /\ stage' = "loadNotify"
          /\ UNCHANGED <<failure, app, notify, waits, delay>>
       \/ /\ MTeamTimeouts(host, t) # SecondsDuration(t)
          /\ Fail("ConfigInvalid")

(* Config.Validate of notify.toml, and of each of its channels. *)
ValidateChannel(c) == /\ ~Less(c.timeout, Zero)
                      /\ c.enabled => c.complete

ValidateNotify(c) == /\ ~AtMost(c.timeout, Zero)
                     /\ \A n \in Kinds : ValidateChannel(c.channels[n])

Sections == [enabled : BOOLEAN, complete : BOOLEAN, timeout : Numbers]

(* The numbers that are still of use: a channel that is off has none. *)
TimeoutsOf(c) == [timeout |-> c.timeout,
                  channels |-> [n \in {k \in Kinds : c.channels[k].enabled} |->
                                  c.channels[n].timeout]]

(* A notify.toml that cannot be read, parsed or validated is not an error: *)
(* only the base channel is left then.  A file without a time-out has 10   *)
(* seconds, one of the ordinary numbers.                                   *)
LoadConfig ==
  /\ stage = "loadNotify"
  /\ \/ notify' = NoNotify
     \/ \E keys \in Undecoded, c \in [timeout : Numbers, channels : [Kinds -> Sections]] :
          notify' = IF keys = {} /\ ValidateNotify(c) THEN TimeoutsOf(c) ELSE NoNotify
  /\ stage' = "assemble"
  /\ UNCHANGED <<failure, app, request, waits, delay>>

(* newManager and add: the time-out of the manager, and of a channel.  The *)
(* largest Duration stands for the 300 seconds of a manager without one.   *)
DefaultTimeout == MaxDuration

ManagerTimeouts == IF Less(Zero, notify.timeout) THEN SecondsDuration(notify.timeout)
                   ELSE {DefaultTimeout}

ChannelTimeouts(n, m) == IF n # "base" /\ Less(Zero, notify.channels[n])
                           THEN SecondsDuration(notify.channels[n])
                           ELSE {m}

(* The rest of App.New. *)
Assemble ==
  /\ stage = "assemble"
  /\ \E min \in SecondsDuration(app.min), max \in SecondsDuration(app.max),
        run \in SecondsDuration(app.refresh), m \in ManagerTimeouts :
       \E send \in [DOMAIN notify.channels \cup {"base"} -> Durations] :
         /\ \A n \in DOMAIN send : send[n] \in ChannelTimeouts(n, m)
         /\ waits' = [min |-> min, max |-> max, run |-> run, send |-> send]
  /\ stage' = "up"
  /\ UNCHANGED <<failure, app, request, notify, delay>>

(* SampleDelay: the smaller delay and a random share of the difference. *)
Share(d) == IF d >= 0 THEN 0..d ELSE d..0

SampleDelay == IF waits.min = 0 /\ waits.max = 0 THEN {0}
               ELSE IF waits.max <= waits.min THEN {waits.min}
               ELSE {Wrap(waits.min + r) : r \in Share(Wrap(waits.max - waits.min))}

(* A tick of cron, and with it a run. *)
runWithDelay == /\ stage \in {"up", "ticked"}
                /\ stage' = "ticked"
                /\ delay' \in SampleDelay
                /\ UNCHANGED <<failure, app, request, notify, waits>>

Refused == stage = "failed" /\ UNCHANGED settingsVars

SettingsNext == LoadApp \/ buildMTeamConfigs \/ LoadConfig \/ Assemble \/ runWithDelay \/ Refused

SettingsSpec == SettingsInit /\ [][SettingsNext]_settingsVars

-----------------------------------------------------------------------------
(* Context.WithTimeout gives no deadline for a duration that is not        *)
(* positive; 0 stands for no deadline.                                     *)
WithTimeout(d) == IF d <= 0 THEN 0 ELSE d

(* The time-out of the HTTP client, in milliseconds; 0 means none. *)
timeoutMilliseconds(d) == IF d <= 0 THEN 0 ELSE (d + PerMilli - 1) \div PerMilli

Up == stage \in {"up", "ticked"}

(* A number of at least a nanosecond that a Duration can hold. *)
Ordinary(x) == Fits(x) /\ x.v >= 2

(* Whatever configuration was accepted, every M-Team request gets a        *)
(* time-out, whether the number was tiny, huge or not one at all.  So does *)
(* every notification, also after a notify.toml that was refused, and so   *)
(* does every run, if their numbers are ordinary ones: those are only      *)
(* checked before they are converted.                                      *)
RequestsBounded ==
  Up => /\ timeoutMilliseconds(request) > 0
        /\ Ordinary(app.refresh) => WithTimeout(waits.run) > 0
        /\ (\A t \in {notify.timeout} \cup Range(notify.channels) : t = Zero \/ Ordinary(t))
             => \A d \in Range(waits.send) : WithTimeout(d) > 0

(* A tick waits for at least min_delay and at most max_delay, for all      *)
(* numbers that a Duration can hold, up to fractions of a nanosecond.      *)
DelayInRange ==
  stage = "ticked" /\ Fits(app.min) /\ Fits(app.max)
    => delay \in Truncate(app.min.v)..Truncate(app.max.v)

-----------------------------------------------------------------------------
(* The strengthening that makes both properties inductive: what each stage *)
(* of App.New has checked of the numbers, and where every duration of the  *)
(* assembled process comes from.                                           *)
AppAccepted ==
  stage \notin {"loadApp", "failed"} => /\ app \in [min : Numbers, max : Numbers, refresh : Numbers]
                                        /\ Validate(TRUE, app)

RequestAccepted ==
  stage \in {"loadNotify", "assemble", "up", "ticked"} => request \in 1..MaxDuration

NotifyAccepted ==
  /\ notify.timeout \in Numbers \cup {Zero}
  /\ \A t \in Range(notify.channels) : t \in Numbers

WaitsConverted ==
  Up => /\ waits.min \in SecondsDuration(app.min)
        /\ waits.max \in SecondsDuration(app.max)
        /\ waits.run \in SecondsDuration(app.refresh)
        /\ DOMAIN waits.send = DOMAIN notify.channels \cup {"base"}
        /\ \E m \in ManagerTimeouts :
             \A n \in DOMAIN waits.send : waits.send[n] \in ChannelTimeouts(n, m)

DelaySampled == stage = "ticked" => delay \in SampleDelay

SettingsInv == /\ AppAccepted
               /\ RequestAccepted
               /\ NotifyAccepted
               /\ WaitsConverted
               /\ DelaySampled
=============================================================================
