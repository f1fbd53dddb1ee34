------------------------------ MODULE WhoisPage ------------------------------
(***************************************************************************)
(* The whois page: a submission needs the token of a Turnstile challenge,  *)
(* is locked out for ten seconds by a timer of the Start button, and is    *)
(* sent by an effect that watches both.                                    *)
(***************************************************************************)
EXTENDS Integers, FiniteSets

CONSTANTS
  WhoisQueries,  \* target and server of a whois query
  NoWhois,       \* one whose target is empty
  LockTime,      \* the ten seconds, in units of time
  MaxTokens,     \* bound: challenges the widget solves
  MaxFetches     \* bound: requests

ASSUME WhoisAssumption == NoWhois \notin WhoisQueries /\ MaxTokens \in Nat /\ MaxFetches \in Nat
ASSUME LockAssumption == LockTime \in Nat \ {0}

VARIABLES
  whois,       \* the page is mounted
  wStart,      \* start: submitted, Start is disabled
  wQuery,      \* target and server
  token,       \* number of the last token the widget gave, 0 for none
  solved,      \* the widget has solved a challenge since it was last reset
  processing,  \* isProcessing
  timer,       \* the timer of the Start button runs
  ran,         \* and for how long it has
  inFlight,    \* numbers of the requests without a response
  shown,       \* number of the request whose answer is shown, 0 for nothing
  fetched,     \* requests so far
  unlocks,     \* times the timer has fired
  locked,      \* Enter has been pressed while no timer ran
  since,       \* time since the last request, LockTime at most
  sentAt,      \* unlocks at that request
  borrowed     \* it was sent under a timer that ran already

lastVars  == <<since, sentAt, borrowed>>
whoisVars == <<whois, wStart, wQuery, token, solved, processing, timer, ran, inFlight, shown,
               fetched, unlocks, locked, lastVars>>

WhoisBlank ==
  /\ wStart' = FALSE /\ wQuery' = NoWhois /\ token' = 0 /\ solved' = FALSE
  /\ processing' = FALSE /\ timer' = FALSE /\ ran' = 0 /\ inFlight' = {} /\ shown' = 0
  /\ fetched' = 0 /\ unlocks' = 0 /\ locked' = FALSE
  /\ since' = 0 /\ sentAt' = 0 /\ borrowed' = FALSE

WhoisInit ==
  /\ whois = FALSE
  /\ wStart = FALSE /\ wQuery = NoWhois /\ token = 0 /\ solved = FALSE
  /\ processing = FALSE /\ timer = FALSE /\ ran = 0 /\ inFlight = {} /\ shown = 0
  /\ fetched = 0 /\ unlocks = 0 /\ locked = FALSE
  /\ since = 0 /\ sentAt = 0 /\ borrowed = FALSE

WhoisMount == whois' = TRUE /\ WhoisBlank

\* A timer or a response that outlives the page updates nothing.
WhoisUnmount == whois' = FALSE /\ WhoisBlank

\* Variation: the effect does not look at isProcessing.
FiresAgain(start, query, tok, busy) == start /\ query # NoWhois /\ tok # 0

Fires(start, query, tok, busy) == start /\ query # NoWhois /\ tok # 0 /\ ~busy

\* The effect, run after every change of what it reads: isProcessing, the cleared
\* answer, the reset of the widget (which leaves the token in the state) and the
\* fetch.
Effect(start, query, tok, busy, done) ==
  IF Fires(start, query, tok, busy)
  THEN /\ processing' = TRUE
       /\ shown' = 0
       /\ solved' = FALSE
       /\ fetched' = fetched + 1
       /\ inFlight' = inFlight \cup {fetched + 1}
       /\ since' = 0 /\ sentAt' = unlocks /\ borrowed' = timer
  ELSE /\ processing' = busy
       /\ solved' = done
       /\ UNCHANGED <<shown, fetched, inFlight, lastVars>>

-----------------------------------------------------------------------------
\* onSuccess of the widget, which also renews a token that has expired.
Solve ==
  /\ whois /\ token < MaxTokens
  /\ token' = token + 1
  /\ Effect(wStart, wQuery, token + 1, processing, TRUE)
  /\ UNCHANGED <<whois, wStart, wQuery, timer, ran, unlocks, locked>>

\* submit_event, from the Enter key: nothing will set start back.
Enter(q) ==
  /\ whois /\ fetched < MaxFetches
  /\ wStart' = TRUE /\ wQuery' = q
  /\ locked' = (locked \/ ~timer)
  /\ Effect(TRUE, q, token, processing, solved)
  /\ UNCHANGED <<whois, token, timer, ran, unlocks>>

\* Variation: the timer is started in the effect of the first submission only.
ClickOnce(q) ==
  /\ whois /\ fetched < MaxFetches /\ unlocks < MaxFetches
  /\ ~wStart /\ token # 0
  /\ wStart' = TRUE /\ wQuery' = q
  /\ timer' = (unlocks = 0) /\ ran' = 0
  /\ Effect(TRUE, q, token, processing, solved)
  /\ UNCHANGED <<whois, token, unlocks, locked>>

\* The Start button: submit_event and the timer.
Click(q) ==
  /\ whois /\ fetched < MaxFetches /\ unlocks < MaxFetches
  /\ ~wStart /\ token # 0
  /\ wStart' = TRUE /\ wQuery' = q
  /\ timer' = TRUE /\ ran' = 0
  /\ Effect(TRUE, q, token, processing, solved)
  /\ UNCHANGED <<whois, token, unlocks, locked>>

\* setStart(false) and setIsProcessing(false) are rendered together.
Unlock ==
  /\ whois /\ timer /\ ran = LockTime
  /\ timer' = FALSE /\ ran' = 0
  /\ wStart' = FALSE
  /\ unlocks' = unlocks + 1
  /\ Effect(FALSE, wQuery, token, FALSE, solved)
  /\ UNCHANGED <<whois, wQuery, token, locked>>

\* An answer, whichever comes first, or what the server says instead (429 shows a
\* message and no text).
Answer ==
  /\ whois
  /\ \E n \in inFlight :
       /\ inFlight' = inFlight \ {n}
       /\ shown' \in {n, shown}
  /\ UNCHANGED <<whois, wStart, wQuery, token, solved, processing, timer, ran, fetched, unlocks, locked,
                 lastVars>>

\* A unit of time passes.
Tick ==
  /\ whois
  /\ \/ timer /\ ran < LockTime
     \/ fetched > 0 /\ since < LockTime
  /\ ran' = IF timer /\ ran < LockTime THEN ran + 1 ELSE ran
  /\ since' = IF fetched > 0 /\ since < LockTime THEN since + 1 ELSE since
  /\ UNCHANGED <<whois, wStart, wQuery, token, solved, processing, timer, inFlight, shown,
                 fetched, unlocks, locked, sentAt, borrowed>>

WhoisNext ==
  \/ Solve \/ Unlock \/ Answer \/ Tick
  \/ \E q \in WhoisQueries \cup {NoWhois} : Enter(q) \/ Click(q)

\* Time passes, and the timer fires.
WhoisFairness == WF_whoisVars(Tick) /\ WF_whoisVars(Unlock)

-----------------------------------------------------------------------------
WhoisTypeOK ==
  /\ {whois, wStart, solved, processing, timer, locked, borrowed} \subseteq BOOLEAN
  /\ wQuery \in WhoisQueries \cup {NoWhois}
  /\ token \in 0 .. MaxTokens /\ fetched \in 0 .. MaxFetches
  /\ inFlight \subseteq 1 .. fetched /\ shown \in 0 .. fetched
  /\ {ran, since} \subseteq 0 .. LockTime /\ sentAt \in 0 .. unlocks

\* While the page is open no request is sent before the ten seconds since the one
\* before are over, whatever the order of clicks, Enters, tokens and answers, with
\* one exception: a request that Enter sent while the timer of a click without a
\* target ran is protected for the rest of that timer only.
RequestsTenSecondsApart ==
  [][fetched' > fetched /\ fetched > 0 =>
       unlocks > sentAt /\ (since = LockTime \/ borrowed)]_whoisVars

\* A submission by the button is unlocked by its timer, whatever else is pressed
\* meanwhile. Enter without a timer running locks the page until it is left.
LockEnds == whois /\ wStart /\ ~locked ~> ~whois \/ ~wStart \/ locked
=============================================================================
