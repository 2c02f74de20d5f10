------------------------------- MODULE Lookup -------------------------------
(***************************************************************************)
(* What Nsq::subscribe() does before it forks: take the keys of the        *)
(* configuration, ask nsqlookupd for the producers of the topic over HTTP, *)
(* and again every ten seconds while there are none.  nsqlookupd, the      *)
(* nsqds that register with it and libevent are external.                  *)
(***************************************************************************)
EXTENDS FiniteSets

CONSTANTS
    Nsqd,
    Hazards        \* what may happen beyond the well-behaved case

ASSUME LookupAssumption ==
    Hazards \subseteq {"local_error", "cut", "not_json", "loop_error"}

VARIABLES
    hazards, config,    \* fixed in a behaviour: none, one or all; the keys that are there
    (* the script *)
    stage,         \* "called"; "request", "dispatch"; "decode"; "sleep"; and how it ended
    result,        \* what lookup() returned
    thrown,        \* the code of the exception
    producers,     \* workers are forked for
    (* nsqlookupd *)
    up, known, registered,   \* it runs; it knows the topic; its producers
    answer,        \* on its way to the script
    (* history *)
    latest, answers    \* the last that has been on its way; all of them

lookupd == <<up, known, registered>>
given == <<hazards, config>>
history == <<latest, answers>>
lookupVars == <<given, stage, result, thrown, producers, lookupd, answer, history>>

Reply(kind) == [kind |-> kind, nsqds |-> {}]
Listed(nsqds) == [kind |-> "producers", nsqds |-> nsqds]
Nothing == Reply("none")
Empty == Reply("empty")
UnknownTopic == Reply("unknown_topic")
LocalError == Reply("local_error")     \* JSON, both, without producers
NotJson == Reply("not_json")
Result == {Nothing, Empty, UnknownTopic, LocalError, NotJson} \cup {Listed(s) : s \in SUBSET Nsqd}

(* The exception's code and text; what is thrown later replaces it.        *)
throw_exception(code) == thrown' = code

-----------------------------------------------------------------------------
(* Nsq::subscribe(): the keys it requires. *)

TopicMissing ==
    /\ stage = "called" /\ "topic" \notin config
    /\ throw_exception("topic_key_required") /\ stage' = "thrown"
    /\ UNCHANGED <<given, result, producers, lookupd, answer, history>>

(* No return after the throw: a channel that is missing is looked for in   *)
(* vain when the first worker's message is filled in.                      *)
Configured ==
    /\ stage = "called" /\ "topic" \in config
    /\ IF "channel" \in config THEN UNCHANGED thrown ELSE throw_exception("channel_key_required")
    /\ stage' = "request"
    /\ UNCHANGED <<given, result, producers, lookupd, answer, history>>

-----------------------------------------------------------------------------
(* lookup() and request(): no URL, no event base, no host are answered in  *)
(* JSON of its own.                                                        *)
RequestFails ==
    /\ stage = "request" /\ "local_error" \in hazards
    /\ result' = LocalError /\ stage' = "decode"
    /\ UNCHANGED <<given, thrown, producers, lookupd, answer, history>>

request ==
    /\ stage = "request"
    /\ result' = Nothing /\ answer' = Nothing /\ stage' = "dispatch"
    /\ UNCHANGED <<given, thrown, producers, lookupd, history>>

(* The response, whatever its code; "" for a request without one.          *)
FinshCallback ==
    /\ stage = "dispatch" /\ answer # Nothing
    /\ result' = answer /\ answer' = Nothing
    /\ stage' = "decode"
    /\ UNCHANGED <<given, thrown, producers, lookupd, history>>

(* The connection is closed under the request: ConnectionCloseCallback,    *)
(* and then FinshCallback without a request to take the input buffer of.   *)
FinshCallbackOfNull ==
    /\ stage = "dispatch" /\ "cut" \in hazards
    /\ stage' = "crashed"
    /\ UNCHANGED <<given, result, thrown, producers, lookupd, answer, history>>

(* The event loop ends, and nothing has been written to re->result: it is  *)
(* no address, or that of a text that is empty or no JSON object.  Answers *)
(* of nsqlookupd are not among them: they are strdup()ed, never freed, and *)
(* no re is.                                                               *)
NoCallback ==
    /\ stage = "dispatch" /\ "loop_error" \in hazards
    /\ result' \in {NotJson, Empty} /\ answer' = Nothing
    /\ stage' \in {"decode", "crashed"}
    /\ UNCHANGED <<given, thrown, producers, lookupd, history>>

-----------------------------------------------------------------------------
(* Nsq::subscribe(): what to do with the result. *)

(* Slip: the result is decoded whatever it is. *)
NotAvailableUnseen ==
    /\ stage = "decode" /\ result = Empty
    /\ stage' = "crashed"
    /\ UNCHANGED <<given, result, thrown, producers, lookupd, answer, history>>

NotAvailable ==
    /\ stage = "decode" /\ result = Empty
    /\ throw_exception("lookupd_server_not_available") /\ stage' = "thrown"
    /\ UNCHANGED <<given, result, producers, lookupd, answer, history>>

(* Z_ARRVAL of what php_json_decode() has left NULL. *)
DecodeFails ==
    /\ stage = "decode" /\ result = NotJson
    /\ stage' = "crashed"
    /\ UNCHANGED <<given, result, thrown, producers, lookupd, answer, history>>

NoProducersKey ==
    /\ stage = "decode" /\ result \in {UnknownTopic, LocalError}
    /\ throw_exception("topic_not_exists") /\ stage' = "thrown"
    /\ UNCHANGED <<given, result, producers, lookupd, answer, history>>

(* Slips: no producers are a failure like any other; after the sleep the   *)
(* old result is looked at again.                                          *)
NoProducersThrows ==
    /\ stage = "decode" /\ result = Listed({})
    /\ throw_exception("topic_not_exists") /\ stage' = "thrown"
    /\ UNCHANGED <<given, result, producers, lookupd, answer, history>>
LookupAgainDecodes ==
    /\ stage = "sleep"
    /\ stage' = "decode"
    /\ UNCHANGED <<given, result, thrown, producers, lookupd, answer, history>>

NoProducers ==
    /\ stage = "decode" /\ result = Listed({})
    /\ stage' = "sleep"
    /\ UNCHANGED <<given, result, thrown, producers, lookupd, answer, history>>

LookupAgain ==
    /\ stage = "sleep"
    /\ stage' = "request"
    /\ UNCHANGED <<given, result, thrown, producers, lookupd, answer, history>>

(* Slip: an empty list is as good as any. *)
StartAlways ==
    /\ stage = "decode" /\ result.kind = "producers"
    /\ producers' = result.nsqds
    /\ stage' = IF "channel" \in config THEN "started" ELSE "crashed"
    /\ UNCHANGED <<given, result, thrown, lookupd, answer, history>>

Start ==
    /\ stage = "decode" /\ result.kind = "producers" /\ result.nsqds # {}
    /\ producers' = result.nsqds
    /\ stage' = IF "channel" \in config THEN "started" ELSE "crashed"
    /\ UNCHANGED <<given, result, thrown, lookupd, answer, history>>

Script ==
    \/ TopicMissing \/ Configured
    \/ RequestFails \/ request \/ FinshCallback \/ FinshCallbackOfNull \/ NoCallback
    \/ NotAvailable \/ DecodeFails \/ NoProducersKey \/ NoProducers \/ LookupAgain \/ Start

-----------------------------------------------------------------------------
(* nsqlookupd answers from what it knows at that moment; a connection that *)
(* is refused makes a request without a response.                          *)
LookupdAnswers ==
    /\ stage = "dispatch" /\ answer = Nothing
    /\ answer' \in IF ~up THEN {Empty}
                   ELSE {IF known THEN Listed(registered) ELSE UnknownTopic}
                        \cup (IF "not_json" \in hazards THEN {NotJson} ELSE {})
    /\ latest' = answer' /\ answers' = answers \cup {answer'}
    /\ UNCHANGED <<given, stage, result, thrown, producers, lookupd>>

Register(n) ==
    /\ up /\ n \notin registered
    /\ known' = TRUE /\ registered' = registered \cup {n}
    /\ UNCHANGED <<given, stage, result, thrown, producers, up, answer, history>>

(* The nsqd stops; the topic stays. *)
Unregister(n) ==
    /\ n \in registered
    /\ registered' = registered \ {n}
    /\ UNCHANGED <<given, stage, result, thrown, producers, up, known, answer, history>>

(* nsqlookupd keeps all it knows in memory. *)
LookupdStops ==
    /\ up
    /\ up' = FALSE /\ known' = FALSE /\ registered' = {}
    /\ UNCHANGED <<given, stage, result, thrown, producers, answer, history>>

LookupdStarts ==
    /\ ~up
    /\ up' = TRUE
    /\ UNCHANGED <<given, stage, result, thrown, producers, known, registered, answer, history>>

-----------------------------------------------------------------------------
LookupInit ==
    /\ hazards \in {{}, Hazards} \cup {{h} : h \in Hazards}
    /\ config \in SUBSET {"topic", "channel"}
    /\ stage = "called" /\ result = Nothing /\ thrown = "none" /\ producers = {}
    /\ up \in BOOLEAN /\ known \in BOOLEAN /\ registered \in SUBSET Nsqd
    /\ (known => up) /\ (registered # {} => known)
    /\ answer = Nothing /\ latest = Nothing /\ answers = {}

LookupNext ==
    \/ Script \/ LookupdAnswers
    \/ \E n \in Nsqd : Register(n) \/ Unregister(n)
    \/ LookupdStops \/ LookupdStarts

(* The script runs, and a request is answered or refused. *)
LookupSpec == LookupInit /\ [][LookupNext]_lookupVars /\ WF_lookupVars(Script) /\ WF_lookupVars(LookupdAnswers)

-----------------------------------------------------------------------------
(* Properties *)

LookupTypeOK ==
    /\ hazards \subseteq Hazards
    /\ stage \in {"called", "request", "dispatch", "decode", "sleep", "thrown", "started", "crashed"}
    /\ result \in Result /\ answer \in Result /\ latest \in Result /\ answers \subseteq Result
    /\ thrown \in {"none", "topic_key_required", "channel_key_required",
                   "lookupd_server_not_available", "topic_not_exists"}
    /\ producers \subseteq Nsqd /\ registered \subseteq Nsqd
    /\ up \in BOOLEAN /\ known \in BOOLEAN

(* nsq.c:395-449: workers are forked for exactly the producers of the last *)
(* answer of nsqlookupd, never for none and never for those of an answer   *)
(* to an earlier request, however often it was asked, and whatever text a  *)
(* request without an answer has left.                                     *)
StartedFromAnswer == stage = "started" => producers # {} /\ latest = Listed(producers)

(* nsq_exception.c:42-47, "Lookupd server not available", "Topic not       *)
(* exists": an exception is thrown for what nsqlookupd did, and not, say,  *)
(* for producers that were just not there yet.                             *)
ThrownForAReason ==
    hazards \cap {"local_error", "loop_error"} = {} =>
        /\ thrown = "topic_not_exists" => UnknownTopic \in answers
        /\ thrown = "lookupd_server_not_available" => Empty \in answers

(* nsq.c:395-449: subscribe() crashes before it forks in these cases only: *)
(* the connection was cut or the event loop ended under a request, the     *)
(* answer was not JSON, or a configuration without a channel has found     *)
(* producers.  A refused request, an unknown topic, a URL or a host that   *)
(* request() cannot use and retries are none of them.                      *)
NoCrash ==
    stage = "crashed" =>
        \/ hazards \cap {"cut", "loop_error"} # {}
        \/ latest = NotJson
        \/ "channel" \notin config /\ producers # {}

(* nsq.c:418, "The program will be retried after 10 seconds": with         *)
(* producers that stay, subscribe() does not go on looking for them.       *)
RetryEnds == <>[](registered # {}) => <>(stage \in {"thrown", "started", "crashed"})

(* nsq_exception.c:40-41, "Channel key is required": a configuration       *)
(* without it ends in that exception.                                      *)
MissingKeyIsThrown == "channel" \notin config => stage # "crashed"

(* nsq_lookupd.c:75, "remote_rsp ? ... : 0": a request that failed is one  *)
(* of the cases FinshCallback is for.                                      *)
FailedRequestSurvived == stage # "crashed"
=============================================================================
