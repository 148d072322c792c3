----------------------------- MODULE Connection -----------------------------
(***************************************************************************)
(* The MQTT connection as the service uses it and the verdict of /healthz:  *)
(* onConnect, the connection-lost handler, onMessage's time stamp and the   *)
(* handler in Serve.                                                        *)
(*                                                                         *)
(* The client library is external.  It keeps connecting (SetConnectRetry,   *)
(* SetAutoReconnect), opens a clean session each time, and runs onConnect   *)
(* and the lost handler each in a goroutine of its own: onConnect waits for *)
(* acknowledgements that only the client can deliver.  Nothing orders the   *)
(* two handlers, nor the handlers of one connection and the next.           *)
(***************************************************************************)
EXTENDS Integers

CONSTANTS
    reportStaleAfter,   \* in ticks of Tick
    MaxDrops            \* bound: lost connections

ASSUME ConnectionAssumption ==
    /\ reportStaleAfter \in Nat \ {0}
    /\ MaxDrops \in Nat

VARIABLES
    printer,    \* switched on and on the network
    link,       \* the client: "none", "trying", "up" or "closed"
    connected,  \* the first connect has completed its token
    due,        \* handlers started and not yet run
    handler,    \* onConnect of this connection: "idle", "subscribe" or "ask"
    subscribed, \* the broker has this connection's subscription
    mqttUp,
    age,        \* of lastReport; Never before the first
    \* history
    overtaken,  \* a lost handler ran after the reconnect it should precede
    drops

handlers == <<due, handler, mqttUp, overtaken>>
connVars == <<printer, link, connected, handlers, subscribed, age, drops>>

Never == -1

ConnTypeOK ==
    /\ printer \in BOOLEAN
    /\ link \in {"none", "trying", "up", "closed"}
    /\ connected \in BOOLEAN
    /\ due \in [connect : 0..MaxDrops + 1, lost : 0..MaxDrops]
    /\ handler \in {"idle", "subscribe", "ask"}
    /\ subscribed \in BOOLEAN /\ mqttUp \in BOOLEAN
    /\ age \in {Never} \cup 0..reportStaleAfter
    /\ overtaken \in BOOLEAN
    /\ drops \in 0..MaxDrops

ConnInit ==
    /\ printer \in BOOLEAN
    /\ link = "none"
    /\ connected = FALSE
    /\ due = [connect |-> 0, lost |-> 0]
    /\ handler = "idle"
    /\ subscribed = FALSE
    /\ mqttUp = FALSE
    /\ age = Never
    /\ overtaken = FALSE
    /\ drops = 0

-----------------------------------------------------------------------------
(* The printer and the client library.                                     *)

SwitchOn ==
    /\ ~printer
    /\ printer' = TRUE
    /\ UNCHANGED <<link, connected, handlers, subscribed, age, drops>>

Connects ==
    /\ link = "trying"
    /\ printer
    /\ link' = "up"
    /\ connected' = TRUE
    /\ due' = [due EXCEPT !.connect = @ + 1]
    /\ UNCHANGED <<printer, handler, mqttUp, overtaken, subscribed, age, drops>>

(* The connection breaks, with the printer off or the network gone.  What   *)
(* onConnect was waiting for fails, and it returns.                         *)
Drops ==
    /\ link = "up"
    /\ drops < MaxDrops
    /\ drops' = drops + 1
    /\ link' = "trying"
    /\ printer' \in BOOLEAN
    /\ due' = [due EXCEPT !.lost = @ + 1]
    /\ handler' = "idle"
    /\ subscribed' = FALSE
    /\ UNCHANGED <<connected, mqttUp, overtaken, age>>

-----------------------------------------------------------------------------
(* The service's handlers.                                                 *)

(* mqttUp only for the first connection. *)
OnConnectOnce ==
    /\ due.connect > 0
    /\ handler = "idle"
    /\ due' = [due EXCEPT !.connect = @ - 1]
    /\ mqttUp' = (mqttUp \/ age = Never)
    /\ handler' = "subscribe"
    /\ UNCHANGED <<printer, link, connected, overtaken, subscribed, age, drops>>

(* onConnect, up to the Subscribe. *)
OnConnect ==
    /\ due.connect > 0
    /\ handler = "idle"
    /\ due' = [due EXCEPT !.connect = @ - 1]
    /\ mqttUp' = TRUE
    /\ handler' = "subscribe"
    /\ UNCHANGED <<printer, link, connected, overtaken, subscribed, age, drops>>

(* The subscription is in place, or it failed and onConnect returns: mqttUp *)
(* stays as it is.  Without a connection it can only fail.                  *)
Subscribe ==
    /\ handler = "subscribe"
    /\ \/ link = "up" /\ subscribed' = TRUE /\ handler' = "ask"
       \/ UNCHANGED subscribed /\ handler' = "idle"
    /\ UNCHANGED <<printer, link, connected, due, mqttUp, overtaken, age, drops>>

(* The pushall request, answered by a full report or not at all. *)
AskSnapshot ==
    /\ handler = "ask"
    /\ handler' = "idle"
    /\ UNCHANGED <<printer, link, connected, due, mqttUp, overtaken, subscribed, age, drops>>

(* A lost handler for a connection that was not lost. *)
ConnectionLostUnasked ==
    /\ link = "up"
    /\ due' = [due EXCEPT !.lost = @ - 1]
    /\ mqttUp' = FALSE
    /\ overtaken' = TRUE
    /\ UNCHANGED <<printer, link, connected, handler, subscribed, age, drops>>

(* OnConnectionLost. *)
ConnectionLost ==
    /\ due.lost > 0
    /\ due' = [due EXCEPT !.lost = @ - 1]
    /\ mqttUp' = FALSE
    /\ overtaken' = (overtaken \/ link = "up")
    /\ UNCHANGED <<printer, link, connected, handler, subscribed, age, drops>>

Hearing == link = "up" /\ subscribed /\ printer

(* onMessage stamps the time before it looks at the message. *)
OnMessage ==
    /\ Hearing
    /\ age' = 0
    /\ UNCHANGED <<printer, link, connected, handlers, subscribed, drops>>

Tick ==
    /\ age \in 0..reportStaleAfter - 1
    /\ age' = age + 1
    /\ UNCHANGED <<printer, link, connected, handlers, subscribed, drops>>

(* A verdict from the connection alone. *)
HealthyByLink == mqttUp

(* The handler of /healthz and /livez. *)
Healthy == mqttUp /\ (age = Never \/ age < reportStaleAfter)

Client == Connects \/ OnConnect \/ Subscribe \/ AskSnapshot \/ ConnectionLost

ConnNext == SwitchOn \/ Drops \/ Client \/ OnMessage \/ Tick
=============================================================================
