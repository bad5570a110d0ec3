---------------------------- MODULE RedisClient ----------------------------
(***************************************************************************)
(* The two connections to Redis of the process (src/src/common/redis): the *)
(* one RedisModule makes at boot and hands to RedisService, and the one    *)
(* getRedisClient makes on first use and keeps in a variable of the        *)
(* module.  Making it is awaited before it is kept, calls come meanwhile,  *)
(* Redis goes away and comes back, and the application shuts down with     *)
(* calls in flight.  What is in Redis is left to the modules that use it.  *)
(***************************************************************************)
EXTENDS Naturals

CONSTANTS
  Requests,    \* slots for calls in flight
  MaxClients   \* bound: singleton clients that exist at a time

RedisClientAssumption == MaxClients \in Nat \ {0}

VARIABLES
  up,        \* Redis accepts connections
  service,   \* the client of RedisService: "connecting", "open", "quit"
  current,   \* redisClient, 0: null
  open,      \* singleton clients that are connected
  req,       \* per slot: the step and the singleton client it holds
  raced      \* observation: clients made while another was being made

vars == <<up, service, current, open, req, raced>>

Clients == 1..MaxClients
Idle == [pc |-> "idle", client |-> 0]

TypeOK ==
  /\ up \in BOOLEAN /\ service \in {"connecting", "open", "quit"}
  /\ current \in {0} \cup open /\ open \subseteq Clients /\ raced \subseteq Clients
  /\ req \in [Requests -> {Idle, [pc |-> "service", client |-> 0]}
                          \cup [pc: {"connect", "command"}, client: Clients]]

Init ==
  /\ up \in BOOLEAN /\ service = "connecting"
  /\ current = 0 /\ open = {}
  /\ req = [r \in Requests |-> Idle]
  /\ raced = {}

At(r, step) == req[r].pc = step
Respond(r) == req' = [req EXCEPT ![r] = Idle]
Connecting == {req[r].client : r \in {s \in Requests : At(s, "connect")}}
Unused == Clients \ (open \cup {req[r].client : r \in Requests})

-----------------------------------------------------------------------------
(* The useFactory of RedisModule; the application does not listen before.  *)
Boot ==
  /\ service = "connecting" /\ up
  /\ service' = "open"
  /\ UNCHANGED <<up, current, open, req, raced>>

(* get, set, expire, keys, incr and ping of RedisService. *)
CallService(r) ==
  /\ req[r] = Idle /\ service # "connecting"
  /\ req' = [req EXCEPT ![r].pc = "service"]
  /\ UNCHANGED <<up, service, current, open, raced>>

(* Answered, queued while Redis is away, or thrown after quit. *)
AnswerService(r) ==
  /\ At(r, "service")
  /\ up \/ service # "open"
  /\ Respond(r)
  /\ UNCHANGED <<up, service, current, open, raced>>

-----------------------------------------------------------------------------
(* getRedisClient and, with it, the operations on the singleton client.    *)

(* createClient; connect is awaited. *)
Make(r) ==
  \E c \in Unused :
    /\ \A d \in Unused : c <= d
    /\ req' = [req EXCEPT ![r] = [pc |-> "connect", client |-> c]]
    /\ raced' = IF Connecting = {} THEN raced \ {c} ELSE raced \cup Connecting \cup {c}

(* Faulty variant: every call makes a client. *)
CallMaking(r) ==
  /\ req[r] = Idle
  /\ Make(r)
  /\ UNCHANGED <<up, service, current, open>>

Call(r) ==
  /\ req[r] = Idle
  /\ IF current # 0
     THEN req' = [req EXCEPT ![r] = [pc |-> "command", client |-> current]] /\ UNCHANGED raced
     ELSE Make(r)
  /\ UNCHANGED <<up, service, current, open>>

(* connect retries until Redis is there; then the client is kept, in place *)
(* of one that another call may have made meanwhile.                       *)
Connected(r) ==
  /\ At(r, "connect") /\ up
  /\ current' = req[r].client
  /\ open' = open \cup {req[r].client}
  /\ req' = [req EXCEPT ![r].pc = "command"]
  /\ UNCHANGED <<up, service, raced>>

(* Faulty variant: a command on a disconnected client waits for ever. *)
AnswerConnected(r) ==
  /\ At(r, "command")
  /\ up /\ req[r].client \in open
  /\ Respond(r)
  /\ UNCHANGED <<up, service, current, open, raced>>

(* Answered, queued while Redis is away, or thrown on a client that was    *)
(* disconnected.                                                           *)
Answer(r) ==
  /\ At(r, "command")
  /\ up \/ req[r].client \notin open
  /\ Respond(r)
  /\ UNCHANGED <<up, service, current, open, raced>>

(* A command that was sent is thrown when the connection breaks. *)
Lose(r) ==
  /\ At(r, "service") \/ At(r, "command")
  /\ ~up
  /\ Respond(r)
  /\ UNCHANGED <<up, service, current, open, raced>>

-----------------------------------------------------------------------------
(* onModuleDestroy of RedisService, when the application shuts down. *)
Quit ==
  /\ service = "open"
  /\ service' = "quit"
  /\ UNCHANGED <<up, current, open, req, raced>>

(* onApplicationShutdown of RedisModule: closeRedisClient.  The process    *)
(* may go on, and boot the application of another test.                    *)
Shutdown ==
  /\ service = "quit"
  /\ service' = "connecting"
  /\ current' = 0 /\ open' = open \ {current} /\ raced' = raced \ {current}
  /\ UNCHANGED <<up, req>>

Redis == up' = ~up /\ UNCHANGED <<service, current, open, req, raced>>

Work(r) == AnswerService(r) \/ Connected(r) \/ Answer(r)

Next ==
  \/ \E r \in Requests : CallService(r) \/ Call(r) \/ Work(r) \/ Lose(r)
  \/ Boot \/ Quit \/ Shutdown \/ Redis

Spec == Init /\ [][Next]_vars

(* A call goes on as soon as it can; nothing makes Redis come back. *)
FairSpec == Spec /\ \A r \in Requests : WF_vars(Work(r))

-----------------------------------------------------------------------------
(* Properties                                                              *)

(* The process keeps one singleton client, which the shutdown can close:   *)
(* a connected client that is not redisClient was made while another call  *)
(* was making one.                                                         *)
OneClientUnlessRaced == open \subseteq {current} \cup raced

(* A call is answered, or thrown, once Redis is back to stay, even one     *)
(* that waits for its connection or whose client was closed under it.      *)
CallsAreAnswered == <>[]up => \A r \in Requests : req[r] # Idle ~> req[r] = Idle
=============================================================================
