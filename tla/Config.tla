------------------------------- MODULE Config -------------------------------
(***************************************************************************)
(* The environment as configuration (src/ops/config.ts): the schemas, and  *)
(* the loaders of the processes, each with the variables it asks for.      *)
(*                                                                         *)
(* An environment is a function on the variables that are set.  A value is *)
(* the set of the items between its commas, trimmed: {} is the empty       *)
(* string, an item "" is blank, and "malformed" is what a format refuses   *)
(* (a URL, a number, a key, a version, a token of fewer than 32            *)
(* characters).  A configuration names its fields by their variables.      *)
(***************************************************************************)

Required == {"DATABASE_URL", "ANTHROPIC_API_KEY", "VOYAGE_API_KEY", "LANGFUSE_PUBLIC_KEY",
             "LANGFUSE_SECRET_KEY", "ALERT_CHANNEL_TOKEN", "ALERT_CHANNEL_CHAT_ID",
             "DEADMAN_PING_URL", "GOOGLE_SA_KEY_B64", "CALENDAR_ID_HUSBAND", "CALENDAR_ID_WIFE"}

Efforts == {"REASONING_EFFORT", "FAST_EFFORT", "DEEP_EFFORT"}
Lists   == {"WA_JID_HUSBAND", "WA_JID_WIFE", "WA_HOUSEHOLD_CONVERSATIONS"}

\* What a variable that is not set stands for.
Defaults ==
  [CHEAP_MODEL_ID |-> {"claude-haiku-4-5-20251001"}, REASONING_MODEL_ID |-> {"claude-sonnet-5-5"},
   REASONING_EFFORT |-> {"low"}, TURN_ROUTING |-> {"off"}, JEV_MODEL |-> {"DEFAULT_JEV_MODEL"},
   FAST_MODEL_ID |-> {"claude-haiku-5-5"}, DEEP_MODEL_ID |-> {"claude-opus-5-5"},
   FAST_EFFORT |-> {"low"}, DEEP_EFFORT |-> {"medium"},
   TURN_ROUTING_TIERS |-> {"standard", "deep"}, LANGFUSE_BASE_URL |-> {"https://cloud.langfuse.com"},
   WA_SESSION_DIR |-> {".wa-session"}, WA_CLIENT_VERSION |-> {"2.3000.1043857760"},
   APPROVAL_TTL_HOURS |-> {"12"}, BACKOFFICE_PORT |-> {"8787"},
   BACKOFFICE_DIST_DIR |-> {"backoffice/dist"}, BACKOFFICE_MONTHLY_BUDGET_USD |-> {"50"}]

Offered(v) == IF v = "TURN_ROUTING" THEN {"off", "shadow", "on"}
              ELSE {"low", "medium", "high", "xhigh", "max", "default"}

ConsoleSchema == {"BACKOFFICE_TOKEN", "BACKOFFICE_PORT", "BACKOFFICE_DIST_DIR",
                  "BACKOFFICE_DATABASE_URL", "BACKOFFICE_MONTHLY_BUDGET_USD"}

EnvSchema == Required \cup (DOMAIN Defaults \ ConsoleSchema) \cup {"TYPESAFE_API_KEY"}

ProductionSchema == EnvSchema \cup Lists

Formatted == {"LANGFUSE_BASE_URL", "DEADMAN_PING_URL", "WA_CLIENT_VERSION", "APPROVAL_TTL_HOURS",
              "GOOGLE_SA_KEY_B64", "BACKOFFICE_TOKEN", "BACKOFFICE_PORT",
              "BACKOFFICE_MONTHLY_BUDGET_USD"}

-----------------------------------------------------------------------------
Items(value) == value \ {""}

Accepts(v, value) ==
  CASE v \in Lists                      -> Items(value) # {}
    [] v = "TURN_ROUTING_TIERS"         -> /\ Items(value) \subseteq {"fast", "standard", "deep"}
                                           /\ "standard" \in Items(value)
    [] v \in Efforts \cup {"TURN_ROUTING"} -> \E choice \in Offered(v) : value = {choice}
    [] v \in Formatted                  -> value # {} /\ "malformed" \notin value /\ "" \notin value
    [] OTHER                            -> value # {}

\* No default takes the place of a value that is set, an empty one included.
Issues(env, schema) ==
  {v \in schema : IF v \in DOMAIN env THEN ~Accepts(v, env[v])
                  ELSE v \notin DOMAIN Defaults \cup {"TYPESAFE_API_KEY"}}

Undefined == {}

\* Lists lose their blanks; an effort of "default" is one that is not sent.
Meaning(v, value) ==
  CASE v \in Lists \cup {"TURN_ROUTING_TIERS"}   -> Items(value)
    [] v \in Efforts /\ value = {"default"}      -> Undefined
    [] OTHER                                     -> value

Parsed(env, schema) ==
  [v \in schema |-> IF v \in DOMAIN env THEN Meaning(v, env[v])
                    ELSE IF v \in DOMAIN Defaults THEN Defaults[v] ELSE Undefined]

-----------------------------------------------------------------------------
(* The loaders: what they throw, and what they return if that is nothing.  *)

Pick(env, schema) == [issues |-> Issues(env, schema), config |-> Parsed(env, schema)]

\* Each is asked for its own first; what is wrong with it hides the other.
Both(first, then) ==
  [issues |-> IF first.issues # {} THEN first.issues ELSE then.issues,
   config |-> [v \in DOMAIN first.config \cup DOMAIN then.config |->
                 IF v \in DOMAIN first.config THEN first.config[v] ELSE then.config[v]]]

\* With the rule across fields that the schemas cannot hold.
LoadConfig(env) ==
  LET parsed == Pick(env, EnvSchema) IN
  IF parsed.issues = {} /\ parsed.config["TURN_ROUTING"] # {"off"}
                        /\ parsed.config["TYPESAFE_API_KEY"] = Undefined
  THEN [parsed EXCEPT !.issues = {"TYPESAFE_API_KEY"}] ELSE parsed

\* Of the process.
LoadProductionConfig(env) == Both(Pick(env, ProductionSchema), LoadConfig(env))

\* Of the transport runner, of pairing, and of the migrations by themselves.
LoadTransportOpsConfig(env) ==
  Pick(env, {"WA_SESSION_DIR", "WA_CLIENT_VERSION", "ALERT_CHANNEL_TOKEN", "ALERT_CHANNEL_CHAT_ID",
             "DEADMAN_PING_URL"})

LoadWaSessionDir(env) == Pick(env, {"WA_SESSION_DIR"})

LoadDatabaseUrl(env) == Pick(env, {"DATABASE_URL"})

\* Of the back office: its own, and of the process' what it reads and pings with.
LoadBackofficeConfig(env) ==
  Both(Pick(env, ConsoleSchema),
       Pick(env, {"LANGFUSE_PUBLIC_KEY", "LANGFUSE_SECRET_KEY", "LANGFUSE_BASE_URL",
                  "ANTHROPIC_API_KEY", "VOYAGE_API_KEY", "GOOGLE_SA_KEY_B64",
                  "CALENDAR_ID_HUSBAND", "CALENDAR_ID_WIFE"}))
=============================================================================
