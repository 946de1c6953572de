------------------------------- MODULE Deploy -------------------------------
(***************************************************************************)
(* Releases and their deploys: release.sh tags and publishes, deploy.yml   *)
(* runs on-host-deploy.sh on the host, which records what runs, pulls,     *)
(* migrates, swaps or recreates the containers, watches them come up and   *)
(* rolls back (infra/deploy, src/memory/migrate.ts).                       *)
(*                                                                         *)
(* Deploys are taken one after the other.  What a deploy leaves behind     *)
(* goes on under the next one: containers that still start, migrate or     *)
(* connect.  A container is named after the step that made it.  Release t  *)
(* ships the migrations 1 .. t.                                            *)
(***************************************************************************)
EXTENDS Naturals, FiniteSets, Config

CONSTANTS
  Deploys,   \* runs of deploy.yml
  MaxTag,    \* releases are 1 .. MaxTag; the host runs release 1 at first
  Pins,      \* releases whose compose file pins the bridge's name
  Environments  \* what the versions of the environment set; the host runs version 0 at first

ASSUME DeployConstants == MaxTag \in Nat \ {0} /\ Pins \subseteq 1 .. MaxTag /\ "launch" \notin Deploys

VARIABLES
  flaw,      \* what is wrong with which release (never changes)
  sudoers,   \* the host has the drop-in that lets hh apply the firewall
  images,    \* per release: not pushed, being built, in the registry, or failed
  whatsapp,  \* WhatsApp accepts the connection
  secret,    \* the version of the environment in the parameter store (never changes)
  disk,      \* the version in .env
  checkout,  \* the release the checkout is at
  box,       \* per service: its container
  bridge,    \* the live egress bridge: none, auto (named by Docker), pinned
  loaded,    \* the firewall's table is loaded
  applied,   \* schema_migrations
  mig,       \* who runs migrations: waiting for the lock, or with it, and what is to do
  clash,     \* history: a migration failed though nothing is wrong with it
  run        \* per deploy: how far it is, what it recorded, how it ended

deployVars == <<flaw, sudoers, images, whatsapp, secret, disk, checkout, box, bridge, loaded,
                applied, mig, clash, run>>

Releases == 1 .. MaxTag
NoTag    == 0
Looping  == 2    \* restarts that pass for a crash loop
Services == {"ezra", "backoffice"}
Runners  == Deploys \cup {"launch"}
Ended    == {"aborted", "died", "healthy", "kept", "rolled back"}

\* What the compose file sets wins over .env.  (It needs the password of the
\* database, which is taken to be there.)
Wiring ==
  [ezra       |-> [DATABASE_URL |-> {"postgres"}, WA_SESSION_DIR |-> {"/data/wa-session"}],
   backoffice |-> [BACKOFFICE_PORT |-> {"8787"}, BACKOFFICE_DIST_DIR |-> {"/app/backoffice/dist"}]]

Given(s, env) ==
  [v \in DOMAIN env \cup DOMAIN Wiring[s] |-> IF v \in DOMAIN Wiring[s] THEN Wiring[s][v] ELSE env[v]]

Loads(s, env) == IF s = "ezra" THEN LoadProductionConfig(Given(s, env)) ELSE LoadBackofficeConfig(Given(s, env))

\* The versions a container of the service comes up with.
Bootable == [s \in Services |-> {e \in DOMAIN Environments : Loads(s, Environments[e]).issues = {}}]

ASSUME EnvironmentConstants == \A s \in Services : 0 \in Bootable[s]

Made(t, who) == [by |-> who, tag |-> t, env |-> disk, at |-> "boot", restarts |-> 0,
                 marked |-> FALSE, socket |-> "none"]
Gone   == [by |-> <<"nobody", "gone">>, tag |-> NoTag, env |-> 0, at |-> "gone", restarts |-> 0,
           marked |-> FALSE, socket |-> "none"]
NotMigrating == [at |-> "off", todo |-> {}]
NotRunning(at) == [at |-> at, tag |-> NoTag, prior |-> NoTag, connected |-> FALSE, before |-> {},
                   watched |-> {}, seen |-> {}, recreated |-> FALSE, told |-> FALSE]

DeployInit ==
  /\ flaw \in [what : {"none"}, tag : {NoTag}]
              \cup [what : {"migration", "boot"}, tag : Releases \ {1}]
  /\ secret \in DOMAIN Environments
  /\ flaw.what # "none" => \A s \in Services : secret \in Bootable[s]   \* one thing is wrong at a time
  /\ sudoers \in BOOLEAN /\ whatsapp \in BOOLEAN
  /\ images = [t \in Releases |-> IF t = 1 THEN "green" ELSE "none"]
  /\ disk = 0 /\ checkout = 1
  /\ box = [s \in Services |-> [Made(1, <<"before", "swap">>) EXCEPT !.at = "up", !.marked = TRUE,
                                                                    !.socket = "open"]]
  /\ bridge \in {"auto", "pinned"} /\ loaded = TRUE
  /\ applied = {1} /\ mig = [r \in Runners |-> NotMigrating] /\ clash = FALSE
  /\ run = [d \in Deploys |-> NotRunning("none")]

Active(d) == run[d].at \notin Ended \cup {"none"}

world == <<flaw, sudoers, images, whatsapp, secret>>
host  == <<disk, checkout, box, bridge, loaded, applied, mig, clash>>

Enters(d, at) == run' = [run EXCEPT ![d] = IF at \in Ended THEN NotRunning(at) ELSE [@ EXCEPT !.at = at]]

-----------------------------------------------------------------------------
(* release.sh and deploy.yml.                                              *)

\* release.sh refuses a tag that is taken; the push starts the build.
PushTag(t) ==
  /\ images[t] = "none"
  /\ images' = [images EXCEPT ![t] = "building"]
  /\ UNCHANGED <<flaw, sudoers, whatsapp, secret, host, run>>

BuildEnds(t) ==
  /\ images[t] = "building"
  /\ \E end \in {"green", "red"} : images' = [images EXCEPT ![t] = end]
  /\ UNCHANGED <<flaw, sudoers, whatsapp, secret, host, run>>

\* The job checks the release out and starts the script.
Fires(d, t) ==
  /\ run[d].at = "none" /\ \A e \in Deploys : ~Active(e)
  /\ run' = [run EXCEPT ![d] = [@ EXCEPT !.at = "env", !.tag = t]]
  /\ checkout' = t
  /\ UNCHANGED <<world, disk, box, bridge, loaded, applied, mig, clash>>

\* release.sh publishes when the build it waits for is green.
PublishRelease(d, t) == images[t] = "green" /\ Fires(d, t)

\* workflow_dispatch: any tag, its image ready or not.
Dispatch(d, t) == images[t] # "none" /\ Fires(d, t)

-----------------------------------------------------------------------------
(* on-host-deploy.sh up to the swap.                                       *)

\* materialize_env: all of it or nothing.
MaterializeEnv(d) ==
  /\ run[d].at = "env"
  /\ \/ disk' = secret /\ Enters(d, "record")
     \/ UNCHANGED disk /\ Enters(d, "aborted")
  /\ UNCHANGED <<world, checkout, box, bridge, loaded, applied, mig, clash>>

\* The tag that runs, and the last socket state its container logged.
RecordPrior(d) ==
  /\ run[d].at = "record"
  /\ run' = [run EXCEPT ![d] = [@ EXCEPT !.at = "pull",
                                        !.prior = box["ezra"].tag,
                                        !.connected = box["ezra"].socket = "open",
                                        !.before = {box[s].by : s \in Services}]]
  /\ UNCHANGED <<world, host>>

\* A bridge that is not what the compose file pins takes a clean recreate.
Drift == checkout \in Pins /\ bridge # "pinned"

\* The pull of an image that is not there fails, and any pull may.
Pull(d) ==
  /\ run[d].at = "pull"
  /\ \/ images[run[d].tag] = "green" /\ Enters(d, IF Drift THEN "down" ELSE "migrate")
     \/ Enters(d, "aborted")
  /\ UNCHANGED <<world, host>>

-----------------------------------------------------------------------------
(* runMigrations, in the deploy's gate and in ezra's launch.               *)

\* (Any deploy that replaces ezra ends the migrations of its launch.)
Settled(boxes) == IF boxes["ezra"].by = box["ezra"].by THEN mig
                  ELSE [mig EXCEPT !["launch"] = NotMigrating]

Ships(r) == 1 .. (IF r = "launch" THEN box["ezra"].tag ELSE run[r].tag)

\* main loads the whole configuration first, the gate only asks for the database,
\* which the compose file sets.
StartMigrating(r) ==
  /\ mig[r].at = "off"
  /\ IF r = "launch" THEN box["ezra"].at = "boot" /\ box["ezra"].env \in Bootable["ezra"]
     ELSE run[r].at = "migrate" /\ LoadDatabaseUrl(Wiring["ezra"]).issues = {}
  /\ mig' = [mig EXCEPT ![r].at = "wait"]
  /\ UNCHANGED <<world, disk, checkout, box, bridge, loaded, applied, clash, run>>

\* Mutant: no advisory lock.
ReadAppliedMutant(r) ==
  /\ mig[r].at = "wait"
  /\ mig' = [mig EXCEPT ![r] = [at |-> "apply", todo |-> Ships(r) \ applied]]
  /\ UNCHANGED <<world, disk, checkout, box, bridge, loaded, applied, clash, run>>

\* What is applied is read under the advisory lock.
ReadApplied(r) ==
  /\ mig[r].at = "wait"
  /\ \A q \in Runners : mig[q].at # "apply"
  /\ mig' = [mig EXCEPT ![r] = [at |-> "apply", todo |-> Ships(r) \ applied]]
  /\ UNCHANGED <<world, disk, checkout, box, bridge, loaded, applied, clash, run>>

\* (A launch that has migrated begins to connect, and logs that.)
MigrationEnds(r, ok) ==
  /\ IF r = "launch"
     THEN /\ box' = IF ok THEN [box EXCEPT !["ezra"].at = "connect", !["ezra"].socket = "connecting"]
                    ELSE [box EXCEPT !["ezra"].at = "loop"]
          /\ UNCHANGED run
     ELSE Enters(r, IF ok THEN "swap" ELSE "aborted") /\ UNCHANGED box
  /\ mig' = [mig EXCEPT ![r] = NotMigrating]

\* The next file, in its own transaction; its name is a primary key.
Migrate(r) ==
  /\ mig[r].at = "apply"
  /\ IF mig[r].todo = {} THEN MigrationEnds(r, TRUE) /\ UNCHANGED <<applied, clash>>
     ELSE \E file \in mig[r].todo :
            LET bad == flaw = [what |-> "migration", tag |-> file] IN
            /\ \A later \in mig[r].todo : file <= later
            /\ IF bad \/ file \in applied
               THEN /\ MigrationEnds(r, FALSE)
                    /\ clash' = (clash \/ ~bad)
                    /\ UNCHANGED applied
               ELSE /\ applied' = applied \cup {file}
                    /\ mig' = [mig EXCEPT ![r].todo = @ \ {file}]
                    /\ UNCHANGED <<box, run, clash>>
  /\ UNCHANGED <<world, disk, checkout, bridge, loaded>>

-----------------------------------------------------------------------------
(* The swap.                                                               *)

\* compose up -d leaves a container alone that is as it should be.
Upped(services, t, who) ==
  [s \in Services |->
     IF s \notin services \/ (box[s].at # "gone" /\ box[s].tag = t /\ box[s].env = disk)
     THEN box[s] ELSE Made(t, who)]

Ups(boxes) == box' = boxes /\ mig' = Settled(boxes)

Watches(d, boxes) ==
  run' = [run EXCEPT ![d] = [@ EXCEPT !.at = "gate", !.watched = {boxes[s].by : s \in Services}]]

\* In place; where that fails, with ezra replaced or not, a recreate follows.
Swap(d) ==
  /\ run[d].at = "swap"
  /\ \/ LET boxes == Upped(Services, run[d].tag, <<d, "swap">>) IN Ups(boxes) /\ Watches(d, boxes)
     \/ \E some \in {{}, {"ezra"}} :
          Ups(Upped(some, run[d].tag, <<d, "swap">>)) /\ Enters(d, "down")
  /\ UNCHANGED <<world, disk, checkout, bridge, loaded, applied, clash>>

ComposeDown(d) ==
  /\ run[d].at = "down"
  /\ Ups([s \in Services |-> Gone])
  /\ bridge' = "none"
  /\ run' = [run EXCEPT ![d] = [@ EXCEPT !.at = "up", !.recreated = TRUE]]
  /\ UNCHANGED <<world, disk, checkout, loaded, applied, clash>>

\* An up that fails ends the script (set -e), with nothing or everything up.
ComposeUp(d) ==
  /\ run[d].at = "up"
  /\ \/ /\ Ups(Upped(Services, run[d].tag, <<d, "recreate">>))
        /\ bridge' = (IF checkout \in Pins THEN "pinned" ELSE "auto")
        /\ Enters(d, "firewall") \/ Enters(d, "died")
     \/ UNCHANGED <<box, mig, bridge>> /\ Enters(d, "died")
  /\ UNCHANGED <<world, disk, checkout, loaded, applied, clash>>

\* reapply_egress: where sudo is denied nothing happens; a load that fails
\* behind the delete leaves no table.  Both are told.
ReapplyEgress(d) ==
  /\ run[d].at = "firewall"
  /\ \E ok \in BOOLEAN :
       /\ ok => sudoers
       /\ loaded' = (ok \/ (loaded /\ ~sudoers))
       /\ run' = [run EXCEPT ![d] = [@ EXCEPT !.at = "gate", !.told = ~ok,
                                             !.watched = {box[s].by : s \in Services}]]
  /\ UNCHANGED <<world, disk, checkout, box, bridge, applied, mig, clash>>

-----------------------------------------------------------------------------
(* The gate.                                                               *)

Watched(d) == {s \in Services : box[s].by \in run[d].watched}

\* One look at both containers: a crash loop ends the wait, two markers end it well.
Gate(d) ==
  /\ run[d].at = "gate"
  /\ LET seen == run[d].seen \cup {s \in Watched(d) : box[s].marked} IN
     IF \E s \in Watched(d) : box[s].at = "loop" \/ box[s].restarts = Looping THEN Enters(d, "failed")
     ELSE IF seen = Services THEN Enters(d, "healthy")
     ELSE run' = [run EXCEPT ![d] = [@ EXCEPT !.seen = seen]]
  /\ UNCHANGED <<world, host>>

GateTimesOut(d) ==
  /\ run[d].at = "gate"
  /\ Enters(d, "failed")
  /\ UNCHANGED <<world, host>>

\* Mutant: a failed release is always rolled back.
SuspectMutant(d) == run[d].prior \notin {NoTag, run[d].tag}

\* The release is the suspect only if what ran before was connected.
Suspect(d) == run[d].prior \notin {NoTag, run[d].tag} /\ run[d].connected

\* (The rollback too may fail, and ends the script the same way.)
Rollback(d) ==
  /\ run[d].at = "failed"
  /\ IF Suspect(d)
     THEN \/ Ups(Upped(Services, run[d].prior, <<d, "rollback">>)) /\ Enters(d, "rolled back")
          \/ UNCHANGED <<box, mig>> /\ Enters(d, "died")
     ELSE UNCHANGED <<box, mig>> /\ Enters(d, "kept")
  /\ UNCHANGED <<world, disk, checkout, bridge, loaded, applied, clash>>

-----------------------------------------------------------------------------
(* The containers, and the world around them.                              *)

Broken(s) == flaw = [what |-> "boot", tag |-> box[s].tag]

\* ezra has migrated; its launch line comes when the socket is open.
EzraConnects ==
  /\ box["ezra"].at = "connect"
  /\ IF Broken("ezra") THEN box' = [box EXCEPT !["ezra"].at = "loop"]
     ELSE /\ whatsapp
          /\ box' = [box EXCEPT !["ezra"].at = "up", !["ezra"].marked = TRUE, !["ezra"].socket = "open"]
  /\ UNCHANGED <<world, disk, checkout, bridge, loaded, applied, mig, clash, run>>

BackofficeStarts ==
  /\ box["backoffice"].at = "boot" /\ box["backoffice"].env \in Bootable["backoffice"]
  /\ box' = [box EXCEPT !["backoffice"].at = "up", !["backoffice"].marked = TRUE]
  /\ UNCHANGED <<world, disk, checkout, bridge, loaded, applied, mig, clash, run>>

\* A loader throws before anything else happens, and does so at every restart.
EnvironmentRefused(s) ==
  /\ box[s].at = "boot" /\ box[s].env \notin Bootable[s]
  /\ box' = [box EXCEPT ![s].at = "loop"]
  /\ UNCHANGED <<world, disk, checkout, bridge, loaded, applied, mig, clash, run>>

\* Its process ends and Docker starts it again: the restart counts, and the log
\* says what it said until the new process connects.
EzraRestarts ==
  /\ box["ezra"].at \in {"connect", "up"} /\ box["ezra"].restarts < Looping
  /\ box' = [box EXCEPT !["ezra"].at = "boot", !["ezra"].restarts = @ + 1]
  /\ UNCHANGED <<world, disk, checkout, bridge, loaded, applied, mig, clash, run>>

\* The socket drops, and comes back.
SocketMoves ==
  /\ box["ezra"].at = "up"
  /\ \/ box["ezra"].socket = "open" /\ ~whatsapp /\ box' = [box EXCEPT !["ezra"].socket = "closed"]
     \/ box["ezra"].socket = "closed" /\ whatsapp /\ box' = [box EXCEPT !["ezra"].socket = "open"]
  /\ UNCHANGED <<world, disk, checkout, bridge, loaded, applied, mig, clash, run>>

WhatsAppTurns ==
  /\ whatsapp' = ~whatsapp
  /\ UNCHANGED <<flaw, sudoers, images, secret, host, run>>

\* reconcile-host-config.sh, which a deploy that was denied sudo asks for: the
\* operator runs it as root, behind that deploy.  It installs the drop-in, then applies
\* the firewall; a load that fails leaves no table.
Reconcile ==
  /\ ~sudoers
  /\ (\E d \in Deploys : run[d].at \in Ended) /\ \A d \in Deploys : ~Active(d)
  /\ sudoers' = TRUE
  /\ \E ok \in BOOLEAN :
       /\ ok => bridge # "none"
       /\ loaded' = ok
  /\ UNCHANGED <<flaw, whatsapp, images, secret, disk, checkout, box, bridge, applied, mig, clash, run>>

DeployNext ==
  \/ \E t \in Releases : PushTag(t) \/ BuildEnds(t)
  \/ \E d \in Deploys, t \in Releases : PublishRelease(d, t) \/ Dispatch(d, t)
  \/ \E d \in Deploys :
       \/ MaterializeEnv(d) \/ RecordPrior(d) \/ Pull(d)
       \/ Swap(d) \/ ComposeDown(d) \/ ComposeUp(d) \/ ReapplyEgress(d)
       \/ Gate(d) \/ GateTimesOut(d) \/ Rollback(d)
  \/ \E r \in Runners : StartMigrating(r) \/ ReadApplied(r) \/ Migrate(r)
  \/ \E s \in Services : EnvironmentRefused(s)
  \/ EzraConnects \/ BackofficeStarts \/ SocketMoves \/ EzraRestarts \/ WhatsAppTurns
  \/ Reconcile

-----------------------------------------------------------------------------
(* Properties.                                                             *)

Tags(boxes) == {boxes[s].tag : s \in Services}

Honestly(d) ==
  CASE run'[d].at = "aborted" ->
         run[d].before # {} => {box'[s].by : s \in Services} = run[d].before
    [] run'[d].at = "healthy" ->
         /\ Tags(box') = {run[d].tag}
         /\ \A s \in Services : box'[s].marked /\ box'[s].env = secret
         /\ run[d].recreated /\ ~run[d].told /\ run[d].tag \in Pins => loaded' /\ bridge' = "pinned"
    [] run'[d].at = "rolled back" ->
         Tags(box') = {run[d].prior} /\ run[d].connected /\ run[d].prior # run[d].tag
    [] run'[d].at = "kept" -> Tags(box') = {run[d].tag}
    [] OTHER -> TRUE

\* What a deploy says of itself when it ends is what happened to the host:
\* aborted, and the containers are the ones that ran before; healthy, and both run
\* the release, in the environment of the parameter store, and have come up, with the
\* firewall in force on a network it recreated unless it said otherwise; rolled back,
\* and what runs is the release that was connected when it came, never one that was
\* down already.  It leaves a host with nothing running only where it died.
DeployIsHonest ==
  [][\A d \in Deploys : run'[d].at \in Ended /\ run[d].at \notin Ended => Honestly(d)]_deployVars

\* The gate of a deploy and the launch of the ezra an earlier one has left behind
\* never take one another's work: a migration fails for what is wrong with it.
MigratedOnce == ~clash
=============================================================================
