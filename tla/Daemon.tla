------------------------------- MODULE Daemon -------------------------------
(* The life of launchscoped: main reads the configuration, finds or makes  *)
(* the API key, reads the apps, wires the router and listens; systemd      *)
(* starts it again whenever it ends; clients make requests of it.          *)
(*                                                                         *)
(* One request is served at a time: the handlers share nothing here that   *)
(* one of them changes.  What becomes of the process slot is in Manager,   *)
(* of the CEC state in CecBridge, of the volume in Audio.                  *)
EXTENDS Integers, LaunchCommand

CONSTANTS
    Disks,      \* what the operator may have put into the config directory
    NewKeys,    \* what generateAPIKey may draw
    Tried,      \* the keys that clients send, "" for none
    Ids,        \* the app ids that clients ask for
    Escaped,    \* those of them that %q does not print as they are
    MaxMishaps  \* bound: crashes and failures

\* A file's text is a sequence of white space and at most one key.
KeyFile == [exists : BOOLEAN, text : Seq(STRING)]
File(text) == [exists |-> TRUE, text |-> text]
NoFile == [exists |-> FALSE, text |-> <<>>]

\* A field that config.json leaves out is 0, "" or "absent".
ConfigFile ==
    [parses : BOOLEAN, port : Int, key : STRING, keyFile : BOOLEAN, cec : BOOLEAN,
     initialActive : {"absent", "true", "false"}, activate : {"absent", "true", "false"}]

ASSUME DaemonAssumption ==
    /\ Disks \subseteq [config : ConfigFile, apps : [parses : BOOLEAN, list : Seq(App)],
                        userKey : KeyFile, apiKey : KeyFile]
    /\ NewKeys \subseteq STRING \ {Empty, Newline}
    /\ MaxMishaps \in Nat

TrimSpace(text) ==
    LET keys == {text[i] : i \in DOMAIN text} \ {Newline}
    IN  IF keys = {} THEN Empty ELSE CHOOSE k \in keys : TRUE

NoConfig == [port |-> 0, key |-> Empty, cec |-> FALSE, initialActive |-> FALSE, activate |-> FALSE]
NoServer == [key |-> Empty, cec |-> "none", attempted |-> FALSE]
NoAnswer == [code |-> 0, trusted |-> TRUE, holder |-> FALSE, app |-> Empty, argv |-> <<>>]

VARIABLES
    disk,     \* config.json, apps.json, the file of api_key_file, the key file
    pc,       \* how far main has come; "down" when there is no process
    drawn,    \* the generated key that is on its way to the disk
    cfg,      \* cfgLoader's pointer
    apps,     \* appsLoader's pointer
    server,   \* what NewRouter keeps: the key and the CEC client
    answer,   \* the answer being sent
    mishaps,  \* crashes and failures left
    \* History.
    known     \* the key with which the daemon first listened: what clients were told

vars == <<disk, pc, drawn, cfg, apps, server, answer, mishaps, known>>
memory == <<drawn, cfg, apps, server, answer>>

Forget ==
    /\ drawn' = Empty
    /\ cfg' = NoConfig
    /\ apps' = <<>>
    /\ server' = NoServer
    /\ answer' = NoAnswer

Init ==
    /\ disk \in Disks
    /\ pc = "down"
    /\ drawn = Empty
    /\ cfg = NoConfig
    /\ apps = <<>>
    /\ server = NoServer
    /\ answer = NoAnswer
    /\ mishaps = MaxMishaps
    /\ known = Empty

\* os.Exit(1), or the end of the process for another reason.
Exit == pc' = "down" /\ Forget

Mishap == mishaps > 0 /\ mishaps' = mishaps - 1

-----------------------------------------------------------------------------
(* main.go and the loaders.                                                *)

Start ==
    /\ pc = "down"
    /\ pc' = "config"
    /\ UNCHANGED <<disk, memory, mishaps, known>>

\* applyDefaults.  Only the port has one; a missing config.json is an empty one.
Decoded(key) ==
    LET c == disk.config IN
    [port |-> IF c.port = 0 THEN 8765 ELSE c.port, key |-> key, cec |-> c.cec,
     initialActive |-> c.initialActive = "true", activate |-> c.activate = "true"]

Resolved(key) ==
    /\ cfg' = Decoded(key)
    /\ pc' = "validate"
    /\ UNCHANGED <<drawn, apps, server, answer>>

\* config.json is read and resolveAPIKey looks for the key where it may be.  A
\* generated key is not one that clients already have.
LoadConfig ==
    LET c == disk.config IN
    /\ pc = "config"
    /\ \/ ~c.parses /\ Exit
       \/ c.parses /\ c.keyFile /\ disk.userKey.exists /\ Resolved(TrimSpace(disk.userKey.text))
       \/ c.parses /\ c.keyFile /\ ~disk.userKey.exists /\ Exit
       \/ c.parses /\ ~c.keyFile /\ c.key # Empty /\ Resolved(c.key)
       \/ c.parses /\ ~c.keyFile /\ c.key = Empty /\ disk.apiKey.exists
          /\ Resolved(TrimSpace(disk.apiKey.text))
       \/ /\ c.parses /\ ~c.keyFile /\ c.key = Empty /\ ~disk.apiKey.exists
          /\ drawn' \in NewKeys \ {known}
          /\ pc' = "create"
          /\ UNCHANGED <<cfg, apps, server, answer>>
    /\ UNCHANGED <<disk, mishaps, known>>

\* Mutant of CreateKey: the key is not written to the disk.
CreateKeyNot ==
    /\ pc = "create"
    /\ cfg' = Decoded(drawn)
    /\ pc' = "validate"
    /\ UNCHANGED <<disk, drawn, apps, server, answer, mishaps, known>>

\* os.WriteFile opens the file, creating it, ...
CreateKey ==
    /\ pc = "create"
    /\ disk' = [disk EXCEPT !.apiKey = File(<<>>)]
    /\ pc' = "write"
    /\ UNCHANGED <<memory, mishaps, known>>

\* Mutant of WriteKey: only the memory gets the key.
WriteKeyNot ==
    /\ pc = "write"
    /\ cfg' = Decoded(drawn)
    /\ pc' = "validate"
    /\ UNCHANGED <<disk, drawn, apps, server, answer, mishaps, known>>

\* ... and writes its text.
WriteKey ==
    /\ pc = "write"
    /\ disk' = [disk EXCEPT !.apiKey = File(<<drawn>>)]
    /\ cfg' = Decoded(drawn)
    /\ pc' = "validate"
    /\ UNCHANGED <<drawn, apps, server, answer, mishaps, known>>

ValidPort(p) == 1 <= p /\ p <= 65535

\* Mutant of Validate: only the port is looked at.
ValidatePort ==
    /\ pc = "validate"
    /\ IF ValidPort(cfg.port) THEN pc' = "apps" /\ UNCHANGED memory ELSE Exit
    /\ UNCHANGED <<disk, mishaps, known>>

Validate ==
    /\ pc = "validate"
    /\ IF ValidPort(cfg.port) /\ cfg.key # Empty
       THEN pc' = "apps" /\ UNCHANGED memory
       ELSE Exit
    /\ UNCHANGED <<disk, mishaps, known>>

Valid(list) ==
    \A i \in DOMAIN list :
        /\ list[i].id # Empty
        /\ list[i].exec # <<>>
        /\ \A j \in DOMAIN list : list[i].id = list[j].id => i = j

\* A missing apps.json is an empty list.
LoadApps ==
    /\ pc = "apps"
    /\ IF disk.apps.parses /\ Valid(disk.apps.list)
       THEN /\ apps' = disk.apps.list
            /\ pc' = "router"
            /\ UNCHANGED <<drawn, cfg, server, answer>>
       ELSE Exit
    /\ UNCHANGED <<disk, mishaps, known>>

\* The monitor and the manager are started, then NewRouter.  An activate that
\* fails is logged.
NewRouter ==
    /\ pc = "router"
    /\ server' = [key |-> cfg.key,
                  cec |-> IF ~cfg.cec THEN "none"
                          ELSE IF cfg.initialActive THEN "active" ELSE "unknown",
                  attempted |-> cfg.cec /\ cfg.activate]
    /\ pc' = "listen"
    /\ UNCHANGED <<disk, drawn, cfg, apps, answer, mishaps, known>>

Listen ==
    /\ pc = "listen"
    /\ pc' = "up"
    /\ known' = IF known = Empty THEN server.key ELSE known
    /\ UNCHANGED <<disk, memory, mishaps>>

\* Mutant of Crash: the next process is taken to have what this one had.
CrashKeeps ==
    /\ pc # "down"
    /\ Mishap
    /\ pc' = "down"
    /\ UNCHANGED <<disk, memory, known>>

\* A signal, a panic, a file that cannot be read or written, a port that is taken.
Crash ==
    /\ pc # "down"
    /\ Mishap
    /\ Exit
    /\ UNCHANGED <<disk, known>>

-----------------------------------------------------------------------------
(* router.go and handlers.go.                                              *)

\* The codes that each handler may answer with.
HandlerCodes ==
    [status |-> {200}, apps |-> {200}, config |-> {200}, stop |-> {200},
     audioGet |-> {200, 500}, audioSet |-> {200, 400, 500},
     power |-> {202, 400}, ws |-> {101, 503},
     cecGet |-> {200}, cecPost |-> {204, 400}, cecCommand |-> {200, 500}]

Routes == DOMAIN HandlerCodes

\* The CEC handlers have no client unless CEC is enabled.
Codes(route) ==
    IF route \in {"cecGet", "cecPost", "cecCommand"} /\ server.cec = "none" THEN {503}
    ELSE HandlerCodes[route]

\* authMiddleware: the header goes before the query.
Admitted(local, header, query) ==
    local \/ (IF header = Empty THEN query ELSE header) = server.key

Answer(local, header, query, code, id, argv) ==
    answer' = [code |-> code, app |-> id, argv |-> argv,
               trusted |-> local \/ (known # Empty /\ known \in {header, query}),
               holder |-> known # Empty /\ header = known]

Refuse(local, header, query) ==
    /\ ~Admitted(local, header, query)
    /\ Answer(local, header, query, 401, Empty, <<>>)

Serve(local, header, query, route) ==
    /\ Admitted(local, header, query)
    /\ \E code \in Codes(route) : Answer(local, header, query, code, Empty, <<>>)

\* postLaunch and LaunchApp.  The manager may be busy before it looks for the
\* app, or be overtaken while it starts it; a command may not start.
Launch(local, header, query, id) ==
    LET found == {i \in DOMAIN apps : apps[i].id = id}
        To(code, app, argv) == Answer(local, header, query, code, app, argv)
    IN  /\ Admitted(local, header, query)
        /\ \/ To(409, Empty, <<>>)
           \/ found = {} /\ To(IF id \in Escaped THEN 500 ELSE 404, Empty, <<>>)
           \/ \E i \in found :
                LET built == AppArgv(apps[i]) IN
                IF ~built.ok THEN To(500, Empty, <<>>)
                ELSE \E code \in IF built.argv = <<>> THEN {500} ELSE {202, 409, 500} :
                        To(code, id, built.argv)

Request ==
    /\ pc = "up"
    /\ answer = NoAnswer
    /\ \E local \in BOOLEAN, header, query \in Tried \cup {Empty, known} :
        \/ Refuse(local, header, query)
        \/ \E route \in Routes : Serve(local, header, query, route)
        \/ \E id \in Ids : Launch(local, header, query, id)
    /\ UNCHANGED <<disk, pc, drawn, cfg, apps, server, mishaps, known>>

Respond ==
    /\ answer # NoAnswer
    /\ answer' = NoAnswer
    /\ UNCHANGED <<disk, pc, drawn, cfg, apps, server, mishaps, known>>

-----------------------------------------------------------------------------
Boot == Start \/ LoadConfig \/ CreateKey \/ WriteKey \/ Validate \/ LoadApps \/ NewRouter \/ Listen

Next == Boot \/ Crash \/ Request \/ Respond

Spec == Init /\ [][Next]_vars

\* systemd starts the daemon again, and main goes on to its end.
FairSpec == Spec /\ WF_vars(Boot)

-----------------------------------------------------------------------------
Words == Seq(Seq(STRING))

\* The types of main's variables, and that a process knows only what it has read
\* itself: nothing is left of the one before it.
TypeOK ==
    /\ disk.apiKey \in KeyFile
    /\ pc \in {"down", "config", "create", "write", "validate", "apps", "router", "listen", "up"}
    /\ drawn \in NewKeys \cup {Empty}
    /\ cfg \in [port : Int, key : STRING, cec : BOOLEAN, initialActive : BOOLEAN, activate : BOOLEAN]
    /\ apps \in {<<>>, disk.apps.list}
    /\ server \in [key : STRING, cec : {"none", "unknown", "active"}, attempted : BOOLEAN]
    /\ answer \in [code : Nat, trusted : BOOLEAN, holder : BOOLEAN, app : STRING, argv : Words]
    /\ mishaps \in Nat
    /\ known \in STRING
    /\ pc \in {"down", "config"} => <<drawn, cfg, apps, server>> = <<Empty, NoConfig, <<>>, NoServer>>

\* A request that is answered with anything but 401 came from this machine or
\* with the key that clients were told, whatever the config, the key files and
\* the crashes in between: a key file that was created and not yet written never
\* opens the API.
OnlyTrustedServed == answer.code \notin {0, 401} => answer.trusted

\* A client that sends the key it was told in the header is never locked out,
\* however often the daemon has been restarted: a generated key is found again.
HolderServed == answer.holder => answer.code # 401

\* A daemon that has listened once comes up again after every crash: what it has
\* left on the disk never keeps the next one from starting.
RecoversOnceUp == known # Empty ~> pc = "up"

\* What the server executes for the entry is what the UI's shell would execute
\* for it in standalone mode: these words, and nothing more than words.
Agree(app) == ShellWords(BuildCmd(app)) = Ok(answer.argv)

\* For an entry that says what the two programs assume differently, and that
\* means nothing more to a shell than its words, both execute the same.
SameCommand ==
    \A i \in DOMAIN apps : answer.app = apps[i].id /\ SaysEnough(apps[i]) => Agree(apps[i])
=============================================================================
