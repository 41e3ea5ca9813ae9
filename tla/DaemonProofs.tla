---------------------------- MODULE DaemonProofs ----------------------------
(* Theorems of Daemon.  Those about the key rest on one fact: once clients *)
(* have been told a key, the disk leads every later process to the same    *)
(* key.  The one about commands rests on LaunchProofs and on this: what is *)
(* answered to a launch is the argv of the only app with that id.          *)
EXTENDS Daemon, LaunchProofs

\* resolveAPIKey finds a key on the disk, and which.
HasKey ==
    /\ disk.config.parses
    /\ disk.config.keyFile => disk.userKey.exists
    /\ ~disk.config.keyFile /\ disk.config.key = Empty => disk.apiKey.exists

FoundKey ==
    IF disk.config.keyFile THEN TrimSpace(disk.userKey.text)
    ELSE IF disk.config.key # Empty THEN disk.config.key
    ELSE TrimSpace(disk.apiKey.text)

Leads(k) == HasKey /\ k = FoundKey

DiskType ==
    disk \in [config : ConfigFile, apps : [parses : BOOLEAN, list : Seq(App)],
              userKey : KeyFile, apiKey : KeyFile]

\* A key is made only on a disk that has none and that no client knows.
Making ==
    pc \in {"create", "write"} =>
        /\ known = Empty
        /\ drawn \in NewKeys
        /\ disk.config.parses /\ ~disk.config.keyFile /\ disk.config.key = Empty

Loaded == pc \in {"validate", "apps", "router", "listen", "up"} => Leads(cfg.key)

Validated == pc \in {"apps", "router", "listen", "up"} => cfg.key # Empty

Wired == pc \in {"listen", "up"} => server.key = cfg.key

Told == known # Empty => Leads(known)

Serving == pc = "up" => known # Empty

Inv == DiskType /\ Making /\ Loaded /\ Validated /\ Wired /\ Told /\ Serving

AllAnswers == OnlyTrustedServed /\ HolderServed

\* The daemon that is up has the key that clients know.
LEMMA ServesKnown ==
    ASSUME Inv, pc = "up" PROVE server.key = known /\ known # Empty
<1>1. Leads(cfg.key) /\ Leads(known) /\ known # Empty
  BY DEF Inv, Loaded, Told, Serving
<1> QED BY <1>1 DEF Inv, Wired, Leads

LEMMA TrimGenerated ==
    ASSUME DaemonAssumption, NEW k \in NewKeys PROVE TrimSpace(<<k>>) = k
<1> DEFINE text == <<k>>
<1>1. DOMAIN text = {1} /\ text[1] = k
  OBVIOUS
<1>2. k # Newline
  BY DEF DaemonAssumption
<1> HIDE DEF text
<1>3. {text[i] : i \in DOMAIN text} = {k}
  BY <1>1
<1>4. {text[i] : i \in DOMAIN text} \ {Newline} = {k}
  BY <1>2, <1>3
<1>5. TrimSpace(text) = k
  BY <1>4 DEF TrimSpace
<1> QED BY <1>5 DEF text

LEMMA SameDisk ==
    ASSUME UNCHANGED disk PROVE HasKey' = HasKey /\ FoundKey' = FoundKey /\ DiskType' = DiskType
BY DEF HasKey, FoundKey, DiskType

LEMMA InvInit == ASSUME DaemonAssumption, Init PROVE Inv
BY DEF DaemonAssumption, Init, Inv, DiskType, Making, Loaded, Validated, Wired, Told, Serving

\* An end of the process leaves the disk and what clients know as they are.
LEMMA InvExit == ASSUME Inv, Exit, UNCHANGED <<disk, known>> PROVE Inv'
BY SameDisk DEF Exit, Inv, Making, Loaded, Validated, Wired, Told, Serving, Leads

LEMMA InvLoadConfig == ASSUME DaemonAssumption, Inv, LoadConfig PROVE Inv'
<1> USE DEF LoadConfig
<1>1. UNCHANGED <<disk, known>>
  OBVIOUS
<1>2. CASE Exit
  BY <1>1, <1>2, InvExit
<1>3. ASSUME NEW k, Resolved(k), Leads(k) PROVE Inv'
  <2>1. cfg'.key = k /\ pc' = "validate"
    BY <1>3 DEF Resolved, Decoded
  <2> QED
    BY <1>1, <1>3, <2>1, SameDisk DEF Inv, Making, Loaded, Validated, Wired, Told, Serving, Leads
<1>4. CASE /\ disk.config.parses /\ ~disk.config.keyFile /\ disk.config.key = Empty
           /\ ~disk.apiKey.exists /\ drawn' \in NewKeys \ {known} /\ pc' = "create"
  <2>1. known = Empty
    BY <1>4 DEF Inv, Told, Leads, HasKey
  <2> QED
    BY <1>1, <1>4, <2>1, SameDisk DEF Inv, Making, Loaded, Validated, Wired, Told, Serving
<1>5. CASE /\ disk.config.parses /\ disk.config.keyFile /\ disk.userKey.exists
           /\ Resolved(TrimSpace(disk.userKey.text))
  BY <1>3, <1>5 DEF Leads, HasKey, FoundKey
<1>6. CASE /\ disk.config.parses /\ ~disk.config.keyFile /\ disk.config.key # Empty
           /\ Resolved(disk.config.key)
  BY <1>3, <1>6 DEF Leads, HasKey, FoundKey
<1>7. CASE /\ disk.config.parses /\ ~disk.config.keyFile /\ disk.config.key = Empty
           /\ disk.apiKey.exists /\ Resolved(TrimSpace(disk.apiKey.text))
  BY <1>3, <1>7 DEF Leads, HasKey, FoundKey
<1> QED BY <1>2, <1>4, <1>5, <1>6, <1>7

LEMMA InvCreateKey == ASSUME Inv, CreateKey PROVE Inv'
<1>1. File(<<>>) \in KeyFile
  BY DEF File, KeyFile
<1>2. disk' = [disk EXCEPT !.apiKey = File(<<>>)] /\ pc' = "write"
  BY DEF CreateKey
<1>3. disk'.config = disk.config /\ disk' \in [config : ConfigFile,
          apps : [parses : BOOLEAN, list : Seq(App)], userKey : KeyFile, apiKey : KeyFile]
  BY <1>1, <1>2 DEF Inv, DiskType
<1> QED
  BY <1>2, <1>3 DEF CreateKey, memory, Inv, DiskType, Making, Loaded, Validated, Wired, Told, Serving

LEMMA InvWriteKey == ASSUME DaemonAssumption, Inv, WriteKey PROVE Inv'
<1>1. drawn \in NewKeys /\ known = Empty /\ pc = "write"
  BY DEF WriteKey, Inv, Making
<1>2. File(<<drawn>>) \in KeyFile /\ File(<<drawn>>).exists /\ File(<<drawn>>).text = <<drawn>>
  BY <1>1 DEF File, KeyFile, DaemonAssumption
<1>3. disk' = [disk EXCEPT !.apiKey = File(<<drawn>>)] /\ pc' = "validate"
  BY DEF WriteKey
<1>4. /\ disk'.config = disk.config /\ disk'.apiKey = File(<<drawn>>)
      /\ disk' \in [config : ConfigFile, apps : [parses : BOOLEAN, list : Seq(App)],
                    userKey : KeyFile, apiKey : KeyFile]
  BY <1>2, <1>3 DEF Inv, DiskType
<1>5. cfg'.key = drawn
  BY DEF WriteKey, Decoded
<1>6. TrimSpace(<<drawn>>) = drawn
  BY <1>1, TrimGenerated
<1>7. Leads(cfg.key)'
  BY <1>1, <1>2, <1>4, <1>5, <1>6 DEF Leads, HasKey, FoundKey, Inv, Making
<1> QED
  BY <1>1, <1>3, <1>4, <1>7 DEF WriteKey, Inv, DiskType, Making, Loaded, Validated, Wired, Told, Serving

LEMMA InvValidate == ASSUME Inv, Validate PROVE Inv'
<1>1. pc = "validate" /\ UNCHANGED <<disk, known>>
  BY DEF Validate
<1>2. Exit \/ (cfg.key # Empty /\ pc' = "apps" /\ UNCHANGED memory)
  BY DEF Validate
<1>3. CASE Exit
  BY <1>1, <1>3, InvExit
<1>4. CASE cfg.key # Empty /\ pc' = "apps" /\ UNCHANGED memory
  BY <1>1, <1>4, SameDisk
     DEF memory, Inv, Making, Loaded, Validated, Wired, Told, Serving, Leads
<1> QED BY <1>2, <1>3, <1>4

LEMMA InvNext == ASSUME DaemonAssumption, Inv, [Next]_vars PROVE Inv'
<1> USE SameDisk DEF Inv, Making, Loaded, Validated, Wired, Told, Serving, Leads
<1>1. CASE Start
  BY <1>1 DEF Start, memory
<1>2. CASE LoadConfig
  BY <1>2, InvLoadConfig
<1>3. CASE CreateKey
  BY <1>3, InvCreateKey
<1>4. CASE WriteKey
  BY <1>4, InvWriteKey
<1>5. CASE Validate
  BY <1>5, InvValidate
<1>6. CASE LoadApps
  <2>1. CASE Exit
    BY <1>6, <2>1, InvExit DEF LoadApps
  <2>2. CASE ~Exit
    BY <1>6, <2>2 DEF LoadApps
  <2> QED BY <2>1, <2>2
<1>7. CASE NewRouter
  BY <1>7 DEF NewRouter
<1>8. CASE Listen
  BY <1>8 DEF Listen, memory
<1>9. CASE Crash
  BY <1>9, InvExit DEF Crash
<1>10. CASE Request
  BY <1>10 DEF Request
<1>11. CASE Respond
  BY <1>11 DEF Respond
<1>12. CASE UNCHANGED vars
  BY <1>12 DEF vars
<1> QED BY <1>1, <1>2, <1>3, <1>4, <1>5, <1>6, <1>7, <1>8, <1>9, <1>10, <1>11, <1>12 DEF Next, Boot

\* Whatever is answered, it is 401 for those who may not and nothing else for
\* those who have the key.
LEMMA AnswersRight ==
    ASSUME Inv, pc = "up", NEW local \in BOOLEAN, NEW header, NEW query, NEW code, NEW id, NEW argv,
           Answer(local, header, query, code, id, argv),
           code = 401 <=> ~Admitted(local, header, query)
    PROVE  AllAnswers'
<1>1. server.key = known /\ known # Empty
  BY ServesKnown
<1>2. /\ answer'.code = code
      /\ answer'.trusted <=> (local \/ known \in {header, query})
      /\ answer'.holder <=> header = known
  BY <1>1 DEF Answer
<1> QED BY <1>1, <1>2 DEF AllAnswers, OnlyTrustedServed, HolderServed, Admitted

LEMMA CodesServe == ASSUME NEW route, NEW code \in Codes(route), route \in Routes PROVE code # 401
BY DEF Codes, Routes, HandlerCodes

LEMMA AnswersNext == ASSUME Inv, AllAnswers, [Next]_vars PROVE AllAnswers'
<1>1. ASSUME answer' = answer \/ answer' = NoAnswer PROVE AllAnswers'
  BY <1>1 DEF AllAnswers, OnlyTrustedServed, HolderServed, NoAnswer
<1>2. CASE Request
  <2>1. PICK local \in BOOLEAN, header \in Tried \cup {Empty, known}, query \in Tried \cup {Empty, known} :
           \/ Refuse(local, header, query)
           \/ \E route \in Routes : Serve(local, header, query, route)
           \/ \E id \in Ids : Launch(local, header, query, id)
    BY <1>2 DEF Request
  <2>2. pc = "up"
    BY <1>2 DEF Request
  <2>3. CASE Refuse(local, header, query)
    BY <2>2, <2>3, AnswersRight DEF Refuse
  <2>4. CASE \E route \in Routes : Serve(local, header, query, route)
    <3>1. PICK route \in Routes : Serve(local, header, query, route)
      BY <2>4
    <3>2. PICK code \in Codes(route) : Answer(local, header, query, code, Empty, <<>>)
      BY <3>1 DEF Serve
    <3> QED BY <2>2, <3>1, <3>2, CodesServe, AnswersRight DEF Serve
  <2>5. CASE \E id \in Ids : Launch(local, header, query, id)
    <3>1. PICK id \in Ids : Launch(local, header, query, id)
      BY <2>5
    <3>2. \E app, argv : \E code \in {202, 404, 409, 500} : Answer(local, header, query, code, app, argv)
      BY <3>1 DEF Launch
    <3>3. Admitted(local, header, query)
      BY <3>1 DEF Launch
    <3> QED BY <2>2, <3>2, <3>3, AnswersRight
  <2> QED BY <2>1, <2>3, <2>4, <2>5
<1>3. CASE [Boot]_vars
  <2>1. ASSUME Exit PROVE answer' = NoAnswer
    BY <2>1 DEF Exit, Forget
  <2>2. CASE LoadConfig
    <3>1. Exit \/ answer' = answer
      BY <2>2 DEF LoadConfig, Resolved
    <3> QED BY <1>1, <2>1, <3>1
  <2>3. CASE CreateKey
    BY <1>1, <2>3 DEF CreateKey, memory
  <2>4. CASE Validate
    <3>1. Exit \/ answer' = answer
      BY <2>4 DEF Validate, memory
    <3> QED BY <1>1, <2>1, <3>1
  <2>5. CASE LoadApps
    <3>1. Exit \/ answer' = answer
      BY <2>5 DEF LoadApps
    <3> QED BY <1>1, <2>1, <3>1
  <2>6. CASE Start \/ WriteKey \/ NewRouter \/ Listen \/ UNCHANGED vars
    BY <1>1, <2>6 DEF Start, WriteKey, NewRouter, Listen, memory, vars
  <2> QED BY <1>3, <2>2, <2>3, <2>4, <2>5, <2>6 DEF Boot
<1>4. CASE Crash \/ Respond
  BY <1>1, <1>4 DEF Crash, Respond, Exit, Forget
<1> QED BY <1>2, <1>3, <1>4 DEF Next

LEMMA Invariance == Spec => [](Inv /\ AllAnswers)
<1>1. Init => Inv /\ AllAnswers
  <2>1. Init => AllAnswers
    BY DEF Init, AllAnswers, OnlyTrustedServed, HolderServed, NoAnswer
  <2> QED BY <2>1, InvInit, DaemonAssumption
<1>2. Inv /\ AllAnswers /\ [Next]_vars => (Inv /\ AllAnswers)'
  BY InvNext, AnswersNext, DaemonAssumption
<1> QED BY <1>1, <1>2, PTL DEF Spec

\* Nobody is served without being local or sending the key that clients were
\* told, on any disk, for any number of crashes.
THEOREM OnlyTrusted == Spec => []OnlyTrustedServed
<1>1. AllAnswers => OnlyTrustedServed
  BY DEF AllAnswers
<1> QED BY Invariance, <1>1, PTL

\* The key that clients were told opens every later daemon, on any disk, for any
\* number of crashes.
THEOREM HolderIsServed == Spec => []HolderServed
<1>1. AllAnswers => HolderServed
  BY DEF AllAnswers
<1> QED BY Invariance, <1>1, PTL

-----------------------------------------------------------------------------
(* The apps and what is launched.                                          *)

AppsRead == apps \in Seq(App) /\ Valid(apps)

\* Only a daemon that is up answers.
Quiet == pc # "up" => answer = NoAnswer

\* An answer that names an app carries the argv of an app with that id.
Answered ==
    answer.app # Empty =>
        \E i \in DOMAIN apps : /\ apps[i].id = answer.app
                              /\ AppArgv(apps[i]).ok
                              /\ AppArgv(apps[i]).argv = answer.argv

Launched == AppsRead /\ Quiet /\ Answered

LEMMA NothingLaunched == ASSUME apps = <<>>, answer = NoAnswer PROVE Launched
<1>1. <<>> \in Seq(App) /\ DOMAIN <<>> = {}
  OBVIOUS
<1> QED BY <1>1 DEF Launched, AppsRead, Valid, Quiet, Answered, NoAnswer

LEMMA LaunchedInit == ASSUME Init PROVE Launched
BY NothingLaunched DEF Init

LEMMA LaunchedExit == ASSUME Exit PROVE Launched'
<1>1. apps' = <<>> /\ answer' = NoAnswer
  BY DEF Exit, Forget
<1>2. <<>> \in Seq(App) /\ DOMAIN <<>> = {}
  OBVIOUS
<1> QED BY <1>1, <1>2 DEF Launched, AppsRead, Valid, Quiet, Answered, NoAnswer

LEMMA LaunchedLoadApps == ASSUME Inv, Launched, LoadApps PROVE Launched'
<1>1. CASE Exit
  BY <1>1, LaunchedExit
<1>2. CASE ~Exit
  <2>1. Valid(disk.apps.list) /\ apps' = disk.apps.list /\ answer' = answer /\ pc' = "router"
    BY <1>2 DEF LoadApps
  <2>2. disk.apps.list \in Seq(App)
    BY DEF Inv, DiskType
  <2>3. pc = "apps"
    BY DEF LoadApps
  <2>4. answer' = NoAnswer
    BY <2>1, <2>3 DEF Launched, Quiet
  <2> QED BY <2>1, <2>2, <2>4 DEF Launched, AppsRead, Valid, Quiet, Answered, NoAnswer
<1> QED BY <1>1, <1>2

LEMMA LaunchedRequest == ASSUME Launched, Request PROVE Launched'
<1>1. UNCHANGED <<apps, pc>> /\ pc = "up"
  BY DEF Request
<1>2. AppsRead' /\ Quiet'
  BY <1>1 DEF Launched, AppsRead, Valid, Quiet
<1>3. PICK local \in BOOLEAN, header \in Tried \cup {Empty, known}, query \in Tried \cup {Empty, known} :
         \/ Refuse(local, header, query)
         \/ \E route \in Routes : Serve(local, header, query, route)
         \/ \E id \in Ids : Launch(local, header, query, id)
  BY DEF Request
<1>4. ASSUME NEW code, NEW argv, Answer(local, header, query, code, Empty, argv) PROVE Answered'
  BY <1>4 DEF Answer, Answered
<1>5. CASE Refuse(local, header, query)
  BY <1>2, <1>4, <1>5 DEF Refuse, Launched
<1>6. CASE \E route \in Routes : Serve(local, header, query, route)
  BY <1>2, <1>4, <1>6 DEF Serve, Launched
<1>7. CASE \E id \in Ids : Launch(local, header, query, id)
  <2>1. PICK id \in Ids : Launch(local, header, query, id)
    BY <1>7
  <2>2. CASE \E code : Answer(local, header, query, code, Empty, <<>>)
    BY <1>2, <1>4, <2>2 DEF Launched
  <2>3. CASE \E i \in DOMAIN apps : \E code :
                /\ apps[i].id = id /\ AppArgv(apps[i]).ok
                /\ Answer(local, header, query, code, id, AppArgv(apps[i]).argv)
    <3>1. PICK i \in DOMAIN apps : \E code :
                /\ apps[i].id = id /\ AppArgv(apps[i]).ok
                /\ Answer(local, header, query, code, id, AppArgv(apps[i]).argv)
      BY <2>3
    <3>2. answer'.app = id /\ answer'.argv = AppArgv(apps[i]).argv
      BY <3>1 DEF Answer
    <3>3. Answered'
      BY <1>1, <3>1, <3>2 DEF Answered
    <3> QED BY <1>2, <3>3 DEF Launched
  <2> QED BY <2>1, <2>2, <2>3 DEF Launch
<1> QED BY <1>3, <1>5, <1>6, <1>7

LEMMA LaunchedNext == ASSUME Inv, Launched, [Next]_vars PROVE Launched'
<1>1. ASSUME apps' = apps, answer' = answer \/ answer' = NoAnswer, pc' = "up" => pc = "up" \/ pc = "listen",
             pc' # "up" => pc # "up"
      PROVE  Launched'
  BY <1>1 DEF Launched, AppsRead, Valid, Quiet, Answered, NoAnswer
<1>2. CASE LoadConfig
  BY <1>1, <1>2, LaunchedExit DEF LoadConfig, Resolved
<1>3. CASE Validate
  BY <1>1, <1>3, LaunchedExit DEF Validate, memory
<1>4. CASE Start \/ CreateKey \/ WriteKey \/ NewRouter \/ Listen \/ Respond \/ UNCHANGED vars
  BY <1>1, <1>4 DEF Start, CreateKey, WriteKey, NewRouter, Listen, Respond, memory, vars
<1>5. CASE Crash
  BY <1>5, LaunchedExit DEF Crash
<1> QED BY <1>2, <1>3, <1>4, <1>5, LaunchedLoadApps, LaunchedRequest DEF Next, Boot

LEMMA LaunchedSame == ASSUME Launched PROVE SameCommand
<1>1. SUFFICES ASSUME NEW i \in DOMAIN apps, answer.app = apps[i].id, SaysEnough(apps[i])
               PROVE  ShellWords(BuildCmd(apps[i])) = Ok(answer.argv)
  BY DEF SameCommand, Agree
<1>2. apps \in Seq(App) /\ Valid(apps)
  BY DEF Launched, AppsRead
<1>3. answer.app # Empty
  BY <1>1, <1>2 DEF Valid
<1>4. PICK j \in DOMAIN apps : /\ apps[j].id = answer.app /\ AppArgv(apps[j]).ok
                               /\ AppArgv(apps[j]).argv = answer.argv
  BY <1>3 DEF Launched, Answered
<1>5. i = j
  BY <1>1, <1>2, <1>4 DEF Valid
<1>6. apps[i] \in App
  BY <1>2
<1>7. ShellWords(BuildCmd(apps[i])) = AppArgv(apps[i])
  BY <1>1, <1>6, SameWords
<1>8. ShellWords(BuildCmd(apps[i])) \in {Failed} \cup {Ok(a) : a \in {AppArgv(apps[i]).argv}}
  <2> DEFINE words == ShellFlush(ShellScan(ShellStart, BuildCmd(apps[i]))[Len(BuildCmd(apps[i]))]).args
  <2>1. ShellWords(BuildCmd(apps[i])) \in {Failed, Ok(words)}
    BY DEF ShellWords
  <2> HIDE DEF words
  <2>2. Ok(words).argv = words
    BY DEF Ok
  <2> QED BY <1>7, <2>1, <2>2
<1>9. Failed.ok = FALSE
  BY DEF Failed
<1> QED BY <1>4, <1>5, <1>7, <1>8, <1>9

\* For any apps.json and any number of crashes, whatever is launched of an entry
\* that says enough is what the shell of the UI's standalone mode executes for it.
THEOREM SameCommandAlways == Spec => []SameCommand
<1>1. Init => Launched
  BY LaunchedInit
<1>2. Inv /\ Launched /\ [Next]_vars => Launched'
  BY LaunchedNext
<1>3. Launched => SameCommand
  BY LaunchedSame
<1> QED BY <1>1, <1>2, <1>3, Invariance, PTL DEF Spec

-----------------------------------------------------------------------------
(* Types.                                                                  *)

Configs == [port : Int, key : STRING, cec : BOOLEAN, initialActive : BOOLEAN, activate : BOOLEAN]
Servers == [key : STRING, cec : {"none", "unknown", "active"}, attempted : BOOLEAN]
Answers == [code : Nat, trusted : BOOLEAN, holder : BOOLEAN, app : STRING, argv : Words]
Pcs == {"down", "config", "create", "write", "validate", "apps", "router", "listen", "up"}

\* TypeOK in three parts: what the disk and the key are, what main has, what is answered.
DiskTypes == disk.apiKey \in KeyFile /\ drawn \in NewKeys \cup {Empty} /\ mishaps \in Nat /\ known \in STRING
MainTypes ==
    /\ pc \in Pcs /\ cfg \in Configs /\ apps \in {<<>>, disk.apps.list} /\ server \in Servers
    /\ pc \in {"down", "config"} => <<drawn, cfg, apps, server>> = <<Empty, NoConfig, <<>>, NoServer>>
AnswerTypes == answer \in Answers

LEMMA TypeParts == TypeOK <=> DiskTypes /\ MainTypes /\ AnswerTypes
BY DEF TypeOK, DiskTypes, MainTypes, AnswerTypes, Pcs, Configs, Servers, Answers

LEMMA TypePartsNext == ASSUME DiskTypes', MainTypes', AnswerTypes' PROVE TypeOK'
BY DEF TypeOK, DiskTypes, MainTypes, AnswerTypes, Pcs, Configs, Servers, Answers

LEMMA Nothings ==
    /\ Empty \in STRING /\ NoConfig \in Configs /\ NoServer \in Servers /\ NoAnswer \in Answers
<1>1. Empty \in STRING
  BY TextAssumption
<1>2. <<>> \in Words
  BY DEF Words
<1> QED BY <1>1, <1>2 DEF NoConfig, NoServer, NoAnswer, Configs, Servers, Answers

LEMMA TypeInit == ASSUME DaemonAssumption, Init PROVE TypeOK
<1>1. disk.apiKey \in KeyFile /\ MaxMishaps \in Nat
  BY DEF DaemonAssumption, Init
<1>2. DiskTypes
  BY <1>1, Nothings DEF Init, DiskTypes
<1>3. MainTypes
  BY Nothings DEF Init, MainTypes, Pcs
<1>4. AnswerTypes
  BY Nothings DEF Init, AnswerTypes
<1> QED BY <1>2, <1>3, <1>4, TypeParts

\* An end of the process.
LEMMA TypeExit ==
    ASSUME TypeOK, Exit, UNCHANGED disk, UNCHANGED known, mishaps' \in Nat
    PROVE  TypeOK'
<1>1. /\ pc' = "down" /\ drawn' = Empty /\ cfg' = NoConfig /\ apps' = <<>>
      /\ server' = NoServer /\ answer' = NoAnswer
  BY DEF Exit, Forget
<1>2. DiskTypes'
  BY <1>1, TypeParts DEF DiskTypes
<1>3. MainTypes'
  BY <1>1, Nothings DEF MainTypes, Pcs
<1>4. AnswerTypes'
  BY <1>1, Nothings DEF AnswerTypes
<1> QED BY <1>2, <1>3, <1>4, TypePartsNext

LEMMA TrimType == ASSUME NEW text \in Seq(STRING) PROVE TrimSpace(text) \in STRING
<1> DEFINE keys == {text[i] : i \in DOMAIN text} \ {Newline}
<1>1. keys \subseteq STRING
  OBVIOUS
<1>2. TrimSpace(text) = IF keys = {} THEN Empty ELSE CHOOSE k \in keys : TRUE
  BY DEF TrimSpace
<1> HIDE DEF keys
<1> QED BY <1>1, <1>2, Nothings

\* applyDefaults, for a key that is a text.
LEMMA DecodedType ==
    ASSUME DiskType, NEW k \in STRING PROVE Decoded(k) \in Configs
<1>1. disk.config \in ConfigFile
  BY DEF DiskType
<1> QED BY <1>1 DEF Decoded, Configs, ConfigFile

LEMMA TypeLoadConfig ==
    ASSUME TypeOK, Inv, LoadConfig PROVE TypeOK'
<1>1. UNCHANGED disk /\ UNCHANGED known /\ UNCHANGED mishaps /\ mishaps \in Nat
  BY DEF LoadConfig, TypeOK
<1>2. DiskType /\ disk.config \in ConfigFile /\ disk.userKey \in KeyFile /\ disk.apiKey \in KeyFile
  BY DEF Inv, DiskType
<1>3. CASE Exit
  BY <1>1, <1>3, TypeExit
<1>4. ASSUME NEW k \in STRING, Resolved(k) PROVE TypeOK'
  <2>1. cfg' \in Configs
    BY <1>2, <1>4, DecodedType DEF Resolved
  <2>2. pc' = "validate" /\ UNCHANGED <<drawn, apps, server, answer>>
    BY <1>4 DEF Resolved
  <2>3. DiskTypes' /\ AnswerTypes'
    BY <1>1, <2>2, TypeParts DEF DiskTypes, AnswerTypes
  <2>4. MainTypes'
    BY <1>1, <2>1, <2>2, TypeParts DEF MainTypes, Pcs
  <2> QED BY <2>3, <2>4, TypePartsNext
<1>5. CASE drawn' \in NewKeys \ {known} /\ pc' = "create" /\ UNCHANGED <<cfg, apps, server, answer>>
  <2>1. DiskTypes' /\ AnswerTypes'
    BY <1>1, <1>5, TypeParts DEF DiskTypes, AnswerTypes
  <2>2. MainTypes'
    BY <1>1, <1>5, TypeParts DEF MainTypes, Pcs
  <2> QED BY <2>1, <2>2, TypePartsNext
<1>6. CASE Resolved(TrimSpace(disk.userKey.text))
  <2>1. disk.userKey.text \in Seq(STRING)
    BY <1>2 DEF KeyFile
  <2> QED BY <1>4, <1>6, <2>1, TrimType
<1>7. CASE Resolved(disk.config.key)
  <2>1. disk.config.key \in STRING
    BY <1>2 DEF ConfigFile
  <2> QED BY <1>4, <1>7, <2>1
<1>8. CASE Resolved(TrimSpace(disk.apiKey.text))
  <2>1. disk.apiKey.text \in Seq(STRING)
    BY <1>2 DEF KeyFile
  <2> QED BY <1>4, <1>8, <2>1, TrimType
<1> QED BY <1>3, <1>5, <1>6, <1>7, <1>8 DEF LoadConfig

LEMMA TypeKeys == ASSUME DaemonAssumption, TypeOK, Inv, CreateKey \/ WriteKey PROVE TypeOK'
<1>1. drawn \in NewKeys /\ drawn \in STRING
  BY DEF CreateKey, WriteKey, Inv, Making, DaemonAssumption
<1>2. CASE CreateKey
  <2>1. File(<<>>) \in KeyFile
    BY DEF File, KeyFile
  <2>2. disk' = [disk EXCEPT !.apiKey = File(<<>>)] /\ pc' = "write" /\ UNCHANGED <<memory, mishaps, known>>
    BY <1>2 DEF CreateKey
  <2>3. disk'.apiKey \in KeyFile /\ disk'.apps = disk.apps
    BY <2>1, <2>2 DEF Inv, DiskType
  <2>4. DiskTypes' /\ AnswerTypes'
    BY <2>2, <2>3, TypeParts DEF memory, DiskTypes, AnswerTypes
  <2>5. MainTypes'
    BY <2>2, <2>3, TypeParts DEF memory, MainTypes, Pcs
  <2> QED BY <2>4, <2>5, TypePartsNext
<1>3. CASE WriteKey
  <2>1. File(<<drawn>>) \in KeyFile
    BY <1>1 DEF File, KeyFile
  <2>2. /\ disk' = [disk EXCEPT !.apiKey = File(<<drawn>>)] /\ pc' = "validate"
        /\ cfg' = Decoded(drawn) /\ UNCHANGED <<drawn, apps, server, answer, mishaps, known>>
    BY <1>3 DEF WriteKey
  <2>3. disk'.apiKey \in KeyFile /\ disk'.apps = disk.apps
    BY <2>1, <2>2 DEF Inv, DiskType
  <2>4. DiskTypes' /\ AnswerTypes'
    BY <2>2, <2>3, TypeParts DEF DiskTypes, AnswerTypes
  <2>5. cfg' \in Configs
    BY <1>1, <2>2, DecodedType DEF Inv
  <2>6. MainTypes'
    BY <2>2, <2>3, <2>5, TypeParts DEF MainTypes, Pcs
  <2> QED BY <2>4, <2>6, TypePartsNext
<1> QED BY <1>2, <1>3

LEMMA TypeAnswer ==
    ASSUME NEW local \in BOOLEAN, NEW header, NEW query, NEW code \in Nat,
           NEW id \in STRING, NEW argv \in Words, Answer(local, header, query, code, id, argv)
    PROVE  answer' \in Answers
BY DEF Answer, Answers

LEMMA TypeRequest == ASSUME TypeOK, AppsRead, Request PROVE TypeOK'
<1>1. UNCHANGED <<disk, pc, drawn, cfg, apps, server, mishaps, known>>
  BY DEF Request
<1>2. PICK local \in BOOLEAN, header \in Tried \cup {Empty, known}, query \in Tried \cup {Empty, known} :
         \/ Refuse(local, header, query)
         \/ \E route \in Routes : Serve(local, header, query, route)
         \/ \E id \in Ids : Launch(local, header, query, id)
  BY DEF Request
<1>3. Empty \in STRING /\ <<>> \in Words
  <2>1. <<>> \in Words
    BY DEF Words
  <2> QED BY <2>1, Nothings
<1>4. ASSUME NEW code \in Nat, Answer(local, header, query, code, Empty, <<>>) PROVE answer' \in Answers
  BY <1>3, <1>4, TypeAnswer
<1>5. ASSUME Refuse(local, header, query) PROVE answer' \in Answers
  BY <1>4, <1>5 DEF Refuse
<1>6. ASSUME \E route \in Routes : Serve(local, header, query, route) PROVE answer' \in Answers
  <2>1. PICK route \in Routes : Serve(local, header, query, route)
    BY <1>6
  <2>2. PICK code \in Codes(route) : Answer(local, header, query, code, Empty, <<>>)
    BY <2>1 DEF Serve
  <2>3. code \in Nat
    BY <2>1, <2>2 DEF Codes, Routes, HandlerCodes
  <2> QED BY <1>4, <2>2, <2>3
<1>7. ASSUME \E id \in Ids : Launch(local, header, query, id) PROVE answer' \in Answers
  <2>1. PICK id \in Ids : Launch(local, header, query, id)
    BY <1>7
  <2>2. CASE \E code \in {404, 409, 500} : Answer(local, header, query, code, Empty, <<>>)
    BY <1>4, <2>2
  <2>3. CASE \E i \in DOMAIN apps : \E code \in {202, 409, 500} :
                apps[i].id = id /\ Answer(local, header, query, code, id, AppArgv(apps[i]).argv)
    <3>1. PICK i \in DOMAIN apps : \E code \in {202, 409, 500} :
                apps[i].id = id /\ Answer(local, header, query, code, id, AppArgv(apps[i]).argv)
      BY <2>3
    <3>2. apps[i] \in App
      BY <3>1 DEF AppsRead
    <3>3. id \in STRING
      BY <3>1, <3>2 DEF App
    <3>4. AppArgv(apps[i]).argv \in Words
      BY <3>2, ArgvType DEF Words
    <3> QED BY <3>1, <3>3, <3>4, TypeAnswer
  <2> QED BY <2>1, <2>2, <2>3 DEF Launch
<1>8. AnswerTypes'
  BY <1>2, <1>5, <1>6, <1>7 DEF AnswerTypes
<1>9. DiskTypes' /\ MainTypes'
  BY <1>1, TypeParts DEF DiskTypes, MainTypes
<1> QED BY <1>8, <1>9, TypePartsNext

LEMMA TypeNext ==
    ASSUME DaemonAssumption, Inv, Launched, TypeOK, [Next]_vars PROVE TypeOK'
<1>1. TypeOK /\ DiskTypes /\ MainTypes /\ AnswerTypes /\ mishaps \in Nat
  BY TypeParts DEF DiskTypes
<1>2. ASSUME DiskTypes', MainTypes', AnswerTypes' PROVE TypeOK'
  BY <1>2, TypePartsNext
<1>3. CASE Start
  BY <1>1, <1>2, <1>3 DEF Start, memory, DiskTypes, MainTypes, AnswerTypes, Pcs
<1>4. CASE Validate
  <2>1. UNCHANGED <<disk, mishaps, known>>
    BY <1>4 DEF Validate
  <2>2. CASE Exit
    BY <1>1, <2>1, <2>2, TypeExit
  <2>3. CASE pc' = "apps" /\ UNCHANGED memory
    BY <1>1, <1>2, <2>1, <2>3 DEF memory, DiskTypes, MainTypes, AnswerTypes, Pcs
  <2> QED BY <1>4, <2>2, <2>3 DEF Validate
<1>5. CASE LoadApps
  <2>1. UNCHANGED <<disk, mishaps, known>>
    BY <1>5 DEF LoadApps
  <2>2. CASE Exit
    BY <1>1, <2>1, <2>2, TypeExit
  <2>3. CASE apps' = disk.apps.list /\ pc' = "router" /\ UNCHANGED <<drawn, cfg, server, answer>>
    BY <1>1, <1>2, <2>1, <2>3 DEF DiskTypes, MainTypes, AnswerTypes, Pcs
  <2> QED BY <1>5, <2>2, <2>3 DEF LoadApps
<1>6. CASE NewRouter
  <2>1. server' \in Servers
    BY <1>1, <1>6 DEF NewRouter, MainTypes, Configs, Servers
  <2>2. pc' = "listen" /\ UNCHANGED <<disk, drawn, cfg, apps, answer, mishaps, known>>
    BY <1>6 DEF NewRouter
  <2> QED BY <1>1, <1>2, <2>1, <2>2 DEF DiskTypes, MainTypes, AnswerTypes, Pcs
<1>7. CASE Listen
  <2>1. server.key \in STRING
    BY <1>1 DEF MainTypes, Servers
  <2>2. known' \in STRING
    BY <1>1, <1>7, <2>1 DEF Listen, DiskTypes
  <2>3. pc' = "up" /\ UNCHANGED <<disk, memory, mishaps>>
    BY <1>7 DEF Listen
  <2> QED BY <1>1, <1>2, <2>2, <2>3 DEF memory, DiskTypes, MainTypes, AnswerTypes, Pcs
<1>8. CASE Crash
  <2>1. mishaps' \in Nat
    BY <1>1, <1>8 DEF Crash, Mishap
  <2> QED BY <1>1, <1>8, <2>1, TypeExit DEF Crash
<1>9. CASE Respond
  <2>1. AnswerTypes'
    BY <1>9, Nothings DEF Respond, AnswerTypes
  <2> QED BY <1>1, <1>2, <1>9, <2>1 DEF Respond, DiskTypes, MainTypes
<1>10. CASE UNCHANGED vars
  BY <1>1, <1>2, <1>10 DEF vars, DiskTypes, MainTypes, AnswerTypes
<1>11. CASE LoadConfig
  BY <1>11, TypeLoadConfig
<1>12. CASE CreateKey \/ WriteKey
  BY <1>12, TypeKeys
<1>13. CASE Request
  BY <1>13, TypeRequest DEF Launched
<1> QED BY <1>3, <1>4, <1>5, <1>6, <1>7, <1>8, <1>9, <1>10, <1>11, <1>12, <1>13 DEF Next, Boot

\* The types hold for any disk, and a process knows only what it has read itself.
THEOREM TypeCorrect == Spec => []TypeOK
<1>1. Init => Launched /\ TypeOK
  BY LaunchedInit, TypeInit, DaemonAssumption
<1>2. Inv /\ Launched /\ TypeOK /\ [Next]_vars => (Launched /\ TypeOK)'
  BY LaunchedNext, TypeNext, DaemonAssumption
<1> QED BY <1>1, <1>2, Invariance, PTL DEF Spec
=============================================================================
