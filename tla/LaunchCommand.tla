--------------------------- MODULE LaunchCommand ---------------------------
(* From an entry of apps.json to a command: AppArgv of the server, and the *)
(* line that the UI's standalone mode gives to the shell for the same      *)
(* entry.                                                                  *)
(*                                                                         *)
(* A text is a sequence of symbols.  A symbol is a character, or several   *)
(* that no scanner tells apart from one: an option, a number, the rest of  *)
(* a name.  A character that is Special, and a reserved word of the shell, *)
(* is always a symbol of its own.  A field of the gamescope table that the *)
(* JSON leaves out is "absent", or Absent where a text stands otherwise;   *)
(* enabled is "none" when the table itself is missing.                     *)
EXTENDS Sequences, SequencesExt

Empty == ""
Blank == " "
Tab == "\t"
Newline == "\n"
Apostrophe == "'"
Quotes == {Apostrophe, "\""}
Backslash == "\\"
NoQuote == Empty

\* What a POSIX shell takes for more than text: in double quotes; outside of all
\* quotes, where braces are bash's and ~ matters only in some places; at the
\* beginning of a word; in the first word of a command.  A TLA+ string cannot
\* hold a backquote.
Expanding == {"$", "backquote"}
Active == Expanding \cup {"*", "?", "[", ";", "&", "|", "<", ">", "(", ")", "{", "~", Newline}
Comment == "#"
Leading ==
    {"=", "!", "}", "if", "then", "else", "elif", "fi", "for", "while", "until", "do", "done",
     "case", "esac", "in", "select", "function", "time", "coproc"}

\* What some scanner takes for more than a character, and the rest.
Special == {Blank, Tab, Backslash, Comment} \cup Quotes \cup Active
Plain == STRING \ Special
Separator == <<"--">>

\* What the two programs themselves write on a command line.
Literals ==
    {"gamescope", "-f", "-W", "-H", "-w", "-h", "-r", "-S", "-F", "--sharpness", "--hdr-enabled",
     "--adaptive-sync", "--force-grab-cursor", "--expose-wayland", "--composite-debug",
     "--mangoapp", "1920", "1080", "60", "fit", "auto", "--"}

\* A text that is written out is a string; the proof system has no axiom for it.
ASSUME TextAssumption == Literals \cup {Empty} \subseteq STRING

Failed == [ok |-> FALSE, argv |-> <<>>]
Ok(argv) == [ok |-> TRUE, argv |-> argv]

\* What encoding/json leaves of a field for Go, and nil for Lua.
Absent == <<"absent">>
GoText(v) == IF v = Absent THEN <<>> ELSE v
GoNumber(v) == IF v = "absent" THEN "0" ELSE v
GoDefault(v, d) == IF GoNumber(v) = "0" THEN d ELSE v
LuaDefault(v, d) == IF v = "absent" THEN d ELSE v
LuaText(v, d) == IF v = Absent THEN d ELSE v

-----------------------------------------------------------------------------
(* gamescope.go                                                            *)

SplitStart == [args |-> <<>>, cur |-> <<>>, quote |-> NoQuote]

SplitFlush(st) ==
    IF st.cur = <<>> THEN st ELSE [st EXCEPT !.args = Append(@, st.cur), !.cur = <<>>]

\* Mutant of SplitStep: a closing quote ends the token.
SplitStepQuoteEnds(st, r) ==
    IF st.quote = r THEN [SplitFlush(st) EXCEPT !.quote = NoQuote]
    ELSE IF st.quote = NoQuote /\ r \in Quotes THEN [st EXCEPT !.quote = r]
    ELSE IF st.quote = NoQuote /\ r = Blank THEN SplitFlush(st)
    ELSE [st EXCEPT !.cur = Append(@, r)]

\* One symbol of splitExec's loop; it keeps the token so far and the open quote.
SplitStep(st, r) ==
    IF st.quote = r THEN [st EXCEPT !.quote = NoQuote]
    ELSE IF st.quote = NoQuote /\ r \in Quotes THEN [st EXCEPT !.quote = r]
    ELSE IF st.quote = NoQuote /\ r = Blank THEN SplitFlush(st)
    ELSE [st EXCEPT !.cur = Append(@, r)]

SplitScan(s) ==
    LET scan[i \in 0..Len(s)] ==
            IF i = 0 THEN SplitStart ELSE SplitStep(scan[i - 1], s[i])
    IN  scan

SplitExec(s) ==
    LET end == SplitScan(s)[Len(s)]
    IN  IF end.quote # NoQuote THEN Failed ELSE Ok(SplitFlush(end).args)

Switches == <<"--hdr-enabled", "--adaptive-sync", "--force-grab-cursor",
              "--expose-wayland", "--composite-debug", "--mangoapp">>

Gamescope ==
    [enabled : {"none", "absent", "false", "true"}, fullscreen : {"absent", "false", "true"},
     outputWidth : Plain, outputHeight : Plain, refresh : Plain,
     innerWidth : Plain, innerHeight : Plain, sharpness : Plain,
     filter : Seq(STRING), scaler : Seq(STRING),
     on : SUBSET ToSet(Switches), extra : Seq(Seq(STRING))]

App == [id : STRING, exec : Seq(STRING \ {NoQuote}), gamescope : Gamescope]

\* The switches that are on, in the order in which both programs ask for them.
SwitchesOf(gs) ==
    FlattenSeq([i \in DOMAIN Switches |-> IF Switches[i] \in gs.on THEN <<Switches[i]>> ELSE <<>>])

Single(words) == [i \in DOMAIN words |-> <<words[i]>>]

GamescopeArgs(gs) ==
    LET ow == GoDefault(gs.outputWidth, "1920")
        oh == GoDefault(gs.outputHeight, "1080")
        orr == GoDefault(gs.refresh, "60")
        iw == GoDefault(gs.innerWidth, ow)
        ih == GoDefault(gs.innerHeight, oh)
        filter == GoText(gs.filter)
        scaler == IF GoText(gs.scaler) = <<>> /\ (iw # ow \/ ih # oh) THEN <<"fit">>
                  ELSE GoText(gs.scaler)
    IN  Single(<<"gamescope">>
               \o (IF gs.fullscreen = "true" THEN <<"-f">> ELSE <<>>)
               \o <<"-W", ow, "-H", oh, "-w", iw, "-h", ih, "-r", orr>>)
        \o (IF filter # <<>> /\ scaler # <<>> THEN <<<<"-S">>, scaler>> ELSE <<>>)
        \o (IF filter # <<>> THEN <<<<"-F">>, filter>> ELSE <<>>)
        \o Single((IF gs.sharpness # "absent" THEN <<"--sharpness", gs.sharpness>> ELSE <<>>)
                  \o SwitchesOf(gs))

\* The options of gamescope and the words of exec, with -- between them.
AppArgv(app) ==
    LET gs == app.gamescope
        split == SplitExec(app.exec)
    IN  IF gs.enabled # "true" THEN split
        ELSE IF Contains(gs.extra, Separator) \/ ~split.ok THEN Failed
        ELSE Ok(GamescopeArgs(gs) \o gs.extra \o <<Separator>> \o split.argv)

-----------------------------------------------------------------------------
(* gamescope.lua and standalone.lua                                        *)

\* An apostrophe ends the quotation, stands escaped, and a new one begins.
Escape(c) == IF c = Apostrophe THEN <<c, Backslash, c, c>> ELSE <<c>>

ShellQuote(s) ==
    <<Apostrophe>> \o FlattenSeq([i \in DOMAIN s |-> Escape(s[i])]) \o <<Apostrophe>>

JoinBlank(parts) ==
    FlattenSeq([i \in DOMAIN parts |-> IF i = 1 THEN parts[i] ELSE <<Blank>> \o parts[i]])

LuaArgs(gs) ==
    LET ow == LuaDefault(gs.outputWidth, "1920")
        oh == LuaDefault(gs.outputHeight, "1080")
        iw == LuaDefault(gs.innerWidth, ow)
        ih == LuaDefault(gs.innerHeight, oh)
        scaler == LuaText(gs.scaler, IF iw # ow \/ ih # oh THEN <<"fit">> ELSE <<"auto">>)
    IN  Single(<<"gamescope">>
               \o (IF gs.fullscreen # "false" THEN <<"-f">> ELSE <<>>)
               \o <<"-W", ow, "-H", oh, "-w", iw, "-h", ih, "-r", LuaDefault(gs.refresh, "60")>>)
        \o (IF gs.filter # Absent THEN <<<<"-S">>, scaler, <<"-F">>, gs.filter>> ELSE <<>>)
        \o Single((IF gs.sharpness # "absent" THEN <<"--sharpness", gs.sharpness>> ELSE <<>>)
                  \o SwitchesOf(gs))

BuildArgv(gs, exec) ==
    LET flags == [i \in DOMAIN gs.extra |-> ShellQuote(gs.extra[i])]
    IN  JoinBlank(LuaArgs(gs) \o flags \o <<Separator, exec>>)

BuildCmd(app) ==
    IF app.gamescope.enabled \in {"none", "false"} THEN app.exec
    ELSE BuildArgv(app.gamescope, app.exec)

\* The shell reads a line.  literal: so far it has taken every character for text,
\* a quotation or the end of a word, and nothing for more.
ShellStart ==
    [args |-> <<>>, cur |-> <<>>, begun |-> FALSE, quote |-> NoQuote, escaped |-> FALSE,
     literal |-> TRUE]

ShellAdd(st, r) == [st EXCEPT !.cur = Append(@, r), !.begun = TRUE, !.escaped = FALSE]

\* A word begins with a character or a quotation: an empty quotation is a word.
ShellFlush(st) ==
    IF ~st.begun THEN st
    ELSE [st EXCEPT !.args = Append(@, st.cur), !.cur = <<>>, !.begun = FALSE]

\* An expansion, an operator, a comment.
ShellMore(st) == [st EXCEPT !.literal = FALSE]

ShellQuoted(st, r) ==
    IF r = st.quote THEN [st EXCEPT !.quote = NoQuote]
    ELSE IF st.quote # Apostrophe /\ r \in Expanding \cup {Backslash} THEN ShellMore(st)
    ELSE ShellAdd(st, r)

\* A backslash before the end of the line joins the line with the next one.
ShellStep(st, r) ==
    IF st.escaped THEN IF r = Newline THEN [st EXCEPT !.escaped = FALSE] ELSE ShellAdd(st, r)
    ELSE IF st.quote # NoQuote THEN ShellQuoted(st, r)
    ELSE IF r = Backslash THEN [st EXCEPT !.escaped = TRUE]
    ELSE IF r \in Quotes THEN [st EXCEPT !.quote = r, !.begun = TRUE]
    ELSE IF r \in {Blank, Tab} THEN ShellFlush(st)
    ELSE IF r \in Active \/ (r = Comment /\ ~st.begun) THEN ShellMore(st)
    ELSE ShellAdd(st, r)

\* What the shell has made of each prefix of s, from st on.
ShellScan(st, s) ==
    LET scan[i \in 0..Len(s)] == IF i = 0 THEN st ELSE ShellStep(scan[i - 1], s[i])
    IN  scan

\* The words of a simple command: Failed for a line that is not one, or of which
\* the shell would make more than its words.
ShellWords(s) ==
    LET end == ShellScan(ShellStart, s)[Len(s)]
        words == ShellFlush(end).args
    IN  IF /\ end.literal /\ end.quote = NoQuote /\ ~end.escaped
           /\ words # <<>> => ToSet(words[1]) \cap Leading = {}
        THEN Ok(words)
        ELSE Failed

-----------------------------------------------------------------------------
(* Where both programs mean the same by an entry.                          *)

\* The two programs differ in what they take for granted: the wrapper and -f
\* when the table does not say, a size or a filter that is there but empty, -S
\* when nothing is scaled, a "--" among the flags.  They differ in texts that are
\* more to the shell than text, in a filter or in exec: an expansion, a glob, an
\* operator, a comment, an assignment, a reserved word, a backslash, a tab, ''.
SaysEnough(app) ==
    LET gs == app.gamescope IN
    /\ gs.enabled # "absent"
    /\ gs.enabled = "true" =>
        /\ gs.fullscreen # "absent"
        /\ "0" \notin {gs.outputWidth, gs.outputHeight, gs.refresh, gs.innerWidth, gs.innerHeight}
        /\ {gs.filter, gs.scaler} \subseteq Seq(Plain) \ {<<>>}
        /\ gs.filter # Absent => \/ gs.scaler # Absent
                                 \/ LuaDefault(gs.innerWidth, Empty) \notin {Empty, LuaDefault(gs.outputWidth, "1920")}
                                 \/ LuaDefault(gs.innerHeight, Empty) \notin {Empty, LuaDefault(gs.outputHeight, "1080")}
        /\ ~Contains(gs.extra, Separator)
    /\ {Backslash, Tab} \cap ToSet(app.exec) = {}
    /\ ShellWords(app.exec).ok
    /\ <<>> \notin ToSet(ShellWords(app.exec).argv)
=============================================================================
