------------------------------ MODULE MCDaemon ------------------------------
(* A small instance of Daemon.  The disks vary in one respect at a time:   *)
(* where the key comes from, CEC, the list of apps.                        *)
EXTENDS Daemon, TLC

Bare == [parses |-> TRUE, port |-> 0, key |-> "", keyFile |-> FALSE, cec |-> FALSE,
          initialActive |-> "absent", activate |-> "absent"]
Inline == [Bare EXCEPT !.key = "inline"]

NoTable == [enabled |-> "none", fullscreen |-> "absent", outputWidth |-> "absent",
            outputHeight |-> "absent", refresh |-> "absent", innerWidth |-> "absent",
            innerHeight |-> "absent", filter |-> Absent, scaler |-> Absent,
            sharpness |-> "absent", on |-> {}, extra |-> <<>>]
Entry(id, exec, gs) == [id |-> id, exec |-> exec, gamescope |-> gs]
NoApps == [parses |-> TRUE, list |-> <<>>]
Listed(s) == [parses |-> TRUE, list |-> s]

Disk(config, list, userKey, apiKey) ==
    [config |-> config, apps |-> list, userKey |-> userKey, apiKey |-> apiKey]

KeyDisks ==
    {Disk([Bare EXCEPT !.port = p, !.key = k, !.keyFile = f], NoApps, u, a) :
        p \in {0, 70000}, k \in {"", "inline"}, f \in BOOLEAN,
        u \in {NoFile, File(<<Newline>>), File(<<"user", Newline>>)},
        a \in {NoFile, File(<<>>), File(<<"old", Newline>>)}}

CecDisks ==
    {Disk([Inline EXCEPT !.cec = TRUE, !.initialActive = i, !.activate = a], NoApps, NoFile, NoFile) :
        i, a \in {"absent", "true", "false"}}

Game == <<"game">>
BadDisks ==
    {Disk([Bare EXCEPT !.parses = FALSE], NoApps, NoFile, NoFile)}
    \cup {Disk(Inline, list, NoFile, NoFile) : list \in
            {[parses |-> FALSE, list |-> <<>>],
             Listed(<<Entry("", Game, NoTable)>>),
             Listed(<<Entry("1", <<>>, NoTable)>>),
             Listed(<<Entry("1", Game, NoTable), Entry("1", Game, NoTable)>>)}}

\* Every command line of up to four symbols, and some of which a shell makes more,
\* without and with gamescope, ...
Execs ==
    UNION {[1..n -> {"a", Blank, Apostrophe, "\"", Backslash}] : n \in 1..4}
    \cup UNION {[1..3 -> {"a", Apostrophe, "\"", r}] : r \in {Tab, Newline, Comment, "$", ";", "="}}
Wrapped == [NoTable EXCEPT !.enabled = "true", !.fullscreen = "true"]
ExecLists == {<<Entry("1", e, NoTable), Entry("2", e, Wrapped)>> : e \in Execs}

\* ... and tables that leave fields out, repeat the defaults or change them.
Sized(n, ow, iw, ih, f, s) ==
    [Wrapped EXCEPT !.enabled = n, !.outputWidth = ow, !.innerWidth = iw, !.innerHeight = ih,
                    !.filter = f, !.scaler = s]
Flagged(fs, r, sh, on, extra) ==
    [Wrapped EXCEPT !.fullscreen = fs, !.refresh = r, !.sharpness = sh, !.on = on, !.extra = extra]
TableLists ==
    {<<Entry("1", Game, Sized("true", ow, iw, "absent", f, s)),
       Entry("2", Game, Sized(n, ow, iw, "720", f, s))>> :
        n \in {"absent", "false", "true"}, ow \in {"absent", "0", "1280"}, iw \in {"absent", "1280"},
        f \in {Absent, <<>>, <<"fs", "r">>, <<"a", ";", "b">>}, s \in {Absent, <<>>, <<"fit">>}}
    \cup {<<Entry("1", Game, Flagged(fs, "absent", "absent", on, extra)),
            Entry("2", Game, Flagged(fs, "120", "5", on, extra))>> :
        fs \in {"absent", "false", "true"},
        on \in {{}, {"--mangoapp"}, {"--mangoapp", "--hdr-enabled"}, ToSet(Switches)},
        extra \in {<<>>, <<Separator>>, <<<<"a">>>>, <<<<"a", Blank, Apostrophe>>, <<>>>>}}

AppDisks == {Disk(Inline, Listed(list), NoFile, NoFile) : list \in ExecLists \cup TableLists}

MCDisks == KeyDisks \cup CecDisks \cup BadDisks \cup AppDisks
MCNewKeys == {"k1", "k2"}
MCTried == {"inline", "old"}
MCEscaped == {"no\\such"}
MCIds == {"1", "2", "nosuch"} \cup MCEscaped
=============================================================================
