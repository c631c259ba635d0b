----------------------------- MODULE MCCommands -----------------------------
(***************************************************************************)
(* The command lines for the run of Commands: every line with up to two    *)
(* arguments of a small alphabet, and some that are longer.                *)
(***************************************************************************)
EXTENDS CommandProperties

Dev == Text("dev")

Common == {Dev, Word, Blank, BadPair, Number("foo", 1)}

ArgsOf(command) ==
  Common \cup
  CASE command = "read"  -> {Number("ts_gteq", 1), Number("limit", -1), Text("limit")}
    [] command = "write" -> {Number("timestamp", -1), Number("faketimestamp", IntSize)}
    [] command = "init"  -> {Number("bs", n) : n \in {-1, 0, 6, 7, 8, 10}} \cup
                            {Number("hpad", 10), Number("padchar", 256), Number("padchar", 255)}
    [] OTHER             -> {}

UpTo2(S) == {<<>>} \cup {<<a>> : a \in S} \cup {<<a, b>> : a \in S, b \in S}

Line(command, args) == [command |-> command, args |-> args]

Long(command) ==
  CASE command = "write" ->
         {<<Dev, Number("timestamp", 1), a, b>> :
            a \in {Number("timestamp", 2), Number("appdata", 1), Word}, b \in {Word, Number("foo", 1)}}
    [] command = "init"  ->
         {<<Dev, Number("bs", n), Number("hpad", m)>> : n \in {4, 6, 8}, m \in {8, 10}} \cup
         {<<Dev, Number("bs", 6), Number("bs", 8)>>,
          <<Dev, Number("bs", 6), Number("padchar", 255), Number("hpad", 10), Word>>}
    [] OTHER             -> {<<Dev, Blank, Word>>, <<Dev, Number("foo", 1), Word>>}

MCLines ==
  UNION {{Line(c, args) : args \in UpTo2(ArgsOf(c)) \cup Long(c)} :
         c \in {"open", "clear", "validate", "read", "write", "init"}}
  \cup {Line(c, args) : c \in {"help", "close", "unknown"}, args \in {<<>>, <<Word>>, <<BadPair>>}}

=============================================================================
