----------------------------- MODULE AdmOptions -----------------------------
(***************************************************************************)
(* What vrrpd receives of a line typed at the prompt of vrrpadm: the words *)
(* are parsed by getopt, which moves them about, for modify twice with     *)
(* different option letters, and the result is put into a command and      *)
(* taken out of it by the daemon.                                          *)
(*                                                                         *)
(* A word is an option letter alone ("-d"), one with its value ("-d5"), or *)
(* a value; a value stands for its text and for what strtol makes of it,   *)
(* 0 if it is no number.  An address list is its number, 0 if invalid.     *)
(* The texts are numbers and names like eth0: no option letter is found in *)
(* a word after its second character.                                      *)
(***************************************************************************)
EXTENDS Integers, Sequences, SequencesExt

CONSTANTS Given,      \* what is typed: a set of [opt, val, len], len the length of val's text
          MaxOpts,    \* bound on the number of options on a line
          UNDEF       \* an indeterminate value

Letter == {"v", "a", "i", "d", "p", "o", "A", "j"}

Word == [opt : Letter \cup {""}, joined : BOOLEAN, val : Nat, len : Nat]

ASSUME OptionsAssumption ==
    /\ Given \subseteq [opt : Letter, val : Nat, len : Nat \ {0}]
    /\ MaxOpts \in Nat
    /\ UNDEF \notin Word

VARIABLES line,   \* the words typed after the command's name
          nopts,  \* how many options they were typed as
          scan    \* what getopt keeps from one call to the next

vars == <<line, nopts, scan>>

Alone(c) == [opt |-> c, joined |-> FALSE, val |-> 0, len |-> 2]
Joined(g) == [opt |-> g.opt, joined |-> TRUE, val |-> g.val, len |-> 2 + g.len]
Text(n, l) == [opt |-> "", joined |-> FALSE, val |-> n, len |-> l]
Value(n) == Text(n, 0)   \* where only the number matters

VR_PROP_UNCHANGE == -1
AF_INET == 2

strtol(w) == IF w.opt = "" THEN w.val ELSE 0

(***************************************************************************)
(* getopt of the C library.  Every letter of the sets given takes a value: *)
(* the rest of the word or else the next word, whatever it is.  An unknown *)
(* letter is reported and skipped, and so is one without a value at the    *)
(* end of the line.  The words that are neither options nor their values   *)
(* are moved to the end.                                                   *)
(*                                                                         *)
(* getopt has a pointer into the word it is reading.  It is left at the    *)
(* end of a word with an unknown letter, and vrrpadm, which sets optind    *)
(* back to 1, does not reset it.  The next line is typed into the same     *)
(* buffers: if a longer text is now in that one, its end is read first,    *)
(* and the first word of the line is skipped in its stead.                 *)
(*   slot   the buffer the pointer is left in, 0 if none                   *)
(*   len    where in it                                                    *)
(*   left   where the text there ends: further on, if a line that getopt   *)
(*          did not read was typed since                                   *)
(*   plain  the line before began with words that are no options           *)
(***************************************************************************)
NoScan == [slot |-> 0, len |-> 0, left |-> 0, plain |-> FALSE]

\* where the text at the pointer ends once words are typed: a shorter word leaves
\* what stands there
Ends(words, s) ==
    IF s.slot \in DOMAIN words /\ words[s.slot].len >= s.len THEN words[s.slot].len ELSE s.left

Skips(words, s) == words # <<>> /\ Ends(words, s) > s.len

\* With no word to skip getopt goes past the end of the line and, as it meets it
\* nowhere, past that of subcmd[]: vrrpadm ends.
Overruns(words, s) == words = <<>> /\ Ends(words, s) > s.len

NothingRead == [want |-> "", opts |-> <<>>, rest |-> <<>>, found |-> <<>>, unknown |-> 0]

\* One word read: the value of the option before it, no option, an unknown letter, an
\* option with its value, an option whose value comes next.
Takes(letters, a, w) ==
    IF a.want # ""
    THEN [a EXCEPT !.want = "", !.opts = Append(@, w),
                   !.found = Append(@, [opt |-> a.want, arg |-> w])]
    ELSE IF w.opt = "" THEN [a EXCEPT !.rest = Append(@, w)]
    ELSE IF w.opt \notin letters
    THEN [a EXCEPT !.opts = Append(@, w), !.unknown = Len(a.opts) + 1]
    ELSE IF w.joined
    THEN [a EXCEPT !.opts = Append(@, w), !.unknown = 0,
                   !.found = Append(@, [opt |-> w.opt, arg |-> Text(w.val, w.len - 2)])]
    ELSE [a EXCEPT !.opts = Append(@, w), !.unknown = 0, !.want = w.opt]

ReadAll(words, letters) == FoldLeft(LAMBDA a, w : Takes(letters, a, w), NothingRead, words)

getopt(words, letters, s) ==
    LET skips == Skips(words, s)
        first == IF skips THEN <<words[1]>> ELSE <<>>
        end == ReadAll(IF skips THEN Tail(words) ELSE words, letters)
        front == IF s.plain THEN <<>> ELSE first
        len == IF end.opts = <<>> THEN IF skips THEN Ends(words, s) ELSE s.len
               ELSE IF end.unknown = 0 THEN 0 ELSE end.opts[end.unknown].len
    IN [found |-> end.found,
        argv |-> front \o end.opts \o (IF s.plain THEN first ELSE <<>>) \o end.rest,
        scan |-> [slot |-> IF end.opts = <<>> THEN s.slot
                           ELSE IF end.unknown = 0 THEN 0 ELSE Len(front) + end.unknown,
                  len |-> len, left |-> len,
                  plain |-> end.opts = <<>> /\ front = <<>> /\ words # <<>>]]

\* the argument of the last option c that was found
LastArg(found, c, default) ==
    LET k == SelectLastInSeq(found, LAMBDA f : f.opt = c)
    IN IF k = 0 THEN default ELSE found[k].arg

(***************************************************************************)
(* vrrpadm                                                                 *)
(***************************************************************************)

\* mutant: the id is an int
parse_opt_ids_wide(words, s) ==
    LET g == getopt(words, {"v", "a", "i"}, s)
    IN [vid |-> strtol(LastArg(g.found, "v", Value(0))),
        ifname |-> LastArg(g.found, "i", Value(0)), af |-> AF_INET, argv |-> g.argv, scan |-> g.scan]

\* mutant: "v:a:i", the interface is not an argument
parse_opt_ids_no_colon(words, s) ==
    LET g == getopt(words, {"v", "a"}, s)
    IN [vid |-> strtol(LastArg(g.found, "v", Value(0))) % 256,
        ifname |-> Value(0), af |-> AF_INET, argv |-> g.argv, scan |-> g.scan]

\* mutant: optind is not set back, the second pass starts at the end
parse_opt_ids_no_reset(words, s) ==
    LET g == getopt(words, {"v", "a", "i"}, s)
    IN [vid |-> strtol(LastArg(g.found, "v", Value(0))) % 256,
        ifname |-> LastArg(g.found, "i", Value(0)), af |-> AF_INET, argv |-> <<>>, scan |-> g.scan]

\* vid is a uint8_t, ifname the text or "", and -a can only confirm AF_INET
parse_opt_ids(words, s) ==
    LET g == getopt(words, {"v", "a", "i"}, s)
    IN [vid |-> strtol(LastArg(g.found, "v", Value(0))) % 256,
        ifname |-> LastArg(g.found, "i", Value(0)), af |-> AF_INET, argv |-> g.argv, scan |-> g.scan]

\* The second pass reads the line as the first one left it.  "o" is no letter of
\* it, and -A and -P are read and ignored: the two modes never change.
cmd_modify(words, s) ==
    LET ids == parse_opt_ids(words, s)
        g == getopt(ids.argv, {"d", "p", "A"}, ids.scan)
    IN [vid |-> ids.vid, ifname |-> ids.ifname, af |-> ids.af,
        pri |-> strtol(LastArg(g.found, "p", Value(VR_PROP_UNCHANGE))),
        delay |-> strtol(LastArg(g.found, "d", Value(VR_PROP_UNCHANGE))),
        pree_mode |-> VR_PROP_UNCHANGE, acpt_mode |-> VR_PROP_UNCHANGE, scan |-> g.scan]

\* parse_vrip: the addresses replace those before them, if the first is valid
parse_vrip(w, inst) == IF strtol(w) > 0 THEN [inst EXCEPT !.vr_ip = w, !.vr_af = AF_INET] ELSE inst

\* mutant: the id is an int
ReadsWideId(inst, f) ==
    CASE f.opt = "v" -> [inst EXCEPT !.cv = TRUE, !.vr_id = strtol(f.arg)]
      [] f.opt = "p" -> [inst EXCEPT !.pri = strtol(f.arg) % 256]
      [] f.opt = "d" -> [inst EXCEPT !.delay = strtol(f.arg)]
      [] f.opt = "o" -> [inst EXCEPT !.lost = TRUE]
      [] f.opt \in {"i", "A", "j"} /\ ~inst.cv -> [inst EXCEPT !.lost = TRUE]
      [] f.opt = "i" /\ inst.cv -> [inst EXCEPT !.vr_ifname = f.arg]
      [] f.opt = "A" /\ inst.cv -> parse_vrip(f.arg, inst)
      [] f.opt = "j" /\ inst.cv -> [parse_vrip(f.arg, inst) EXCEPT !.pip = f.arg]

\* One option of create.  cv points nowhere before -v; process_opt_flags frees a
\* pointer it has moved, and vrrpadm ends.  -j is parsed as an address list too.
Reads(inst, f) ==
    CASE f.opt = "v" -> [inst EXCEPT !.cv = TRUE, !.vr_id = strtol(f.arg) % 256]
      [] f.opt = "p" -> [inst EXCEPT !.pri = strtol(f.arg) % 256]
      [] f.opt = "d" -> [inst EXCEPT !.delay = strtol(f.arg)]
      [] f.opt = "o" -> [inst EXCEPT !.lost = TRUE]
      [] f.opt \in {"i", "A", "j"} /\ ~inst.cv -> [inst EXCEPT !.lost = TRUE]
      [] f.opt = "i" /\ inst.cv -> [inst EXCEPT !.vr_ifname = f.arg]
      [] f.opt = "A" /\ inst.cv -> parse_vrip(f.arg, inst)
      [] f.opt = "j" /\ inst.cv -> [parse_vrip(f.arg, inst) EXCEPT !.pip = f.arg]

\* what cmd_create starts from
Blank(s) == [cv |-> FALSE, lost |-> FALSE, vr_id |-> UNDEF, vr_ifname |-> UNDEF,
             vr_ip |-> UNDEF, vr_af |-> UNDEF, pip |-> UNDEF, pri |-> 100, delay |-> 1,
             scan |-> s]

\* The command is lost if vrrpadm ends or overwrites what it should not; handle_ij
\* reads the address of -j through NULL if there was none.
cmd_create(words, s) ==
    LET g == getopt(words, {"A", "d", "i", "j", "o", "p", "v"}, s)
        inst == FoldLeft(Reads, Blank(s), g.found)
    IN [inst EXCEPT !.lost = @ \/ inst.pip = UNDEF, !.scan = g.scan]

(***************************************************************************)
(* The command, field after field, and what parse_vrrp_cmd reads           *)
(***************************************************************************)
build_vrrp_cmd(c) ==
    <<c.vid, c.ifname, c.af, c.pri, c.delay, c.pree_mode, c.acpt_mode>>

parse_vrrp_cmd(b) ==
    [vid |-> b[1], ifname |-> b[2], af |-> b[3], pri |-> b[4], delay |-> b[5],
     pree_mode |-> b[6], acpt_mode |-> b[7]]

(***************************************************************************)
(* The prompt                                                              *)
(***************************************************************************)
Init == line = <<>> /\ nopts = 0 /\ scan = NoScan

Adds(words) ==
    /\ nopts < MaxOpts
    /\ nopts' = nopts + 1 /\ line' = line \o words
    /\ UNCHANGED scan

TypesPair == \E g \in Given : Adds(<<Alone(g.opt), Text(g.val, g.len)>>)
TypesJoined == \E g \in Given : Adds(<<Joined(g)>>)
TypesLetter == \E g \in Given : Adds(<<Alone(g.opt)>>)
TypesValue == \E g \in Given : Adds(<<Text(g.val, g.len)>>)

\* the line is executed as one of the commands, and the next one begins; a lost
\* vrrpadm is started again
Enters(s) == line' = <<>> /\ nopts' = 0 /\ scan' = s

Reached(s) == IF Overruns(line, scan) THEN NoScan ELSE s

EntersIds == Enters(Reached(parse_opt_ids(line, scan).scan))
EntersModify == Enters(Reached(cmd_modify(line, scan).scan))
EntersCreate == LET inst == cmd_create(line, scan)
                IN Enters(Reached(IF inst.lost THEN NoScan ELSE inst.scan))

\* show, or no command at all: getopt is not called, its pointer stays
EntersOther == Enters([scan EXCEPT !.left = Ends(line, scan)])

\* exit, quit, q
EntersExit == Enters(NoScan)

Next == \/ TypesPair \/ TypesJoined \/ TypesLetter \/ TypesValue
        \/ EntersIds \/ EntersModify \/ EntersCreate \/ EntersOther \/ EntersExit

Spec == Init /\ [][Next]_vars

-----------------------------------------------------------------------------
IsAlone(w) == w.opt # "" /\ ~w.joined

\* every option has its value and every value its option
WellFormed ==
    \A k \in DOMAIN line :
        /\ IsAlone(line[k]) => k < Len(line) /\ line[k + 1].opt = ""
        /\ line[k].opt = "" => k > 1 /\ IsAlone(line[k - 1])

Has(c) == \E k \in DOMAIN line : line[k].opt = c
FirstAt(c) == SelectInSeq(line, LAMBDA w : w.opt = c)
LastAt(c) == SelectLastInSeq(line, LAMBDA w : w.opt = c)

\* the value the line gives to an option: the last one
ValueAt(k) == IF line[k].joined THEN Text(line[k].val, line[k].len - 2) ELSE line[k + 1]
Says(c, default) == IF LastAt(c) = 0 THEN default ELSE ValueAt(LastAt(c))

\* getopt reads the line from its beginning
ReadFromStart == ~Skips(line, scan) /\ ~Overruns(line, scan)

\* A line is words of the kinds above; ids and priorities fit their byte.
TypeOK ==
    /\ line \in Seq(Word)
    /\ nopts \in 0 .. MaxOpts
    /\ scan \in [slot : 0 .. 2 * MaxOpts, len : Nat, left : Nat, plain : BOOLEAN]
    /\ parse_opt_ids(line, scan).vid \in 0 .. 255
    /\ cmd_create(line, scan).pri \in 0 .. 255

\* delete, startup, shutdown, getx and modify mean the instance that the line names,
\* wherever -v and -i stand between options that parse_opt_ids does not know and
\* whose values getopt moves away.
IdsAsTyped ==
    LET ids == parse_opt_ids(line, scan)
    IN /\ ids.vid = Says("v", Value(0)).val % 256
       /\ ids.ifname = Says("i", Value(0))

NamesInstance == (WellFormed /\ ReadFromStart) => IdsAsTyped

\* The priority and interval that the daemon reads out of a modify command are the
\* ones typed, if an option that parse_opt_ids does not know is written in one word
\* with its value or is the last one of the line (otherwise the first pass puts the
\* option that follows where its value was).
ModifyAsTyped ==
    LET Apart(k) == line[k].opt \notin {"", "v", "a", "i"} /\ ~line[k].joined
        LastOption(k) == \A j \in DOMAIN line : j > k => line[j].opt = ""
        got == parse_vrrp_cmd(build_vrrp_cmd(cmd_modify(line, scan)))
    IN (WellFormed /\ ReadFromStart /\ \A k \in DOMAIN line : Apart(k) => LastOption(k)) =>
          /\ got.pri = Says("p", Value(VR_PROP_UNCHANGE)).val
          /\ got.delay = Says("d", Value(VR_PROP_UNCHANGE)).val

\* A create command is as typed if -v comes before the options that need it, -j is
\* given, and a valid -A after the last -j.
CreateAsTyped ==
    LET inst == cmd_create(line, scan)
    IN ( /\ WellFormed /\ ReadFromStart /\ Has("v") /\ Has("j") /\ ~Has("o")
         /\ \A c \in {"i", "A", "j"} : Has(c) => FirstAt("v") < FirstAt(c)
         /\ LastAt("A") > LastAt("j") /\ Says("A", Value(0)).val > 0 ) =>
          /\ ~inst.lost
          /\ inst.vr_id = Says("v", Value(0)).val % 256
          /\ inst.vr_ip = Says("A", Value(0)) /\ inst.pip = Says("j", Value(0))
          /\ Has("i") => inst.vr_ifname = Says("i", Value(0))
          /\ inst.pri = Says("p", Value(100)).val % 256
          /\ inst.delay = Says("d", Value(1)).val

(***************************************************************************)
(* What a comment says and vrrpadm does not do                             *)
(***************************************************************************)

\* "cmd_****() functions accepts arguments parses it and sends data to corresponding
\* functions in libvrrp" (vrrpadm.c:82): a command means the instance that its
\* line names, whatever was typed before.
NamesInstanceAlways == WellFormed => IdsAsTyped
=============================================================================
