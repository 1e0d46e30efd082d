------------------------------ MODULE TomlParser ------------------------------
(***************************************************************************)
(* quick::utils::TomlParser (include/quick/utils/TomlParser.hh): a file of *)
(* sections and `key = value` lines, read line by line into m_keys.        *)
(*                                                                         *)
(* A line is a sequence of tokens: the characters the parser looks for,    *)
(* blanks, and words.  Between two loads the file on disk may be edited or *)
(* removed.                                                                *)
(***************************************************************************)
EXTENDS Integers, Sequences, SequencesExt

CONSTANTS
  Lines,      \* the lines that files are made of
  Numeral,    \* Numeral[w]: the int that std::stoi reads in word w
  Meaning,    \* Meaning[l]: what line l is to say, for the properties
  NoFile,
  MaxLines,   \* bound: lines in a file
  MaxEdits,   \* bound: changes to the file
  MaxLoads    \* bound: calls of load()

Blank  == " "
Quotes == {"'", "QUOTE"}

ASSUME TomlAssumption ==
  /\ Lines \subseteq Seq(STRING) /\ DOMAIN Meaning = Lines
  /\ Numeral \in [DOMAIN Numeral -> Int]
  /\ NoFile \notin Seq(Lines)
  /\ MaxLines \in Nat /\ MaxEdits \in Nat /\ MaxLoads \in Nat

VARIABLES
  disk,             \* the file at m_filepath: its lines, or NoFile
  m_keys,           \* <<section, key>> -> value, of the entries read so far
  m_sections,
  pos,              \* the line that std::getline returns next, 0 outside load()
  current_section,
  result,           \* what the last load() returned
  before,           \* m_keys when that load() began
  got,              \* the lines that it read, once it has returned
  edits, loads

parse    == <<m_keys, m_sections, pos, current_section, result>>
ghost    == <<before, got, edits, loads>>
tomlVars == <<disk, parse, ghost>>

TomlInit ==
  /\ disk \in UNION {[1..n -> Lines] : n \in 0..MaxLines}
  /\ m_keys = <<>> /\ m_sections = <<>>
  /\ pos = 0 /\ current_section = <<>> /\ result = "none"
  /\ before = <<>> /\ got = <<>>
  /\ edits = 0 /\ loads = 0

-----------------------------------------------------------------------------
(* Strings.                                                                *)

\* The place of the first c in s, 0 for npos.
Find(c, s) == SelectInSeq(s, LAMBDA x : x = c)

Before(s, k) == SubSeq(s, 1, k - 1)
After(s, k)  == SubSeq(s, k + 1, Len(s))

\* s up to the first c, all of it if there is none.
UpTo(c, s) == IF Find(c, s) = 0 THEN s ELSE Before(s, Find(c, s))

TrimLeft(s) ==
  LET k == SelectInSeq(s, LAMBDA x : x # Blank)
  IN  IF k = 0 THEN <<>> ELSE SubSeq(s, k, Len(s))

\* The two erase calls, with find_first_not_of and find_last_not_of.
Trim(s) == SubSeq(TrimLeft(s), 1, SelectLastInSeq(TrimLeft(s), LAMBDA x : x # Blank))

Unquote(s) ==
  IF Len(s) >= 2 /\ s[1] \in Quotes /\ s[Len(s)] = s[1]
  THEN SubSeq(s, 2, Len(s) - 1) ELSE s

-----------------------------------------------------------------------------
(* One line of extract_keys.                                               *)

IsSkipped(line) == line = <<>> \/ Find("#", line) = 1

IsSection(line) == ~IsSkipped(line) /\ Find("[", line) # 0

\* What follows the first bracket, up to the closing one or to the end.
SectionName(line) == Trim(UpTo("]", After(line, Find("[", line))))

\* Anything else is an entry, or a PARSE_ERROR.
IsEntry(line) == ~IsSkipped(line) /\ ~IsSection(line) /\ Find("=", line) # 0

Key(line) == Trim(Before(line, Find("=", line)))

\* The comment goes first, then the quotes.
Value(line) == Unquote(Trim(UpTo("#", Trim(After(line, Find("=", line))))))

\* What a line is to say, which is listed without regard to the operators above,
\* is what they make of it.  TLC checks it for the lines of the run.
ASSUME MeaningAssumption ==
  \A l \in Lines :
    LET line == Trim(l)
    IN  /\ Meaning[l].kind = IF IsSkipped(line) THEN "nothing"
                             ELSE IF IsSection(line) THEN "section"
                             ELSE IF IsEntry(line) THEN "entry" ELSE "bad"
        /\ IsSection(line) => Meaning[l].name = SectionName(line)
        /\ IsEntry(line) => Meaning[l].key = Key(line) /\ Meaning[l].value = Value(line)

-----------------------------------------------------------------------------
(* load                                                                    *)

Idle == pos = 0

Load ==
  /\ Idle /\ loads < MaxLoads
  /\ loads' = loads + 1
  /\ before' = m_keys /\ got' = <<>>
  /\ current_section' = <<>>
  /\ IF disk = NoFile
     THEN pos' = 0 /\ result' = "FILE_NOT_FOUND"
     ELSE pos' = 1 /\ result' = "none"
  /\ UNCHANGED <<disk, m_keys, m_sections, edits>>

Parsing == pos > 0 /\ pos <= Len(disk)
Current == Trim(disk[pos])

SkipLine ==
  /\ Parsing /\ IsSkipped(Current)
  /\ pos' = pos + 1
  /\ UNCHANGED <<disk, m_keys, m_sections, current_section, result, ghost>>

SectionLine ==
  /\ Parsing /\ IsSection(Current)
  /\ current_section' = SectionName(Current)
  /\ m_sections' = Append(m_sections, SectionName(Current))
  /\ pos' = pos + 1
  /\ UNCHANGED <<disk, m_keys, result, ghost>>

\* unordered_map::emplace does nothing if the key is there.
Emplace_mut(keys, k, v) ==
  [x \in DOMAIN keys \cup {k} |-> IF x = k THEN v ELSE keys[x]]
Emplace(keys, k, v) ==
  [x \in DOMAIN keys \cup {k} |-> IF x \in DOMAIN keys THEN keys[x] ELSE v]

EntryLine_mut ==
  /\ Parsing /\ IsEntry(Current)
  /\ m_keys' = Emplace(m_keys, <<current_section, Key(Current)>>, Value(Current))
  /\ pos' = pos + 1
  /\ UNCHANGED <<disk, m_sections, current_section, result, ghost>>
EntryLine ==
  /\ Parsing /\ IsEntry(Current) /\ current_section # <<>>
  /\ m_keys' = Emplace(m_keys, <<current_section, Key(Current)>>, Value(Current))
  /\ pos' = pos + 1
  /\ UNCHANGED <<disk, m_sections, current_section, result, ghost>>

\* No equal sign, or no section yet.  What was read before stays.
BadLine ==
  /\ Parsing
  /\ ~IsSkipped(Current) /\ ~IsSection(Current)
  /\ ~IsEntry(Current) \/ current_section = <<>>
  /\ pos' = 0 /\ result' = "PARSE_ERROR"
  /\ got' = SubSeq(disk, 1, pos - 1)
  /\ UNCHANGED <<disk, m_keys, m_sections, current_section, before, edits, loads>>

\* std::getline fails, at the end of the file or because reading it failed:
\* the loop cannot tell, and load() returns true.
EndOfFile ==
  /\ pos > 0
  /\ pos' = 0 /\ result' = "true"
  /\ got' = SubSeq(disk, 1, pos - 1)
  /\ UNCHANGED <<disk, m_keys, m_sections, current_section, before, edits, loads>>

-----------------------------------------------------------------------------
(* The getters.                                                            *)

\* get_value without its nullopt: the cases are told apart by Has.
Has(section, key) == <<section, key>> \in DOMAIN m_keys
get_value(section, key) == m_keys[<<section, key>>]

\* The key is split at its first dot, and the value is unquoted once more.
get_string(key) ==
  LET dot == Find(".", key)
      section == Before(key, dot)
      subkey == After(key, dot)
  IN  IF dot # 0 /\ Has(section, subkey) THEN Unquote(get_value(section, subkey)) ELSE <<>>

\* std::stoi reads the number in front of a string and ignores the rest.
IsNumber(s) == TrimLeft(s) # <<>> /\ TrimLeft(s)[1] \in DOMAIN Numeral
stoi(s) == Numeral[TrimLeft(s)[1]]

get_int(key) == IF IsNumber(get_string(key)) THEN stoi(get_string(key)) ELSE 0

-----------------------------------------------------------------------------
(* The file system.                                                        *)

EditFile ==
  /\ Idle /\ edits < MaxEdits /\ disk # NoFile
  /\ edits' = edits + 1
  /\ \/ \E i \in 1..Len(disk), l \in Lines : disk' = [disk EXCEPT ![i] = l]
     \/ disk' = NoFile
  /\ UNCHANGED <<parse, before, got, loads>>

TomlNext ==
  \/ Load \/ SkipLine \/ SectionLine \/ EntryLine \/ BadLine \/ EndOfFile
  \/ EditFile

TomlSpec == TomlInit /\ [][TomlNext]_tomlVars

-----------------------------------------------------------------------------
(* Properties.                                                             *)

\* What a file says, read as a whole: an entry belongs to the nearest section
\* above it, and the first entry for a key counts.
Is(f, j, kind) == Meaning[f[j]].kind = kind

SectionOf(f, j) ==
  LET headers == {i \in 1..(j - 1) : Is(f, i, "section")}
  IN  IF headers = {} THEN <<>> ELSE Meaning[f[Max(headers)]].name

Entries(f) == {j \in 1..Len(f) : Is(f, j, "entry")}

Says(f) ==
  LET at(j) == <<SectionOf(f, j), Meaning[f[j]].key>>
  IN  [k \in {at(j) : j \in Entries(f)} |->
         Meaning[f[Min({j \in Entries(f) : at(j) = k})]].value]

\* A file without a line that says nothing and without an entry outside the
\* sections.
Sound(f) ==
  /\ \A j \in 1..Len(f) : ~Is(f, j, "bad")
  /\ \A j \in Entries(f) : SectionOf(f, j) # <<>>

\* However often load() runs (122-144), over whatever changes to the file, it has
\* added what the lines it read say and taken nothing away: an older value stays
\* (211), and the entries read before an error stay too (177, 182).
LoadMerges ==
  LET said == Says(IF pos > 0 THEN SubSeq(disk, 1, pos - 1) ELSE got)
  IN  m_keys = [k \in DOMAIN before \cup DOMAIN said |->
                  IF k \in DOMAIN before THEN before[k] ELSE said[k]]

\* load() refuses only a file that is not sound (177, 182), and a file that it
\* reads to the end only if it is not (150-213).  Of a file that it could not
\* read to the end nothing is said here: see TrueIsSuccess.
LoadVerdict ==
  [][pos > 0 /\ pos' = 0 =>
       /\ result' # "true" => ~Sound(disk)
       /\ result' = "true" /\ got' = disk => Sound(disk)]_tomlVars

\* What the comment on load() (63-65) promises, true if successful and false
\* otherwise: once it has returned true, every key of a sound file that did not
\* change since is there.
TrueIsSuccess ==
  result = "true" /\ edits = 0 /\ Sound(disk) => DOMAIN Says(disk) \subseteq DOMAIN m_keys

=============================================================================
