---------------------------- MODULE StringUtils ----------------------------
(***************************************************************************)
(* The functions of string_utils.c.  A string is in a buffer, a function   *)
(* from 0 .. n - 1 to characters; it ends before the first NUL.  A loop    *)
(* that stops at the first position with some property is the least of     *)
(* these positions.                                                        *)
(***************************************************************************)
EXTENDS Integers, FiniteSets, FiniteSetsExt

NUL   == "nul"
Slash == "/"

str_copy(src, dst, max_chars) ==
  LET last == Min({i \in 0 .. max_chars - 1 : src[i] = NUL} \cup {max_chars - 1})
  IN  [i \in DOMAIN dst |-> IF i = max_chars - 1 THEN NUL
                            ELSE IF i \in 0 .. last THEN src[i] ELSE dst[i]]

str_equals(str1, str2, max_chars) ==
  LET stops == {i \in 0 .. max_chars - 1 : str1[i] # str2[i] \/ str1[i] = NUL}
  IN  IF stops # {} /\ str1[Min(stops)] # str2[Min(stops)] THEN -1 ELSE 1

(* -1 if there is no NUL among the first max_chars characters *)
str_len(str, max_chars) ==
  LET ends == {i \in 0 .. max_chars - 1 : str[i] = NUL} IN
  IF ends = {} THEN -1 ELSE Min(ends)

str_next_token(str, start_pos, max_chars, delim) ==
  Min({i \in start_pos .. max_chars - 1 : str[i] \in {delim, NUL}} \cup {max_chars})

str_last_delimiter(str, last_pos, delim) ==
  Max({i \in 0 .. last_pos : str[i] = delim} \cup {-1})

str_path_number(pathname) ==
  LET end == Min({i \in DOMAIN pathname : pathname[i] = NUL})
  IN  Cardinality({i \in 0 .. end - 1 : pathname[i] = Slash})

-----------------------------------------------------------------------------
(***************************************************************************)
(* What string_utils.h says of them, on all strings in buffers of three    *)
(* characters.                                                             *)
(***************************************************************************)
Buffers == [0 .. 2 -> {"x", "y", NUL}]
Strings == {str \in Buffers : str_len(str, 3) >= 0}

(* "max_chars is maximum number of characters to copy INCLUDING null       *)
(* terminator": what arrives is the longest beginning that fits, and       *)
(* nothing behind max_chars is touched.                                    *)
ASSUME CopyKeepsWhatFits ==
  \A src \in Strings, dst \in Buffers, max \in 1 .. 3 :
    LET copy == str_copy(src, dst, max) IN
    /\ str_len(copy, 3) = Min({str_len(src, 3), max - 1})
    /\ \A i \in 0 .. str_len(copy, 3) - 1 : copy[i] = src[i]
    /\ \A i \in max .. 2 : copy[i] = dst[i]

(* "strings considered equal if first max_chars are equal": what comes     *)
(* after the terminator makes no difference.                               *)
ASSUME EqualIgnoresWhatFollows ==
  \A str1, str2 \in Strings, max \in 1 .. 3 :
    LET Seen(str) == [i \in 0 .. Min({str_len(str, 3), max}) - 1 |-> str[i]] IN
    str_equals(str1, str2, max) = 1 <=> Seen(str1) = Seen(str2)

=============================================================================
