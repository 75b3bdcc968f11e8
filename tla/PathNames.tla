----------------------------- MODULE PathNames -----------------------------
(***************************************************************************)
(* How _ramdisk_walk_path and _ramdisk_get_parent take a path name apart,  *)
(* character by character, and that it comes to what Directory makes of it *)
(* there: the sequence of the names between its delimiters, empty names    *)
(* included.                                                               *)
(***************************************************************************)
EXTENDS StringUtils, Sequences, SequencesExt

CONSTANTS
  DIR_ENTRY_NAME_BYTES,  \* room for a name with its terminator (14)
  MAX_FILENAME_LENGTH    \* beyond any path name (512)

TooLong == <<"too long">>

Between(str, first, last) == [i \in 1 .. last - first + 1 |-> str[first + i - 1]]

(***************************************************************************)
(* The loop of _ramdisk_walk_path: the names it looks up, one after the    *)
(* other, up to one that is too long.  For "/" it looks up none.           *)
(***************************************************************************)
WalkedNames(name) ==
  LET pathLength == str_len(name, MAX_FILENAME_LENGTH)
      Token(path_pos, token_end) ==
        IF token_end - path_pos > DIR_ENTRY_NAME_BYTES THEN TooLong
        ELSE Between(name, path_pos + 1, token_end - 1)
      from[path_pos \in 0 .. pathLength] ==
        LET token_end == str_next_token(name, path_pos + 1, pathLength, Slash) IN
        IF token_end = path_pos THEN <<>>
        ELSE IF Token(path_pos, token_end) = TooLong THEN <<TooLong>>
        ELSE <<Token(path_pos, token_end)>> \o from[token_end]
  IN  IF pathLength = 1 THEN <<>> ELSE from[0]

(***************************************************************************)
(* _ramdisk_get_parent: the root itself if the last delimiter is the first *)
(* character, else the names it walks to the parent; and the last name.    *)
(***************************************************************************)
ParentNames(iPathname) ==
  LET nameLength == str_len(iPathname, MAX_FILENAME_LENGTH)
      last_delim == str_last_delimiter(iPathname, nameLength - 1, Slash)
      root == [str_copy(iPathname, iPathname, last_delim + 1) EXCEPT ![last_delim] = NUL]
  IN  [walk  |-> IF last_delim = 0 THEN <<>> ELSE WalkedNames(root),
       token |-> Between(iPathname, last_delim + 1, nameLength - 1)]

(* _ramdisk_add_directory_entry takes a name of this length. *)
NameFits(name) == Len(name) \in 1 .. DIR_ENTRY_NAME_BYTES - 1

-----------------------------------------------------------------------------
(***************************************************************************)
(* Path names of up to three names of up to DIR_ENTRY_NAME_BYTES           *)
(* characters, the longest ones one too long.                              *)
(***************************************************************************)
SomeNames == UNION {[1 .. n -> {"x"}] : n \in 0 .. DIR_ENTRY_NAME_BYTES} \cup {<<"y">>}
SomePaths == UNION {[1 .. n -> SomeNames] : n \in 1 .. 3}

Characters(path) == FlattenSeq([i \in DOMAIN path |-> <<Slash>> \o path[i]])

(* The characters of a path name in memory, then a NUL and what is there   *)
(* by chance                                                               *)
Buffer(path, behind) ==
  LET chars == Characters(path) IN
  [i \in 0 .. MAX_FILENAME_LENGTH - 1 |->
     IF i < Len(chars) THEN chars[i + 1]
     ELSE IF i = Len(chars) THEN NUL ELSE behind]

UpToTooLong(path) ==
  LET long == {i \in DOMAIN path : Len(path[i]) >= DIR_ENTRY_NAME_BYTES} IN
  IF long = {} THEN path ELSE SubSeq(path, 1, Min(long) - 1) \o <<TooLong>>

ASSUME PathAssumption ==
  /\ DIR_ENTRY_NAME_BYTES \in Nat \ {0, 1}
  /\ MAX_FILENAME_LENGTH > 3 * (DIR_ENTRY_NAME_BYTES + 1)

(* A walk looks up exactly the names between the delimiters, an empty one  *)
(* for a doubled or a trailing delimiter; only "/" has none.               *)
ASSUME WalksTheNames ==
  \A path \in SomePaths, behind \in {"x", Slash} :
    WalkedNames(Buffer(path, behind)) =
      IF path = << <<>> >> THEN <<>> ELSE UpToTooLong(path)

(* The parent is walked to by all the names but the last: the empty last   *)
(* name of a trailing delimiter is a name of its own.  Only of a last name *)
(* that fits: the array it is copied to has DIR_ENTRY_NAME_BYTES places,   *)
(* and its length is looked at after that.                                 *)
ASSUME ParentIsTheFront ==
  \A path \in SomePaths, behind \in {"x", Slash} :
    LET parent == ParentNames(Buffer(path, behind)) IN
    Len(Last(path)) < DIR_ENTRY_NAME_BYTES =>
    /\ parent.token = Last(path)
    /\ parent.walk = IF Front(path) = << <<>> >> THEN <<>> ELSE UpToTooLong(Front(path))

(* Whatever can be created can be walked to afterwards: the two functions  *)
(* measure a name differently, with and without its delimiter, and draw    *)
(* the line at the same length.                                            *)
ASSUME CreatedNamesAreReached ==
  \A name \in SomeNames \ {<<>>} :
    NameFits(name) <=> WalkedNames(Buffer(<<name>>, "x")) # <<TooLong>>

(* The number of names is the number of delimiters. *)
ASSUME PathNumberCounts ==
  \A path \in SomePaths : str_path_number(Buffer(path, Slash)) = Len(path)

=============================================================================
