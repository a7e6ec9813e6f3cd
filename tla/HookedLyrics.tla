---------------------------- MODULE HookedLyrics ----------------------------
(***************************************************************************)
(* LyricPath with what precedes it: install_hooks searches KSongsUI.dll    *)
(* for the update method whose calls the detour turns into callbacks.      *)
(* Without the method there are none.                                      *)
(***************************************************************************)
EXTENDS LyricPath, ModuleScan

CONSTANT Images   \* bound: the images of KSongsUI.dll

VARIABLES
  image,    \* KSongsUI.dll, until it has been searched
  method    \* the method detoured

hookedVars == <<vars, image, method>>

NoImage == [memory |-> <<>>, page |-> <<>>, headers |-> <<>>]

HookedInit ==
  /\ image \in Images
  /\ method = NotFound
  /\ lines = <<>> /\ timeline = <<>> /\ playback = NoPlayback

Install ==
  /\ image # NoImage
  /\ image' = NoImage
  /\ method' = UpdateTarget(image)
  /\ UNCHANGED vars

\* The answer to StartCapture was an Error.
Refused == image = NoImage /\ method = NotFound /\ UNCHANGED hookedVars

\* WeSing begins a song.
Begin ==
  /\ method # NotFound /\ lines = <<>>
  /\ lines' \in Vectors
  /\ UNCHANGED <<timeline, playback, image, method>>

Sing ==
  /\ method # NotFound /\ lines # <<>>
  /\ Next
  /\ UNCHANGED <<image, method>>

HookedNext == Install \/ Refused \/ Begin \/ Sing

HookedSpec == HookedInit /\ [][HookedNext]_hookedVars

------------------------------------------------------------------------------

\* install_hooks detours nothing but an update method of the class, and finds one
\* wherever sections, pages, locators and vtables lie, whatever else is in the
\* image, unless the class's name occurs more than once: an earlier copy of it
\* is taken for the type descriptor.
ScanFindsMethod ==
  [][Install =>
       LET methods == UpdateMethods(image) IN
       \/ method' \in methods
       \/ /\ method' = NotFound
          /\ methods = {} \/ Cardinality(Whole(image, ClassName)) > 1]_hookedVars

=============================================================================
