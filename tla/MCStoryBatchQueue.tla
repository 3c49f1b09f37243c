------------------------- MODULE MCStoryBatchQueue -------------------------
(* An instance of StoryBatchQueue: items, one of which cannot start, and    *)
(* manual runs.                                                             *)
EXTENDS StoryBatchQueue

Third == {3}
=============================================================================
