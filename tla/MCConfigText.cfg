SPECIFICATION FairSpec
CONSTANTS
  Chars <- SmallChars
  MaxLength = 6
INVARIANTS TypeOK LineCommentsBlank BlockCommentsBlank TailCommasBlank CommentsGone
PROPERTIES FiltersEnd
\* The filters end.
CHECK_DEADLOCK FALSE
