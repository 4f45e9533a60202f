\* Two paging files whose notifications may overlap.
CONSTANTS
  File = {f1, f2}
SPECIFICATION PagingSpec
INVARIANT PagableOnlyWithoutPagingFile
