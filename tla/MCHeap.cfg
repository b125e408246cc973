SPECIFICATION Spec
CONSTANTS
    PageSize = 16
    Header = 9
    Sizes = {0, 1, 6, 20}
    MaxPages = 4
INVARIANTS Linked Coalesced PagesEndWithHeap
PROPERTIES RefusedChangesNothing ImplementsAllocator
