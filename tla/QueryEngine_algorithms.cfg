CONSTANTS
    A = A
    B = B
    C = C
    D = D
    E = E
    PathNodes <- MCNodes
    Unbounded = 99
    Cut = Cut
    NoMatch = NoMatch
    Graphs <- MCGraphs
    Patterns <- MCPatterns
    PatternPairs <- MCPatternPairs
    SelectorGraphs <- MCSelectorGraphs
    Selections <- MCSelections
    SearchGraphs <- MCSearchGraphs
    Searches <- MCSearches
    Exact = 4
    Panic = Panic
    Bits = 4
    Sample <- MCSample
    Truths <- MCTruths
    Operands <- MCOperands
    Tables <- MCTables
    ItemLists <- MCItemLists
    Endings <- MCEndings
    Trees <- MCTrees
    Ticks = 3
    Days <- MCDays
    Moments <- MCMoments
    NodeIds = {1, 2, 3}
    Vectors = {0, 1, 2}
    NoVector = NoVector
    Workers = 2
    BatchSize = 2
    Capacity = 1
    Slack = 1
SPECIFICATION Spec
INVARIANTS
    OrderIsTotal
    ValueIdentity
    SqlAgrees
    LogicLaws
    ArithmeticExact
    PushdownAgrees
    PrecedenceReadsBack
    CalendarRoundTrips
    MatrixIsMap
    SearchIsBest
PROPERTIES
    PlansAgree
    PartsDisjoint
    SelectorsExact
    ShortestIsShortest
    ProjectionSound
    BetweenAddsUp
