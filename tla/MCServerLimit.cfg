SPECIFICATION SSpec
CONSTANTS
    Handler = {h1, h2, h3}
    max_threads = 2
SYMMETRY Symmetry
INVARIANT MaxThreadsServed
CHECK_DEADLOCK FALSE
