\* Two processes, stores of every age.
SPECIFICATION MigrationSpec
CONSTANTS
  Openers = {daemon, desktop}
  From = {0, 1, 2, 3, 4, 5, 6, 7, 8, 9, 10, 11, 12, 13}
  MaxSetbacks = 1
INVARIANT StaysOpenable
